----------------------- MODULE DNSRecordOpsOrderProofs -----------------------
(***************************************************************************)
(* What DNSRecordOps promises about the daemon and about an op that is in  *)
(* the agent's hands: OnlyOwnVerdict for every interleaving of writers,    *)
(* NoRollback and NewestWins while record-writing transactions do not      *)
(* overlap, for every number of ops, processes and RRsets.                 *)
(***************************************************************************)
EXTENDS DNSRecordOpsProofs

\* A poll handler belongs to a process that was started, as does a shipped op.
Processes ==
    /\ \A i \in Inst : polls[i].phase # "idle" => i =< inst
    /\ \A o \in Op : /\ op[o].to =< inst
                     /\ op[o].state = "in_flight" => op[o].to >= 1

-----------------------------------------------------------------------------
(* What the operations on a table do to one row.                           *)

\* Row by row, what charging the ops of S makes of table t, and the oks of a heartbeat.
ChargesRows(t, S, u) ==
    \A o \in Op :
        /\ o \notin S => u[o] = t[o]
        /\ o \in S => /\ u[o].attempts = t[o].attempts + 1
                      /\ u[o].to = t[o].to
                      /\ u[o].state \in {"superseded", "failed", "pending"}
                      /\ u[o].state = "pending" => Successors(t, o) = {}

SettlesRows(t, as, u) ==
    \A o \in Op :
        /\ ~ AckedOk(as, o) => u[o] = t[o]
        /\ AckedOk(as, o) => u[o].state \in {"none", "applied"}
        /\ u[o].to = t[o].to
        /\ u[o].attempts \in {t[o].attempts, t[o].attempts + 1}
        /\ u[o] = t[o] \/ (u[o].state = "applied" /\ t[o].state # "none")

\* A charged row: one attempt more, and pending only without a successor.
LEMMA ChargedRow ==
    ASSUME NEW t \in [Op -> OpRow], NEW o \in Op
    PROVE  /\ FailAttempt(t, o).attempts = t[o].attempts + 1
           /\ FailAttempt(t, o).to = t[o].to
           /\ FailAttempt(t, o).state \in {"superseded", "failed", "pending"}
           /\ FailAttempt(t, o).state = "pending" => Successors(t, o) = {}
<1> DEFINE c == [t[o] EXCEPT !.attempts = @ + 1, !.overdue = FALSE]
           n == Newest(t, Successors(t, o))
<1>0. t[o] \in OpRow
  OBVIOUS
<1>1. DOMAIN c = DOMAIN t[o] /\ c.attempts = t[o].attempts + 1 /\ c.to = t[o].to
  BY <1>0 DEF OpRow
<1>2. {"state", "backoff", "attempts", "to", "by", "overdue"} \subseteq DOMAIN c
  BY <1>0, <1>1 DEF OpRow
<1>3. FailAttempt(t, o) = IF Successors(t, o) # {} THEN Superseded(c, n)
                          ELSE IF c.attempts >= MAX_OP_ATTEMPTS
                          THEN [c EXCEPT !.state = "failed", !.backoff = FALSE]
                          ELSE [c EXCEPT !.state = "pending", !.backoff = TRUE]
  BY DEF FailAttempt
<1> HIDE DEF c, n
<1>4. CASE Successors(t, o) # {}
  BY <1>1, <1>2, <1>3, <1>4 DEF Superseded
<1>5. CASE Successors(t, o) = {}
  BY <1>1, <1>2, <1>3, <1>5
<1> QED
  BY <1>4, <1>5

LEMMA ChargedRows ==
    ASSUME NEW t \in [Op -> OpRow], NEW S \in SUBSET Op
    PROVE  ChargesRows(t, S, FailAttempts(t, S))
<1> DEFINE u == FailAttempts(t, S)
<1>1. \A o \in Op : u[o] = IF o \in S THEN FailAttempt(t, o) ELSE t[o]
  BY DEF FailAttempts
<1> HIDE DEF u
<1>2. ChargesRows(t, S, u)
  BY <1>1, ChargedRow DEF ChargesRows
<1> QED
  BY <1>2 DEF u

\* The ok half of apply_acks touches the rows with an ok, and settles them all.
LEMMA OkAckedRows ==
    ASSUME NEW t \in [Op -> OpRow], NEW as
    PROVE  SettlesRows(t, as, OkAcked(t, as))
<1> DEFINE u == OkAcked(t, as)
<1> SUFFICES ASSUME NEW o \in Op
             PROVE  /\ ~ AckedOk(as, o) => u[o] = t[o]
                    /\ AckedOk(as, o) => u[o].state \in {"none", "applied"}
                    /\ u[o].to = t[o].to
                    /\ u[o].attempts \in {t[o].attempts, t[o].attempts + 1}
                    /\ u[o] = t[o] \/ (u[o].state = "applied" /\ t[o].state # "none")
  BY DEF SettlesRows
<1> DEFINE a == IF t[o].state = "in_flight" /\ FirstOkCurrent(t, as, o)
                THEN t[o].attempts + 1 ELSE t[o].attempts
<1>0. a \in {t[o].attempts, t[o].attempts + 1}
  OBVIOUS
<1>1. u[o] = IF AckedOk(as, o) /\ t[o].state \notin {"none", "applied"}
             THEN [t[o] EXCEPT !.state = "applied", !.backoff = FALSE,
                               !.overdue = FALSE, !.attempts = a]
             ELSE t[o]
  BY DEF OkAcked
<1>2. t[o] \in OpRow
  OBVIOUS
<1> HIDE DEF a, u
<1> QED
  BY <1>0, <1>1, <1>2 DEF OpRow

\* The three tables of a heartbeat: the oks, the errors, the unacknowledged ops.
LEMMA HeartbeatTables ==
    ASSUME ships \in [Op -> Nat], TableOK(op), NEW as,
           op' = ResetUnacknowledged(ApplyAcks(op, as))
    PROVE  \E u, w \in [Op -> OpRow] :
              /\ SettlesRows(op, as, u) /\ Good(op, u)
              /\ ChargesRows(u, ErrorAcked(op, as), w) /\ Good(u, w)
              /\ ChargesRows(w, Unacknowledged(w), op') /\ Good(w, op')
<1> DEFINE u == OkAcked(op, as)
           w == FailAttempts(u, ErrorAcked(op, as))
<1>1. Good(op, u)
  BY OkAckedGood
<1>2. \A o \in ErrorAcked(op, as) : o \in Op /\ u[o].state = "in_flight"
  BY DEF ErrorAcked, OkAcked
<1>3. Good(u, w)
  <2>1. TableOK(u) /\ ErrorAcked(op, as) \in SUBSET Op
    BY <1>1 DEF Good, ErrorAcked
  <2>2. w = FailAttempts(u, ErrorAcked(op, as))
    OBVIOUS
  <2> HIDE DEF u, w
  <2> QED
    BY <1>2, <2>1, <2>2, FailAttemptsGood
<1>4. op' = FailAttempts(w, Unacknowledged(w))
  BY DEF ResetUnacknowledged, ApplyAcks
<1>5. Good(w, op')
  <2>1. TableOK(w)
    BY <1>3 DEF Good
  <2> HIDE DEF w
  <2>2. /\ Unacknowledged(w) \in SUBSET Op
        /\ \A o \in Unacknowledged(w) : w[o].state = "in_flight"
    BY DEF Unacknowledged
  <2> QED
    BY <1>4, <2>1, <2>2, FailAttemptsGood
<1>6. u \in [Op -> OpRow] /\ w \in [Op -> OpRow] /\ op \in [Op -> OpRow]
  BY <1>1, <1>3 DEF Good, TableOK
<1>7. SettlesRows(op, as, u)
  BY <1>6, OkAckedRows
<1>8. ChargesRows(u, ErrorAcked(op, as), w)
  <2>1. ErrorAcked(op, as) \in SUBSET Op
    BY DEF ErrorAcked
  <2> HIDE DEF u
  <2> QED
    BY <1>6, <2>1, ChargedRows
<1> HIDE DEF u, w
<1>9. ChargesRows(w, Unacknowledged(w), op')
  <2>1. Unacknowledged(w) \in SUBSET Op
    BY DEF Unacknowledged
  <2> QED
    BY <1>4, <1>6, <2>1, ChargedRows
<1> QED
  BY <1>1, <1>3, <1>5, <1>6, <1>7, <1>8, <1>9

\* return_ops_dispatched_elsewhere: the charged rows, without their backoff.
LEMMA ReturnedRows ==
    ASSUME IInv, NEW i \in Inst, PollReturn(i)
    PROVE  ChargesRows(op, DispatchedElsewhere(i), op') /\ Frame(op, op')
<1> DEFINE S == DispatchedElsewhere(i)
           t == FailAttempts(op, S)
<1>1. op \in [Op -> OpRow] /\ S \in SUBSET Op
  BY DEF IInv, TypeOK, DispatchedElsewhere
<1>2. Good(op, t)
  BY FailAttemptsGood DEF IInv, TypeOK, DispatchedElsewhere
<1>3. t \in [Op -> OpRow]
  BY <1>2 DEF Good, TableOK
<1>4. ChargesRows(op, S, t)
  BY <1>1, ChargedRows
<1>5. \A o \in Op : op'[o] = IF o \in S /\ t[o].state = "pending"
                             THEN [t[o] EXCEPT !.backoff = FALSE] ELSE t[o]
  BY DEF PollReturn
<1> HIDE DEF t
<1>6. \A o \in Op : /\ op'[o].attempts = t[o].attempts /\ op'[o].to = t[o].to
                    /\ op'[o].state = t[o].state /\ op'[o].key = t[o].key
                    /\ op'[o].created = t[o].created /\ op'[o].ver = t[o].ver
                    /\ o \notin S => op'[o] = t[o]
  BY <1>3, <1>5 DEF OpRow
<1>8. Frame(op, op')
  BY <1>2, <1>6 DEF Good, Frame
<1> HIDE DEF S
<1>7. ChargesRows(op, S, op')
  BY <1>4, <1>6 DEF ChargesRows
<1> QED
  BY <1>7, <1>8 DEF S

\* A page: the rows shipped, those superseded behind them, and the rest.
LEMMA ShippedRows ==
    ASSUME IInv, NEW i \in Inst, NEW S \in SUBSET Due(i), op' = Shipped(S, i)
    PROVE  \A o \in Op :
              /\ o \in S => /\ op'[o].state = "in_flight" /\ ~ op'[o].overdue
                            /\ op'[o].to = i /\ op'[o].attempts = op[o].attempts
                            /\ op[o].state = "pending"
              /\ o \notin S /\ o \in BackedOff(S) =>
                    /\ op'[o].state = "superseded" /\ op[o].state = "pending"
                    /\ op'[o].to = op[o].to /\ op'[o].attempts = op[o].attempts
              /\ o \notin S /\ o \notin BackedOff(S) => op'[o] = op[o]
<1>1. \A o \in Op :
        op'[o] = IF o \in S
                 THEN [op[o] EXCEPT !.state = "in_flight", !.overdue = FALSE, !.to = i]
                 ELSE IF o \in BackedOff(S) THEN Superseded(op[o], PageNewest(S, o))
                 ELSE op[o]
  BY DEF Shipped
<1>2. \A o \in Op : op[o] \in OpRow
  BY DEF IInv, TypeOK
<1>3. \A o \in Op : (o \in S \/ o \in BackedOff(S)) => op[o].state = "pending"
  BY DEF Due, BackedOff
<1> TAKE o \in Op
<1>4. CASE o \in S
  <2>1. op'[o] = [op[o] EXCEPT !.state = "in_flight", !.overdue = FALSE, !.to = i]
    BY <1>1, <1>4
  <2> QED
    BY <1>2, <1>3, <1>4, <2>1 DEF OpRow
<1>5. CASE o \notin S /\ o \in BackedOff(S)
  <2>1. op'[o] = Superseded(op[o], PageNewest(S, o))
    BY <1>1, <1>5
  <2> QED
    BY <1>2, <1>3, <1>5, <2>1 DEF Superseded, OpRow
<1>6. CASE o \notin S /\ o \notin BackedOff(S)
  BY <1>1, <1>6
<1> QED
  BY <1>4, <1>5, <1>6

-----------------------------------------------------------------------------
(* OnlyOwnVerdict.                                                         *)

LEMMA ProcessesInit == Init => Processes
BY ConstantsAssumption DEF Init, Processes, Poll, NoRow, Inst

\* The timers change two flags of a row, and the rows they set overdue are in flight.
LEMMA TimerRows ==
    ASSUME IInv, (\E p \in Op : BackoffElapses(p)) \/ AckTimeout
    PROVE  \A o \in Op :
              /\ op'[o].key = op[o].key /\ op'[o].created = op[o].created
              /\ op'[o].ver = op[o].ver /\ op'[o].state = op[o].state
              /\ op'[o].attempts = op[o].attempts /\ op'[o].to = op[o].to
<1>1. op \in [Op -> OpRow]
  BY DEF IInv, TypeOK
<1>2. CASE \E p \in Op : BackoffElapses(p)
  <2>1. PICK p \in Op : op' = [op EXCEPT ![p].backoff = FALSE]
    BY <1>2 DEF BackoffElapses
  <2>2. \A o \in Op : op'[o] = IF o = p THEN [op[o] EXCEPT !.backoff = FALSE] ELSE op[o]
    BY <1>1, <2>1
  <2> QED
    BY <1>1, <2>2 DEF OpRow
<1>3. CASE AckTimeout
  <2>1. \A o \in Op : op'[o] = IF op[o].state = "in_flight"
                               THEN [op[o] EXCEPT !.overdue = TRUE] ELSE op[o]
    BY <1>3 DEF AckTimeout
  <2> QED
    BY <1>1, <2>1 DEF OpRow
<1> QED
  BY <1>2, <1>3

\* The steps that leave the table alone.
QuietAction ==
    \/ BeginTxn
    \/ \E t \in Txn : RollbackTxn(t)
    \/ StoreBundle \/ SetMaintenance \/ StartPoll
    \/ \E i \in Inst : PollRefresh(i)
    \/ \E i \in Inst, a \in BOOLEAN : PollWait(i, a)
    \/ \E i \in Inst : PollClientGone(i)
    \/ \E ok, took \in BOOLEAN : ApplyOp(ok, took)
    \/ Restart \/ HeartbeatSend
    \/ \E i \in Inst : HeartbeatLost(i)
    \/ UNCHANGED vars

LEMMA QuietLeavesTable == ASSUME QuietAction PROVE op' = op
BY DEF QuietAction, BeginTxn, RollbackTxn, StoreBundle, SetMaintenance, StartPoll, PollRefresh,
       PollWait, PollClientGone, ApplyOp, Restart, HeartbeatSend, HeartbeatLost, vars

\* A step leaves the table alone, or is one of the five that change it.
LEMMA StepCases ==
    ASSUME [Next]_vars
    PROVE  \/ QuietAction
           \/ \E t \in Txn, k \in Written, m \in 1 .. MaxTxnOps : EnqueueRecordOps(t, k, m)
           \/ \E i \in Inst : PollReturn(i)
           \/ \E i \in Inst, d \in BOOLEAN : PollPage(i, d)
           \/ \E i \in Inst, a \in BOOLEAN : Heartbeat(i, a)
           \/ (\E o \in Op : BackoffElapses(o)) \/ AckTimeout
BY Zenon DEF Next, QuietAction

\* What a commit does to the table, row by row.
LEMMA EnqueuedRows ==
    ASSUME IInv, NEW t \in Txn, NEW k \in Written, NEW m \in 1 .. MaxTxnOps,
           EnqueueRecordOps(t, k, m)
    PROVE  \A o \in Op :
              \/ op'[o] = op[o]
              \/ /\ op[o].state = "none" /\ o > queued
                 /\ op'[o].state = "pending" /\ op'[o].to = 0 /\ op'[o].attempts = 0
                 /\ op'[o].key = k /\ op'[o].created = t
<1> TAKE o \in Op
<1>1. CASE o \in queued + 1 .. queued + m
  <2> DEFINE v == IF k = NoKey THEN 0 ELSE desired[k] + (o - queued)
  <2>1. op'[o] = NewRow(k, t, v)
    BY <1>1 DEF EnqueueRecordOps
  <2>2. op[o].state = "none" /\ o > queued
    BY <1>1 DEF IInv, Rows, TypeOK, Op
  <2> HIDE DEF v
  <2> QED
    BY <2>1, <2>2 DEF NewRow, NoRow
<1>2. CASE o \notin queued + 1 .. queued + m
  BY <1>2 DEF EnqueueRecordOps
<1> QED
  BY <1>1, <1>2

LEMMA ProcessesNext ==
    ASSUME IInv, Processes, [Next]_vars
    PROVE  Processes'
<1>0. /\ inst \in Int /\ inst >= 1 /\ Inst \subseteq Int
      /\ \A i \in Inst : i >= 1
      /\ \A o \in Op : op[o].to \in Int
      /\ op \in [Op -> OpRow] /\ polls \in [Inst -> PollState] /\ inst \in Inst
  BY ConstantsAssumption DEF IInv, TypeOK, Inst, OpRow
<1>1. inst' \in {inst, inst + 1}
  BY StepCases DEF QuietAction, BeginTxn, RollbackTxn, StoreBundle, SetMaintenance, StartPoll,
       PollRefresh, PollWait, PollClientGone, ApplyOp, Restart, HeartbeatSend, HeartbeatLost, vars,
       EnqueueRecordOps, PollReturn, PollPage, Heartbeat, BackoffElapses, AckTimeout
<1>2. \A i \in Inst : polls'[i].phase # "idle" => polls[i].phase # "idle" \/ i = inst
  <2>1. CASE QuietAction
    BY <1>0, <2>1 DEF QuietAction, BeginTxn, RollbackTxn, StoreBundle, SetMaintenance, StartPoll,
       PollRefresh, PollWait, PollClientGone, ApplyOp, Restart, HeartbeatSend, HeartbeatLost, vars,
       Poll
  <2>2. CASE \E i \in Inst : PollReturn(i)
    BY <1>0, <2>2 DEF PollReturn, PollState
  <2>3. CASE \E i \in Inst, d \in BOOLEAN : PollPage(i, d)
    BY <1>0, <2>3 DEF PollPage, Poll
  <2> QED
    BY <2>1, <2>2, <2>3, StepCases DEF EnqueueRecordOps, Heartbeat, BackoffElapses, AckTimeout
<1>3. \A i \in Inst : polls'[i].phase # "idle" => i =< inst'
  <2> TAKE i \in Inst
  <2>1. polls'[i].phase # "idle" => i =< inst
    BY <1>0, <1>2 DEF Processes
  <2> QED
    BY <1>0, <1>1, <2>1
<1>4. \A o \in Op : /\ op'[o].to =< inst
                    /\ op'[o].state = "in_flight" => op'[o].to >= 1
  <2>1. CASE QuietAction
    BY <2>1, QuietLeavesTable DEF Processes
  <2>2. CASE \E t \in Txn, k \in Written, m \in 1 .. MaxTxnOps : EnqueueRecordOps(t, k, m)
    BY <1>0, <2>2, EnqueuedRows DEF Processes
  <2>3. CASE \E i \in Inst : PollReturn(i)
    BY <2>3, ReturnedRows DEF Processes, ChargesRows
  <2>4. CASE \E i \in Inst, d \in BOOLEAN : PollPage(i, d)
    <3>1. PICK i \in Inst, d \in BOOLEAN : PollPage(i, d)
      BY <2>4
    <3>2. PICK S \in SUBSET Due(i) : op' = Shipped(S, i)
      BY <3>1 DEF PollPage
    <3>3. i =< inst
      BY <3>1 DEF PollPage, Processes
    <3> QED
      BY <1>0, <3>2, <3>3, ShippedRows DEF Processes
  <2>5. CASE \E i \in Inst, a \in BOOLEAN : Heartbeat(i, a)
    <3>1. PICK i \in Inst, a \in BOOLEAN : Heartbeat(i, a)
      BY <2>5
    <3> DEFINE as == hb[i].acks
    <3>2. PICK u \in [Op -> OpRow], w \in [Op -> OpRow] :
              /\ SettlesRows(op, as, u)
              /\ ChargesRows(u, ErrorAcked(op, as), w)
              /\ ChargesRows(w, Unacknowledged(w), op')
      BY <3>1, HeartbeatTables DEF IInv, TypeOK, Heartbeat
    <3> HIDE DEF as
    <3>3. \A o \in Op : u[o].to = op[o].to /\ (u[o].state = "in_flight" => op[o].state = "in_flight")
      BY <3>2 DEF SettlesRows
    <3>4. \A o \in Op : w[o].to = u[o].to /\ (w[o].state = "in_flight" => u[o].state = "in_flight")
      BY <3>2 DEF ChargesRows
    <3>5. \A o \in Op : op'[o].to = w[o].to /\ (op'[o].state = "in_flight" => w[o].state = "in_flight")
      BY <3>2 DEF ChargesRows
    <3> QED
      BY <3>3, <3>4, <3>5 DEF Processes
  <2>6. CASE (\E o \in Op : BackoffElapses(o)) \/ AckTimeout
    BY <2>6, TimerRows DEF Processes
  <2> QED
    BY <2>1, <2>2, <2>3, <2>4, <2>5, <2>6, StepCases
<1>5. \A o \in Op : op'[o].to \in Int
  <2>1. IInv'
    BY IInvNext
  <2> QED
    BY <2>1 DEF IInv, TypeOK, OpRow
<1> QED
  BY <1>0, <1>1, <1>3, <1>4, <1>5 DEF Processes

\* The body of OnlyOwnVerdict, for one op.
OwnVerdict(o) ==
    /\ op[o].state = "in_flight"
    /\ op[o].to = inst
    /\ op'[o].state # "in_flight"
    => \/ op[o].overdue
       \/ \E i \in Inst : \E n \in DOMAIN hb[i].acks :
             /\ hb[i].out
             /\ hb[i].acks[n].op = o
             /\ hb[i].acks[n].ok \/ hb[i].acks[n].dispatch = op[o].attempts

LEMMA OwnVerdictStep ==
    ASSUME IInv, Processes, [Next]_vars
    PROVE  \A o \in Op : OwnVerdict(o)
<1> SUFFICES ASSUME NEW o \in Op, op[o].state = "in_flight", op[o].to = inst,
                    op'[o].state # "in_flight", ~ op[o].overdue
             PROVE  \E i \in Inst : \E n \in DOMAIN hb[i].acks :
                       /\ hb[i].out
                       /\ hb[i].acks[n].op = o
                       /\ hb[i].acks[n].ok \/ hb[i].acks[n].dispatch = op[o].attempts
  BY DEF OwnVerdict
<1>0. op \in [Op -> OpRow] /\ inst \in Int /\ Inst \subseteq Int
  BY DEF IInv, TypeOK, Inst
<1>1. CASE QuietAction
  BY <1>1, QuietLeavesTable
<1>2. CASE \E t \in Txn, k \in Written, m \in 1 .. MaxTxnOps : EnqueueRecordOps(t, k, m)
  BY <1>2, EnqueuedRows
<1>3. CASE \E i \in Inst : PollReturn(i)
  <2>1. PICK i \in Inst : PollReturn(i)
    BY <1>3
  <2>2. o \in DispatchedElsewhere(i)
    BY <2>1, ReturnedRows DEF ChargesRows
  <2>3. i =< inst
    BY <2>1 DEF PollReturn, Processes
  <2> QED
    BY <1>0, <2>2, <2>3 DEF DispatchedElsewhere
<1>4. CASE \E i \in Inst, d \in BOOLEAN : PollPage(i, d)
  <2>1. PICK i \in Inst, d \in BOOLEAN : PollPage(i, d)
    BY <1>4
  <2>2. PICK S \in SUBSET Due(i) : op' = Shipped(S, i)
    BY <2>1 DEF PollPage
  <2> QED
    BY <2>2, ShippedRows
<1>5. CASE \E i \in Inst, a \in BOOLEAN : Heartbeat(i, a)
  <2>1. PICK i \in Inst, a \in BOOLEAN : Heartbeat(i, a)
    BY <1>5
  <2> DEFINE as == hb[i].acks
  <2>2. PICK u \in [Op -> OpRow], w \in [Op -> OpRow] :
            /\ SettlesRows(op, as, u)
            /\ ChargesRows(u, ErrorAcked(op, as), w)
            /\ ChargesRows(w, Unacknowledged(w), op')
    BY <2>1, HeartbeatTables DEF IInv, TypeOK, Heartbeat
  <2>3. hb[i].out
    BY <2>1 DEF Heartbeat
  <2>4. CASE AckedOk(as, o)
    BY <2>3, <2>4 DEF AckedOk
  <2>5. CASE o \in ErrorAcked(op, as)
    BY <2>3, <2>5 DEF ErrorAcked
  <2>6. CASE ~ AckedOk(as, o) /\ o \notin ErrorAcked(op, as)
    <3> HIDE DEF as
    <3>1. u[o] = op[o]
      BY <2>2, <2>6 DEF SettlesRows
    <3>2. w[o] = u[o]
      BY <2>2, <2>6 DEF ChargesRows
    <3>3. o \notin Unacknowledged(w)
      BY <3>1, <3>2 DEF Unacknowledged
    <3>4. op'[o] = w[o]
      BY <2>2, <3>3 DEF ChargesRows
    <3> QED
      BY <3>1, <3>2, <3>4
  <2> QED
    BY <2>4, <2>5, <2>6
<1>6. CASE (\E p \in Op : BackoffElapses(p)) \/ AckTimeout
  BY <1>6, TimerRows
<1> QED
  BY <1>1, <1>2, <1>3, <1>4, <1>5, <1>6, StepCases

\* Poll handlers and shipped ops belong to processes that have started.
LEMMA ProcessesInvariance == Spec => []Processes
BY ProcessesInit, ProcessesNext, Invariance, PTL DEF Spec

\* What the running process holds leaves in_flight only on a verdict on that very
\* dispatch or once overdue, however many processes it replaced and whatever their
\* leftover polls and heartbeats still do (return_ops_dispatched_elsewhere, apply_acks).
THEOREM VerdictsAreOwn == Spec => OnlyOwnVerdict
<1>1. IInv /\ Processes /\ [Next]_vars => [\A o \in Op : OwnVerdict(o)]_vars
  BY OwnVerdictStep
<1> QED
  BY <1>1, Invariance, ProcessesInvariance, PTL DEF Spec, OnlyOwnVerdict, OwnVerdict

-----------------------------------------------------------------------------
(* The verdicts under way, and what may still become an ok.                *)

\* The verdicts the agent or the network still holds.
Verdicts ==
    {acks[n] : n \in DOMAIN acks}
      \cup UNION {{hb[i].acks[n] : n \in DOMAIN hb[i].acks} : i \in Inst}

\* The dispatches whose op the agent holds or has reported as applied.
Delivered == {<<e.op, e.dispatch>> : e \in page}
               \cup {<<a.op, a.dispatch>> : a \in {b \in Verdicts : b.ok}}

\* The dispatches that are heard of at all.
Heard == {<<e.op, e.dispatch>> : e \in page} \cup {<<a.op, a.dispatch>> : a \in Verdicts}

\* Row p is a later op for the RRset of row o.
Later(t, p, o) == SameRRset(t, p, o) /\ p > o

\* One verdict per dispatch, and none while the op is still on the page.
OneVerdict ==
    /\ \A a, b \in Verdicts : a.op = b.op /\ a.dispatch = b.dispatch => a.ok = b.ok
    /\ \A a \in Verdicts, e \in page : ~ (a.op = e.op /\ a.dispatch = e.dispatch)

\* A pending op's next dispatch has not been heard of.
Fresh(t, H) ==
    \A h \in H : /\ t[h[1]].state # "none"
                 /\ h[2] =< t[h[1]].attempts
                 /\ t[h[1]].state = "pending" => h[2] < t[h[1]].attempts

\* While an op waits to ship nothing later for its RRset is out; while it is in
\* flight a later one may be, but only its present dispatch.
Waiting(t, D) ==
    \A o, p \in Op : Later(t, p, o) /\ t[o].state = "pending" =>
        /\ t[p].state \notin {"in_flight", "applied"}
        /\ \A d \in D : d[1] # p

Overtaken(t, D) ==
    \A o, p \in Op : Later(t, p, o) /\ t[o].state = "in_flight" =>
        \A d \in D : d[1] = p =>
            \/ t[p].state = "applied"
            \/ t[p].state = "in_flight" /\ d[2] = t[p].attempts

\* Whatever charges a later op in flight charges the earlier one too: it is overdue as
\* well, and it was shipped to the same process or to one before.
Charged(t, D) ==
    \A o, p \in Op :
        Later(t, p, o) /\ t[o].state = "in_flight" /\ t[p].state = "in_flight" =>
            /\ t[p].overdue => t[o].overdue
            /\ <<p, t[p].attempts>> \in D => t[o].to =< t[p].to

TableOrder(t, D) == Waiting(t, D) /\ Overtaken(t, D) /\ Charged(t, D)

\* An op on the page has not been overtaken by an ok.
PageFirst ==
    \A e \in page, p \in Op : Later(op, p, e.op) =>
        /\ op[p].state # "applied"
        /\ \A a \in Verdicts : a.ok => a.op # p

\* What was reported as applied, the daemon still serves, or something later.
Served ==
    /\ \A p \in Op :
          /\ op[p].key # NoKey
          /\ op[p].state = "applied" \/ \E a \in Verdicts : a.ok /\ a.op = p
          => live[op[p].key] >= op[p].ver
    /\ \A k \in Key : live[k] =< desired[k]

\* Without overlapping transactions the queue order is the order of the ids.
IdOrder(t) ==
    /\ \A o, p \in Op : o < p /\ t[p].state # "none" => t[o].created =< t[p].created
    /\ \A o \in Op : t[o].state = "none" => t[o].key = NoKey

Arranged ==
    /\ IdOrder(op) /\ OneVerdict /\ Fresh(op, Heard) /\ TableOrder(op, Delivered)
    /\ PageFirst /\ Served

OrderInv == IInv /\ Processes /\ Arranged

-----------------------------------------------------------------------------
(* The order on a table.                                                   *)

LEMMA QueueIsId ==
    ASSUME NEW t \in [Op -> OpRow], IdOrder(t), NEW o \in Op, NEW p \in Op,
           SameRRset(t, p, o)
    PROVE  QueuedAfter(t, p, o) <=> p > o
<1>1. t[o].state # "none" /\ t[p].state # "none"
  BY DEF IdOrder, SameRRset
<1>2. t[o].created \in Int /\ t[p].created \in Int /\ o \in Int /\ p \in Int
  BY DEF OpRow, Op
<1> QED
  BY <1>1, <1>2 DEF IdOrder, QueuedAfter

LEMMA IdOrderFrame ==
    ASSUME NEW t, NEW u, IdOrder(t), Frame(t, u) PROVE IdOrder(u)
BY DEF IdOrder, Frame

LEMMA LaterFrame ==
    ASSUME NEW t, NEW u, Frame(t, u), NEW o \in Op, NEW p \in Op
    PROVE  Later(u, p, o) <=> Later(t, p, o)
BY DEF Later, SameRRset, Frame

\* Fewer messages, fewer obligations.
LEMMA FewerDelivered ==
    ASSUME NEW t, NEW D, NEW E, E \subseteq D, TableOrder(t, D) PROVE TableOrder(t, E)
BY DEF TableOrder, Waiting, Overtaken, Charged

LEMMA FewerHeard ==
    ASSUME NEW t, NEW H, NEW G, G \subseteq H, Fresh(t, H) PROVE Fresh(t, G)
BY DEF Fresh

\* Charging ops in flight keeps the order, provided an earlier op in flight is charged
\* with every later one whose dispatch the agent has or has reported.
LEMMA ChargeOrder ==
    ASSUME NEW t \in [Op -> OpRow], NEW u, NEW S \in SUBSET Op, NEW D, D \subseteq Op \X Nat,
           \A o \in S : t[o].state = "in_flight",
           ChargesRows(t, S, u), Frame(t, u), IdOrder(t), TableOrder(t, D),
           \A o, p \in Op :
              /\ Later(t, p, o) /\ p \in S /\ t[o].state = "in_flight"
              /\ <<p, t[p].attempts>> \in D
              => o \in S
    PROVE  TableOrder(u, D)
<1>1. \A o \in Op : o \notin S => u[o] = t[o]
  BY DEF ChargesRows
<1>2. \A o \in S : /\ u[o].state \notin {"in_flight", "applied"}
                   /\ u[o].state = "pending" => Successors(t, o) = {}
  BY DEF ChargesRows
<1>3. \A o, p \in Op : Later(u, p, o) <=> Later(t, p, o)
  BY LaterFrame
<1>4. Waiting(u, D)
  <2> SUFFICES ASSUME NEW o \in Op, NEW p \in Op, Later(t, p, o), u[o].state = "pending"
               PROVE  /\ u[p].state \notin {"in_flight", "applied"}
                      /\ \A d \in D : d[1] # p
    BY <1>3 DEF Waiting
  <2>1. CASE o \notin S
    <3>1. t[o].state = "pending"
      BY <1>1, <2>1
    <3>2. t[p].state \notin {"in_flight", "applied"} /\ \A d \in D : d[1] # p
      BY <3>1 DEF TableOrder, Waiting
    <3> QED
      BY <1>1, <1>2, <3>2
  <2>2. CASE o \in S
    <3>1. p \notin Successors(t, o)
      BY <1>2, <2>2
    <3>2. t[p].state \notin {"pending", "in_flight", "applied"}
      <4>1. SameRRset(t, p, o) /\ QueuedAfter(t, p, o)
        BY QueueIsId DEF Later
      <4> QED
        BY <3>1, <4>1 DEF Successors, SuccessorStates
    <3>3. \A d \in D : d[1] # p
      BY <2>2, <3>2 DEF TableOrder, Overtaken
    <3>4. u[p] = t[p]
      BY <1>1, <3>2
    <3> QED
      BY <3>2, <3>3, <3>4
  <2> QED
    BY <2>1, <2>2
<1>5. Overtaken(u, D)
  <2> SUFFICES ASSUME NEW o \in Op, NEW p \in Op, Later(t, p, o), u[o].state = "in_flight",
                      NEW d \in D, d[1] = p
               PROVE  \/ u[p].state = "applied"
                      \/ u[p].state = "in_flight" /\ d[2] = u[p].attempts
    BY <1>3 DEF Overtaken
  <2>1. o \notin S /\ t[o].state = "in_flight"
    BY <1>1, <1>2
  <2>2. \/ t[p].state = "applied"
        \/ t[p].state = "in_flight" /\ d[2] = t[p].attempts
    BY <2>1 DEF TableOrder, Overtaken
  <2>3. CASE t[p].state = "applied"
    BY <1>1, <2>3
  <2>4. CASE t[p].state = "in_flight" /\ d[2] = t[p].attempts
    <3>1. <<p, t[p].attempts>> \in D
      BY <2>4
    <3>2. p \notin S
      BY <2>1, <3>1
    <3> QED
      BY <1>1, <2>4, <3>2
  <2> QED
    BY <2>2, <2>3, <2>4
<1>6. Charged(u, D)
  BY <1>1, <1>2, <1>3 DEF TableOrder, Charged
<1> QED
  BY <1>4, <1>5, <1>6 DEF TableOrder

\* Settling ops that were reported as applied keeps the order.
LEMMA SettleOrder ==
    ASSUME NEW t \in [Op -> OpRow], NEW u, NEW as, NEW D, D \subseteq Op \X Nat,
           SettlesRows(t, as, u), Frame(t, u), TableOrder(t, D),
           \A o \in Op : AckedOk(as, o) => \E d \in D : d[1] = o
    PROVE  TableOrder(u, D)
<1>1. \A o \in Op : u[o] = t[o] \/ (u[o].state = "applied" /\ \E d \in D : d[1] = o)
  BY DEF SettlesRows
<1>2. \A o, p \in Op : Later(u, p, o) <=> Later(t, p, o)
  BY LaterFrame
<1>3. Waiting(u, D)
  BY <1>1, <1>2 DEF TableOrder, Waiting
<1>4. Overtaken(u, D)
  BY <1>1, <1>2 DEF TableOrder, Overtaken
<1>5. Charged(u, D)
  BY <1>1, <1>2 DEF TableOrder, Charged
<1> QED
  BY <1>3, <1>4, <1>5 DEF TableOrder

\* Attempts only grow, and a row comes back to pending with one more.
LEMMA ChargeFresh ==
    ASSUME NEW t \in [Op -> OpRow], NEW u, NEW S \in SUBSET Op, NEW H, H \subseteq Op \X Nat,
           ChargesRows(t, S, u), Fresh(t, H)
    PROVE  Fresh(u, H)
<1> SUFFICES ASSUME NEW h \in H
             PROVE  /\ u[h[1]].state # "none" /\ h[2] =< u[h[1]].attempts
                    /\ u[h[1]].state = "pending" => h[2] < u[h[1]].attempts
  BY DEF Fresh
<1>1. h[1] \in Op /\ h[2] \in Nat /\ t[h[1]].attempts \in Nat
  BY DEF OpRow
<1>2. /\ t[h[1]].state # "none" /\ h[2] =< t[h[1]].attempts
      /\ t[h[1]].state = "pending" => h[2] < t[h[1]].attempts
  BY DEF Fresh
<1>3. CASE h[1] \in S
  BY <1>1, <1>2, <1>3 DEF ChargesRows
<1>4. CASE h[1] \notin S
  BY <1>1, <1>2, <1>4 DEF ChargesRows
<1> QED
  BY <1>3, <1>4

LEMMA SettleFresh ==
    ASSUME NEW t \in [Op -> OpRow], NEW u, NEW as, NEW H, H \subseteq Op \X Nat,
           SettlesRows(t, as, u), Fresh(t, H)
    PROVE  Fresh(u, H)
<1> SUFFICES ASSUME NEW h \in H
             PROVE  /\ u[h[1]].state # "none" /\ h[2] =< u[h[1]].attempts
                    /\ u[h[1]].state = "pending" => h[2] < u[h[1]].attempts
  BY DEF Fresh
<1>1. h[1] \in Op /\ h[2] \in Nat /\ t[h[1]].attempts \in Nat
  BY DEF OpRow
<1>2. /\ t[h[1]].state # "none" /\ h[2] =< t[h[1]].attempts
      /\ t[h[1]].state = "pending" => h[2] < t[h[1]].attempts
  BY DEF Fresh
<1>3. CASE u[h[1]] = t[h[1]]
  BY <1>2, <1>3
<1>4. CASE u[h[1]].state = "applied"
  <2>1. u[h[1]].attempts \in {t[h[1]].attempts, t[h[1]].attempts + 1}
    BY <1>1 DEF SettlesRows
  <2> QED
    BY <1>1, <1>2, <1>4, <2>1
<1> QED
  BY <1>1, <1>3, <1>4 DEF SettlesRows

\* The messages have their types.
LEMMA MessageTypes ==
    ASSUME IInv
    PROVE  /\ page \subseteq PageEntry /\ Verdicts \subseteq Ack
           /\ Delivered \subseteq Op \X Nat /\ Heard \subseteq Op \X Nat
           /\ Delivered \subseteq Heard
<1>1. page \subseteq PageEntry /\ acks \in Seq(Ack)
  BY DEF IInv, TypeOK
<1>2. \A i \in Inst : hb[i].acks \in Seq(Ack)
  BY DEF IInv, TypeOK
<1>3. Verdicts \subseteq Ack
  <2>1. \A n \in DOMAIN acks : acks[n] \in Ack
    BY <1>1
  <2>2. \A i \in Inst : \A n \in DOMAIN hb[i].acks : hb[i].acks[n] \in Ack
    BY <1>2
  <2> QED
    BY <2>1, <2>2 DEF Verdicts
<1>4. \A a \in Verdicts : a.op \in Op /\ a.dispatch \in Nat
  BY <1>3 DEF Ack
<1>5. \A e \in page : e.op \in Op /\ e.dispatch \in Nat
  BY <1>1 DEF PageEntry
<1> QED
  BY <1>1, <1>3, <1>4, <1>5 DEF Delivered, Heard

-----------------------------------------------------------------------------
(* Steps that bring no new message.                                        *)

\* A part of the order at the next state, from the same part of the next table.
LEMMA ArrangedNext ==
    ASSUME IdOrder(op'), OneVerdict', Fresh(op', Heard'), TableOrder(op', Delivered'),
           PageFirst', Served'
    PROVE  Arranged'
<1>1. IdOrder(op)' /\ Fresh(op, Heard)'
  BY DEF IdOrder, Fresh
<1>2. TableOrder(op, Delivered)'
  BY DEF TableOrder, Waiting, Overtaken, Charged, Later, SameRRset
<1> QED
  BY <1>1, <1>2 DEF Arranged

\* No new message, and whatever becomes applied was reported so.
FewerMessages == Verdicts' \subseteq Verdicts /\ page' \subseteq page

LEMMA FewerKnown ==
    ASSUME FewerMessages
    PROVE  Delivered' \subseteq Delivered /\ Heard' \subseteq Heard
BY DEF FewerMessages, Delivered, Heard

LEMMA MessagesStep ==
    ASSUME Arranged, FewerMessages, Frame(op, op'), page \subseteq PageEntry,
           UNCHANGED <<live, desired>>,
           \A p \in Op : op'[p].state = "applied" =>
              \/ op[p].state = "applied"
              \/ \E a \in Verdicts : a.ok /\ a.op = p
    PROVE  OneVerdict' /\ PageFirst' /\ Served'
<1>1. OneVerdict'
  BY DEF Arranged, OneVerdict, FewerMessages
<1>2. PageFirst'
  <2> SUFFICES ASSUME NEW e \in page', NEW p \in Op, Later(op, p, e.op)'
               PROVE  /\ op'[p].state # "applied"
                      /\ \A a \in Verdicts' : a.ok => a.op # p
    BY DEF PageFirst
  <2>1. e \in page /\ e.op \in Op
    BY DEF FewerMessages, PageEntry
  <2>2. Later(op, p, e.op)
    BY <2>1 DEF Later, SameRRset, Frame
  <2>3. op[p].state # "applied" /\ \A a \in Verdicts : a.ok => a.op # p
    BY <2>1, <2>2 DEF Arranged, PageFirst
  <2> QED
    BY <2>3 DEF FewerMessages
<1>3. Served'
  <2>1. \A k \in Key : live'[k] =< desired'[k]
    BY DEF Arranged, Served
  <2> SUFFICES ASSUME NEW p \in Op, op'[p].key # NoKey,
                      op'[p].state = "applied" \/ \E a \in Verdicts' : a.ok /\ a.op = p
               PROVE  live'[op'[p].key] >= op'[p].ver
    BY <2>1 DEF Served
  <2>2. op[p].state = "applied" \/ \E a \in Verdicts : a.ok /\ a.op = p
    BY DEF FewerMessages
  <2>3. op'[p].key = op[p].key /\ op'[p].ver = op[p].ver
    BY DEF Frame
  <2> QED
    BY <2>2, <2>3 DEF Arranged, Served
<1> QED
  BY <1>1, <1>2, <1>3

\* The table is left alone and no message is new.
LEMMA QuietOrder ==
    ASSUME OrderInv, FewerMessages, UNCHANGED <<op, live, desired>>
    PROVE  Arranged'
<1>1. Frame(op, op') /\ page \subseteq PageEntry
  BY DEF Frame, OrderInv, IInv, TypeOK
<1>2. OneVerdict' /\ PageFirst' /\ Served'
  BY <1>1, MessagesStep DEF OrderInv
<1>3. IdOrder(op') /\ Fresh(op', Heard') /\ TableOrder(op', Delivered')
  BY FewerKnown, FewerHeard, FewerDelivered DEF OrderInv, Arranged
<1> QED
  BY <1>2, <1>3, ArrangedNext

\* What the steps of the queue's owner and of the timers do to the messages.
LEMMA SameVerdicts ==
    ASSUME UNCHANGED <<acks, hb>> PROVE Verdicts' = Verdicts
BY DEF Verdicts

LEMMA SentVerdicts ==
    ASSUME IInv, HeartbeatSend PROVE FewerMessages
<1> DEFINE sent == IF Len(acks) =< AcksBatch THEN acks ELSE SubSeq(acks, 1, AcksBatch)
<1>1. /\ acks \in Seq(Ack) /\ acks' = acks /\ page' = page /\ AcksBatch \in Nat
      /\ hb' = [hb EXCEPT ![inst] = [out |-> TRUE, acks |-> sent]] /\ inst \in Inst
      /\ hb \in [Inst -> [out : BOOLEAN, acks : Seq(Ack)]]
  BY ConstantsAssumption DEF IInv, TypeOK, HeartbeatSend
<1>2. \A i \in Inst : hb'[i].acks = IF i # inst THEN hb[i].acks ELSE sent
  <2> HIDE DEF sent
  <2> QED
    BY <1>1
<1>3. Len(acks) > AcksBatch =>
        \A n \in DOMAIN SubSeq(acks, 1, AcksBatch) :
            n \in DOMAIN acks /\ SubSeq(acks, 1, AcksBatch)[n] = acks[n]
  BY <1>1
<1>4. \A i \in Inst : \A n \in DOMAIN hb'[i].acks : hb'[i].acks[n] \in Verdicts
  <2> SUFFICES ASSUME NEW i \in Inst, NEW n \in DOMAIN hb'[i].acks
               PROVE  hb'[i].acks[n] \in Verdicts
    OBVIOUS
  <2>1. CASE i # inst
    BY <1>2, <2>1 DEF Verdicts
  <2>2. CASE i = inst
    <3>1. n \in DOMAIN acks /\ hb'[i].acks[n] = acks[n]
      BY <1>1, <1>2, <1>3, <2>2
    <3> QED
      BY <3>1 DEF Verdicts
  <2> QED
    BY <2>1, <2>2
<1>5. \A n \in DOMAIN acks' : acks'[n] \in Verdicts
  BY <1>1 DEF Verdicts
<1>6. Verdicts' \subseteq Verdicts
  <2> SUFFICES ASSUME NEW a \in Verdicts' PROVE a \in Verdicts
    OBVIOUS
  <2>1. \/ \E n \in DOMAIN acks' : a = acks'[n]
        \/ \E i \in Inst : \E n \in DOMAIN hb'[i].acks : a = hb'[i].acks[n]
    BY DEF Verdicts
  <2> QED
    BY <1>4, <1>5, <2>1
<1> QED
  BY <1>1, <1>6 DEF FewerMessages

\* A heartbeat that is lost, answered or not answered, and a restart.
LEMMA FinishedVerdicts ==
    ASSUME IInv, NEW i \in Inst, hb' = [hb EXCEPT ![i] = NoHeartbeat], page' = page,
           acks' = acks \/ acks' = SubSeq(acks, Len(hb[i].acks) + 1, Len(acks))
    PROVE  FewerMessages
<1> DEFINE from == Len(hb[i].acks)
<1>1. /\ acks \in Seq(Ack) /\ from \in Nat
      /\ hb \in [Inst -> [out : BOOLEAN, acks : Seq(Ack)]]
  BY DEF IInv, TypeOK
<1>2. \A j \in Inst : hb'[j].acks = IF j = i THEN <<>> ELSE hb[j].acks
  BY <1>1 DEF NoHeartbeat
<1>3. \A j \in Inst : \A n \in DOMAIN hb'[j].acks : hb'[j].acks[n] \in Verdicts
  <2> SUFFICES ASSUME NEW j \in Inst, NEW n \in DOMAIN hb'[j].acks
               PROVE  hb'[j].acks[n] \in Verdicts
    OBVIOUS
  <2>1. j # i /\ hb'[j].acks = hb[j].acks
    BY <1>2
  <2> QED
    BY <2>1 DEF Verdicts
<1>4. \A n \in DOMAIN acks' : acks'[n] \in Verdicts
  <2> SUFFICES ASSUME NEW n \in DOMAIN acks' PROVE acks'[n] \in Verdicts
    OBVIOUS
  <2>1. CASE acks' = acks
    BY <2>1 DEF Verdicts
  <2>2. CASE acks' = SubSeq(acks, from + 1, Len(acks))
    <3> HIDE DEF from
    <3>1. n + from \in DOMAIN acks /\ acks'[n] = acks[n + from]
      BY <1>1, <2>2
    <3> QED
      BY <3>1 DEF Verdicts
  <2> QED
    BY <2>1, <2>2
<1>5. Verdicts' \subseteq Verdicts
  <2> SUFFICES ASSUME NEW a \in Verdicts' PROVE a \in Verdicts
    OBVIOUS
  <2>1. \/ \E n \in DOMAIN acks' : a = acks'[n]
        \/ \E j \in Inst : \E n \in DOMAIN hb'[j].acks : a = hb'[j].acks[n]
    BY DEF Verdicts
  <2> QED
    BY <1>3, <1>4, <2>1
<1> QED
  BY <1>5 DEF FewerMessages

LEMMA RestartVerdicts ==
    ASSUME Restart PROVE FewerMessages
<1>1. acks' = <<>> /\ page' = {} /\ hb' = hb
  BY DEF Restart
<1>2. \A n \in DOMAIN acks' : FALSE
  BY <1>1
<1>3. Verdicts' \subseteq Verdicts
  <2> SUFFICES ASSUME NEW a \in Verdicts' PROVE a \in Verdicts
    OBVIOUS
  <2>1. \/ \E n \in DOMAIN acks' : a = acks'[n]
        \/ \E j \in Inst : \E n \in DOMAIN hb'[j].acks : a = hb'[j].acks[n]
    BY DEF Verdicts
  <2>2. \E j \in Inst : \E n \in DOMAIN hb[j].acks : a = hb[j].acks[n]
    BY <1>1, <1>2, <2>1
  <2> QED
    BY <2>2 DEF Verdicts
<1> QED
  BY <1>1, <1>3 DEF FewerMessages

\* The quiet steps other than the application of an op.
LEMMA QuietCase ==
    ASSUME OrderInv, QuietAction, ~ \E ok, took \in BOOLEAN : ApplyOp(ok, took)
    PROVE  Arranged'
<1>1. CASE HeartbeatSend
  <2>1. UNCHANGED <<op, live, desired>>
    BY <1>1 DEF HeartbeatSend, dbVars
  <2> QED
    BY <1>1, <2>1, SentVerdicts, QuietOrder DEF OrderInv
<1>2. CASE \E i \in Inst : HeartbeatLost(i)
  <2>1. PICK i \in Inst : HeartbeatLost(i)
    BY <1>2
  <2>2. /\ UNCHANGED <<op, live, desired, page, acks>>
        /\ hb' = [hb EXCEPT ![i] = NoHeartbeat]
    BY <2>1 DEF HeartbeatLost, dbVars
  <2>3. FewerMessages
    BY <2>2, FinishedVerdicts DEF OrderInv
  <2> QED
    BY <2>2, <2>3, QuietOrder
<1>3. CASE Restart
  <2>1. UNCHANGED <<op, live, desired>>
    BY <1>3 DEF Restart, dbVars
  <2> QED
    BY <1>3, <2>1, RestartVerdicts, QuietOrder
<1>4. CASE ~ HeartbeatSend /\ ~ Restart /\ ~ \E i \in Inst : HeartbeatLost(i)
  <2>1. UNCHANGED <<op, live, desired, page, acks, hb>>
    BY <1>4 DEF QuietAction, BeginTxn, RollbackTxn, StoreBundle, SetMaintenance, StartPoll,
       PollRefresh, PollWait, PollClientGone, vars, dbVars
  <2>2. FewerMessages
    BY <2>1, SameVerdicts DEF FewerMessages
  <2> QED
    BY <2>1, <2>2, QuietOrder
<1> QED
  BY <1>1, <1>2, <1>3, <1>4

-----------------------------------------------------------------------------
(* The agent applies an op.                                                *)

\* What ApplyOp does: e is the head of the page.
AppliesHead(e, ok, took) ==
    /\ e \in page /\ IsHead(e) /\ (ok => took)
    /\ page' = page \ {e}
    /\ live' = [k \in Key |-> IF took /\ k = op[e.op].key THEN op[e.op].ver ELSE live[k]]

\* Without overlap, what was applied or reported so carries no more than the head does.
LEMMA HeadIsNewest ==
    ASSUME ~ Overlap, OrderInv, NEW e \in page, NEW p \in Op, SameRRset(op, p, e.op),
           op[p].state = "applied" \/ \E a \in Verdicts : a.ok /\ a.op = p
    PROVE  op[p].ver =< op[e.op].ver
<1>0. e.op \in Op /\ op \in [Op -> OpRow]
  BY DEF OrderInv, IInv, TypeOK, PageEntry
<1>1. /\ e.op \in Op /\ op \in [Op -> OpRow] /\ p \in Int /\ e.op \in Int
      /\ op[p].ver \in Int /\ op[e.op].ver \in Int
  BY <1>0 DEF Op, OpRow
<1>2. ~ p > e.op
  BY <1>1 DEF OrderInv, Arranged, PageFirst, Later
<1>3. CASE p = e.op
  BY <1>1, <1>3
<1>4. CASE e.op > p
  <2>1. SameRRset(op, e.op, p)
    BY DEF SameRRset
  <2>2. QueuedAfter(op, e.op, p)
    BY <1>1, <1>4, <2>1, QueueIsId DEF OrderInv, Arranged
  <2> QED
    BY <1>1, <2>1, <2>2 DEF OrderInv, IInv, Ordered
<1> QED
  BY <1>1, <1>2, <1>3, <1>4

\* The verdict on the head is the only new message.
LEMMA AppliedVerdict ==
    ASSUME IInv, NEW ok \in BOOLEAN, NEW took \in BOOLEAN, ApplyOp(ok, took)
    PROVE  \E e \in page :
              /\ AppliesHead(e, ok, took)
              /\ Verdicts' \subseteq
                    Verdicts \cup {[op |-> e.op, dispatch |-> e.dispatch, ok |-> ok]}
<1>1. PICK e \in page :
        /\ IsHead(e) /\ page' = page \ {e}
        /\ acks' = Append(acks, [op |-> e.op, dispatch |-> e.dispatch, ok |-> ok])
        /\ live' = [k \in Key |-> IF took /\ k = op[e.op].key THEN op[e.op].ver ELSE live[k]]
  BY DEF ApplyOp
<1>2. AppliesHead(e, ok, took)
  BY <1>1 DEF ApplyOp, AppliesHead
<1> DEFINE x == [op |-> e.op, dispatch |-> e.dispatch, ok |-> ok]
<1>3. acks \in Seq(Ack) /\ hb' = hb /\ acks' = Append(acks, x)
  BY <1>1 DEF IInv, TypeOK, ApplyOp
<1>4. x \in Ack
  BY <1>1 DEF IInv, TypeOK, PageEntry, Ack
<1> HIDE DEF x
<1>5. \A n \in DOMAIN acks' : acks'[n] = x \/ (n \in DOMAIN acks /\ acks'[n] = acks[n])
  BY <1>3, <1>4
<1>6. Verdicts' \subseteq Verdicts \cup {x}
  <2> SUFFICES ASSUME NEW a \in Verdicts' PROVE a \in Verdicts \cup {x}
    OBVIOUS
  <2>1. \/ \E n \in DOMAIN acks' : a = acks'[n]
        \/ \E j \in Inst : \E n \in DOMAIN hb'[j].acks : a = hb'[j].acks[n]
    BY DEF Verdicts
  <2>2. \/ a = x
        \/ \E n \in DOMAIN acks : a = acks[n]
        \/ \E j \in Inst : \E n \in DOMAIN hb[j].acks : a = hb[j].acks[n]
    BY <1>3, <1>5, <2>1
  <2> QED
    BY <2>2 DEF Verdicts
<1> QED
  BY <1>2, <1>6 DEF x

\* Applying the head keeps the order: nothing earlier of its RRset is left on the page.
LEMMA ApplyCase ==
    ASSUME ~ Overlap, OrderInv, NEW ok \in BOOLEAN, NEW took \in BOOLEAN, ApplyOp(ok, took)
    PROVE  Arranged'
<1>1. PICK e \in page :
        /\ AppliesHead(e, ok, took)
        /\ Verdicts' \subseteq
              Verdicts \cup {[op |-> e.op, dispatch |-> e.dispatch, ok |-> ok]}
  BY AppliedVerdict DEF OrderInv
<1> DEFINE x == [op |-> e.op, dispatch |-> e.dispatch, ok |-> ok]
<1>2. /\ Verdicts' \subseteq Verdicts \cup {x} /\ x.op = e.op /\ x.dispatch = e.dispatch
      /\ x.ok = ok
  BY <1>1
<1> HIDE DEF x
<1>3. /\ op' = op /\ desired' = desired /\ page' = page \ {e} /\ e \in page
      /\ op \in [Op -> OpRow] /\ live \in [Key -> Nat] /\ desired \in [Key -> Nat]
  BY <1>1 DEF ApplyOp, dbVars, AppliesHead, OrderInv, IInv, TypeOK
<1>3a. page \subseteq PageEntry /\ e.op \in Op /\ \A f \in page : f.op \in Op
  BY <1>3, MessageTypes DEF OrderInv, PageEntry
<1>4. Heard' \subseteq Heard /\ Delivered' \subseteq Delivered
  BY <1>2, <1>3 DEF Heard, Delivered
<1>5. IdOrder(op') /\ Fresh(op', Heard') /\ TableOrder(op', Delivered')
  BY <1>3, <1>4, FewerHeard, FewerDelivered DEF OrderInv, Arranged
<1>6. OneVerdict'
  <2>1. \A a \in Verdicts : ~ (a.op = x.op /\ a.dispatch = x.dispatch)
    BY <1>2, <1>3 DEF OrderInv, Arranged, OneVerdict
  <2>2. \A f \in page' : ~ (f.op = x.op /\ f.dispatch = x.dispatch)
    BY <1>2, <1>3, <1>3a DEF PageEntry
  <2>3. \A a, b \in Verdicts' : a.op = b.op /\ a.dispatch = b.dispatch => a.ok = b.ok
    BY <1>2, <2>1 DEF OrderInv, Arranged, OneVerdict
  <2>4. \A a \in Verdicts', f \in page' : ~ (a.op = f.op /\ a.dispatch = f.dispatch)
    BY <1>2, <1>3, <2>2 DEF OrderInv, Arranged, OneVerdict
  <2> QED
    BY <2>3, <2>4 DEF OneVerdict
<1>7. PageFirst'
  <2> SUFFICES ASSUME NEW f \in page', NEW p \in Op, Later(op, p, f.op)'
               PROVE  /\ op'[p].state # "applied"
                      /\ \A a \in Verdicts' : a.ok => a.op # p
    BY DEF PageFirst
  <2>1. f \in page /\ f # e /\ Later(op, p, f.op)
    BY <1>3 DEF Later, SameRRset
  <2>2. op[p].state # "applied" /\ \A a \in Verdicts : a.ok => a.op # p
    BY <2>1 DEF OrderInv, Arranged, PageFirst
  <2>3. p # e.op
    <3> SUFFICES ASSUME p = e.op PROVE FALSE
      OBVIOUS
    <3>1. QueuedAfter(op, f.op, e.op)
      BY <1>1, <2>1 DEF AppliesHead, IsHead
    <3>2. SameRRset(op, f.op, e.op) /\ e.op > f.op
      BY <2>1 DEF Later, SameRRset
    <3>3. f.op > e.op
      BY <1>3, <1>3a, <2>1, <3>1, <3>2, QueueIsId DEF OrderInv, Arranged
    <3> QED
      BY <1>3a, <2>1, <3>2, <3>3 DEF Op
  <2> QED
    BY <1>2, <1>3, <2>2, <2>3
<1>8. Served'
  <2>1. \A k \in Key : live'[k] = IF took /\ k = op[e.op].key THEN op[e.op].ver ELSE live[k]
    BY <1>1 DEF AppliesHead
  <2>2. op[e.op].key # NoKey => op[e.op].ver =< desired[op[e.op].key]
    BY <1>3a DEF OrderInv, IInv, Ordered
  <2>3. \A k \in Key : live'[k] =< desired'[k]
    BY <1>3, <2>1, <2>2, ConstantsAssumption DEF OrderInv, Arranged, Served
  <2> SUFFICES ASSUME NEW p \in Op, op[p].key # NoKey,
                      op[p].state = "applied" \/ \E a \in Verdicts' : a.ok /\ a.op = p
               PROVE  live'[op[p].key] >= op[p].ver
    BY <1>3, <2>3 DEF Served
  <2>4. op[p].key \in Key /\ op[p].ver \in Nat /\ op[e.op].ver \in Nat
    BY <1>3, <1>3a DEF OpRow, AllKey
  <2>5. CASE took /\ op[p].key = op[e.op].key
    <3>1. live'[op[p].key] = op[e.op].ver
      BY <2>1, <2>4, <2>5
    <3>2. p = e.op \/ op[p].state = "applied" \/ \E a \in Verdicts : a.ok /\ a.op = p
      BY <1>2
    <3>3. SameRRset(op, p, e.op)
      BY <2>5 DEF SameRRset
    <3>4. op[p].ver =< op[e.op].ver
      BY <1>3, <2>4, <3>2, <3>3, HeadIsNewest
    <3> QED
      BY <2>4, <3>1, <3>4
  <2>6. CASE ~ (took /\ op[p].key = op[e.op].key)
    <3>1. live'[op[p].key] = live[op[p].key]
      BY <2>1, <2>4, <2>6
    <3>2. p # e.op \/ ~ ok
      BY <1>1, <2>6 DEF AppliesHead
    <3>3. op[p].state = "applied" \/ \E a \in Verdicts : a.ok /\ a.op = p
      BY <1>2, <3>2
    <3> QED
      BY <3>1, <3>3 DEF OrderInv, Arranged, Served
  <2> QED
    BY <2>5, <2>6
<1> QED
  BY <1>5, <1>6, <1>7, <1>8, ArrangedNext

-----------------------------------------------------------------------------
(* The steps that change the table.                                        *)

\* A commit: the new rows are pending, the last of the queue, and unheard of.
LEMMA EnqueueCase ==
    ASSUME ~ Overlap, OrderInv, NEW t \in Txn, NEW k \in Written, NEW m \in 1 .. MaxTxnOps,
           EnqueueRecordOps(t, k, m)
    PROVE  Arranged'
<1> DEFINE New == {o \in Op : op[o].state = "none" /\ op'[o].state = "pending"}
<1>1. /\ \A o \in Op \ New : op'[o] = op[o]
      /\ \A o \in New : op'[o].state = "pending" /\ op'[o].created = t /\ o > queued
  BY EnqueuedRows DEF OrderInv
<1>2. /\ UNCHANGED <<acks, hb, page, live>> /\ t \in open /\ queued \in Int /\ Op \subseteq Int
      /\ t \in Int /\ op \in [Op -> OpRow] /\ live \in [Key -> Nat] /\ desired \in [Key -> Nat]
      /\ \A j \in Key : desired'[j] = IF j = k THEN desired[j] + m ELSE desired[j]
      /\ m \in Nat
  BY DEF EnqueueRecordOps, OrderInv, IInv, TypeOK, Op, Txn
<1>3. Verdicts' = Verdicts /\ Heard' = Heard /\ Delivered' = Delivered
  BY <1>2, SameVerdicts DEF Heard, Delivered
<1>4. /\ \A o \in New : op[o].state = "none"
      /\ \A o \in Op : op[o].state # "none" => o =< queued /\ o \notin New
      /\ \A h \in Heard : h[1] \in Op \ New /\ op[h[1]].state # "none"
      /\ \A h \in Delivered : h[1] \in Op \ New
      /\ \A o \in Op : op[o].created < t
  <2>1. \A o \in Op : op[o].state # "none" => o =< queued /\ o \notin New
    BY <1>2 DEF OrderInv, IInv, Rows
  <2>2. \A h \in Heard : h[1] \in Op /\ op[h[1]].state # "none"
    BY MessageTypes DEF OrderInv, Arranged, Fresh
  <2>3. \A h \in Heard : h[1] \in Op \ New
    BY <2>1, <2>2
  <2>4. \A h \in Delivered : h[1] \in Op \ New
    BY <2>3, MessageTypes DEF OrderInv
  <2>5. \A o \in Op : op[o].created < t
    BY <1>2 DEF OrderInv, IInv, Ordered
  <2> QED
    BY <2>1, <2>2, <2>3, <2>4, <2>5
<1> HIDE DEF New
<1>4a. New \subseteq Op
  BY DEF New
<1>5. \A o \in Op : op'[o].state = "none" => op[o].state = "none" /\ op'[o] = op[o]
  BY <1>1
<1>6. IdOrder(op')
  <2>1. \A o, p \in Op : o < p /\ op'[p].state # "none" => op'[o].created =< op'[p].created
    <3> SUFFICES ASSUME NEW o \in Op, NEW p \in Op, o < p, op'[p].state # "none"
                 PROVE  op'[o].created =< op'[p].created
      OBVIOUS
    <3>0. op[o].created \in Int
      BY <1>2 DEF OpRow
    <3>1. CASE p \in New
      BY <1>1, <1>2, <1>4, <3>0, <3>1
    <3>2. CASE p \notin New
      <4>1. op[p].state # "none" /\ op'[p] = op[p]
        BY <1>1, <3>2
      <4>1a. p =< queued /\ p \in Int /\ o \in Int /\ queued \in Int
        BY <1>2, <1>4, <4>1
      <4>2. o \notin New
        BY <1>1, <4>1a
      <4> QED
        BY <1>1, <4>1, <4>2 DEF OrderInv, Arranged, IdOrder
    <3> QED
      BY <3>1, <3>2
  <2>2. \A o \in Op : op'[o].state = "none" => op'[o].key = NoKey
    BY <1>5 DEF OrderInv, Arranged, IdOrder
  <2> QED
    BY <2>1, <2>2 DEF IdOrder
<1>7. Fresh(op', Heard')
  BY <1>1, <1>3, <1>4 DEF OrderInv, Arranged, Fresh
\* A later op than one of the old table is old and unchanged, or new.
<1>8. \A o, p \in Op : Later(op', p, o) =>
        \/ p \in New
        \/ p \notin New /\ o \notin New /\ Later(op, p, o)
  <2> SUFFICES ASSUME NEW o \in Op, NEW p \in Op, Later(op', p, o), p \notin New
               PROVE  o \notin New /\ Later(op, p, o)
    OBVIOUS
  <2>1. p > o /\ op'[p].key # NoKey /\ op'[p] = op[p]
    BY <1>1 DEF Later, SameRRset
  <2>2. op[p].state # "none"
    BY <2>1 DEF OrderInv, Arranged, IdOrder
  <2>3. o \notin New
    BY <1>1, <1>2, <1>4, <2>1, <2>2
  <2> QED
    BY <1>1, <2>3 DEF Later, SameRRset
<1>9. TableOrder(op', Delivered')
  <2>1. Waiting(op', Delivered)
    BY <1>1, <1>4, <1>8 DEF OrderInv, Arranged, TableOrder, Waiting
  <2>2. Overtaken(op', Delivered)
    BY <1>1, <1>4, <1>8 DEF OrderInv, Arranged, TableOrder, Overtaken
  <2>3. Charged(op', Delivered)
    BY <1>1, <1>4, <1>8 DEF OrderInv, Arranged, TableOrder, Charged
  <2> QED
    BY <1>3, <2>1, <2>2, <2>3 DEF TableOrder
<1>10. OneVerdict'
  BY <1>2, <1>3 DEF OrderInv, Arranged, OneVerdict
<1>11. \A a \in Verdicts : <<a.op, a.dispatch>> \in Heard
  BY DEF Heard
<1>12. \A a \in Verdicts : a.op \notin New
  BY <1>4, <1>11
<1>13. \A e \in page : e.op \in Op
  BY MessageTypes DEF OrderInv, PageEntry
<1>14. PageFirst'
  <2> SUFFICES ASSUME NEW e \in page, NEW p \in Op, Later(op', p, e.op)
               PROVE  /\ op'[p].state # "applied"
                      /\ \A a \in Verdicts : a.ok => a.op # p
    BY <1>2, <1>3 DEF PageFirst, Later, SameRRset
  <2>1. CASE p \in New
    BY <1>1, <1>12, <2>1
  <2>2. CASE p \notin New
    BY <1>1, <1>8, <1>13, <2>2 DEF OrderInv, Arranged, PageFirst
  <2> QED
    BY <2>1, <2>2
<1>15. Served'
  <2>1. \A j \in Key : live'[j] =< desired'[j]
    BY <1>2 DEF OrderInv, Arranged, Served
  <2> SUFFICES ASSUME NEW p \in Op, op'[p].key # NoKey,
                      op'[p].state = "applied" \/ \E a \in Verdicts : a.ok /\ a.op = p
               PROVE  live[op'[p].key] >= op'[p].ver
    BY <1>2, <1>3, <2>1 DEF Served
  <2>2. p \notin New
    BY <1>1, <1>12
  <2> QED
    BY <1>1, <2>2 DEF OrderInv, Arranged, Served
<1> QED
  BY <1>6, <1>7, <1>9, <1>10, <1>14, <1>15, ArrangedNext

\* The leftover of a replaced process is charged: an earlier op of the RRset that is out
\* went to the same process or to one before it, so it is returned as well.
LEMMA ReturnCase ==
    ASSUME OrderInv, NEW i \in Inst, PollReturn(i)
    PROVE  Arranged'
<1> DEFINE S == DispatchedElsewhere(i)
<1>1. /\ op \in [Op -> OpRow] /\ S \in SUBSET Op /\ \A o \in S : op[o].state = "in_flight"
      /\ inst \in Int /\ Inst \subseteq Int
  BY DEF OrderInv, IInv, TypeOK, DispatchedElsewhere, Inst
<1>2. ChargesRows(op, S, op') /\ Frame(op, op')
  BY ReturnedRows DEF OrderInv
<1>3. UNCHANGED <<acks, hb, page, live, desired>>
  BY DEF PollReturn, dbVars
<1>4. Verdicts' = Verdicts /\ Heard' = Heard /\ Delivered' = Delivered /\ FewerMessages
  BY <1>3, SameVerdicts DEF Heard, Delivered, FewerMessages
<1>5. \A o, p \in Op :
        /\ Later(op, p, o) /\ p \in S /\ op[o].state = "in_flight"
        /\ <<p, op[p].attempts>> \in Delivered
        => o \in S
  <2> SUFFICES ASSUME NEW o \in Op, NEW p \in Op, Later(op, p, o), p \in S,
                      op[o].state = "in_flight", <<p, op[p].attempts>> \in Delivered
               PROVE  o \in S
    OBVIOUS
  <2>1. op[o].to =< op[p].to
    BY <1>1 DEF OrderInv, Arranged, TableOrder, Charged
  <2>2. op[o].to >= 1 /\ op[p].to < i
    BY DEF DispatchedElsewhere, OrderInv, Processes
  <2>3. op[o].to \in Int /\ op[p].to \in Int /\ i \in Int
    BY <1>1 DEF OpRow
  <2> QED
    BY <2>1, <2>2, <2>3 DEF DispatchedElsewhere
<1> HIDE DEF S
<1>6. page \subseteq PageEntry /\ Delivered \subseteq Op \X Nat /\ Heard \subseteq Op \X Nat
  BY MessageTypes DEF OrderInv
<1>7. TableOrder(op', Delivered)
  BY <1>1, <1>2, <1>5, <1>6, ChargeOrder DEF OrderInv, Arranged
<1>8. Fresh(op', Heard)
  BY <1>1, <1>2, <1>6, ChargeFresh DEF OrderInv, Arranged
<1>9. IdOrder(op')
  BY <1>2, IdOrderFrame DEF OrderInv, Arranged
<1>10. \A p \in Op : op'[p].state = "applied" => op[p].state = "applied"
  BY <1>2 DEF ChargesRows
<1>11. OneVerdict' /\ PageFirst' /\ Served'
  BY <1>2, <1>3, <1>4, <1>6, <1>10, MessagesStep DEF OrderInv
<1> QED
  BY <1>4, <1>7, <1>8, <1>9, <1>11, ArrangedNext

\* A heartbeat charges what it has an error for.  Such a dispatch has no ok, so nothing
\* earlier need be charged with it; and an overdue op's predecessors are overdue too.
LEMMA HeartbeatCase ==
    ASSUME OrderInv, NEW i \in Inst, NEW a \in BOOLEAN, Heartbeat(i, a)
    PROVE  Arranged'
<1> DEFINE as == hb[i].acks
           E == ErrorAcked(op, as)
<1>1. PICK u \in [Op -> OpRow], w \in [Op -> OpRow] :
        /\ SettlesRows(op, as, u) /\ Good(op, u)
        /\ ChargesRows(u, E, w) /\ Good(u, w)
        /\ ChargesRows(w, Unacknowledged(w), op') /\ Good(w, op')
  BY HeartbeatTables DEF OrderInv, IInv, TypeOK, Heartbeat
<1>2. /\ UNCHANGED <<page, live, desired>> /\ FewerMessages
      /\ op \in [Op -> OpRow]
  <2>1. /\ page' = page /\ UNCHANGED <<live, desired>> /\ hb' = [hb EXCEPT ![i] = NoHeartbeat]
        /\ acks' = acks \/ acks' = SubSeq(acks, Len(hb[i].acks) + 1, Len(acks))
    BY DEF Heartbeat, dbVars
  <2> QED
    BY <2>1, FinishedVerdicts DEF OrderInv, IInv, TypeOK
<1>3. \A n \in DOMAIN as : as[n] \in Verdicts
  BY DEF Verdicts
<1>4. Delivered \subseteq Op \X Nat /\ Heard \subseteq Op \X Nat /\ page \subseteq PageEntry
  BY MessageTypes DEF OrderInv
<1>5. \A o \in Op : AckedOk(as, o) => \E b \in Verdicts : b.ok /\ b.op = o
  BY <1>3 DEF AckedOk
<1>6. \A o \in Op : AckedOk(as, o) => \E d \in Delivered : d[1] = o
  <2> SUFFICES ASSUME NEW o \in Op, AckedOk(as, o) PROVE \E d \in Delivered : d[1] = o
    OBVIOUS
  <2>1. PICK b \in Verdicts : b.ok /\ b.op = o
    BY <1>5
  <2>2. <<b.op, b.dispatch>> \in Delivered
    BY <2>1 DEF Delivered
  <2> QED
    BY <2>1, <2>2
<1>7. \A o \in E : <<o, op[o].attempts>> \notin Delivered /\ ~ AckedOk(as, o)
                   /\ op[o].state = "in_flight" /\ o \in Op
  <2> SUFFICES ASSUME NEW o \in E, <<o, op[o].attempts>> \in Delivered PROVE FALSE
    BY DEF ErrorAcked
  <2>1. PICK n \in DOMAIN as : as[n].op = o /\ ~ as[n].ok /\ as[n].dispatch = op[o].attempts
    BY DEF ErrorAcked
  <2>2. as[n] \in Verdicts
    BY <1>3
  <2> HIDE DEF as, E
  <2>3. CASE \E e \in page : e.op = o /\ e.dispatch = op[o].attempts
    BY <2>1, <2>2, <2>3 DEF OrderInv, Arranged, OneVerdict
  <2>4. CASE \E b \in Verdicts : b.ok /\ b.op = o /\ b.dispatch = op[o].attempts
    BY <2>1, <2>2, <2>4 DEF OrderInv, Arranged, OneVerdict
  <2> QED
    BY <2>3, <2>4 DEF Delivered
<1> HIDE DEF as, E
<1>8. TableOrder(u, Delivered) /\ Fresh(u, Heard) /\ IdOrder(u) /\ Frame(op, u)
  <2>1. Frame(op, u)
    BY <1>1 DEF Good
  <2>2. IdOrder(u)
    BY <2>1, IdOrderFrame DEF OrderInv, Arranged
  <2>3. TableOrder(u, Delivered)
    BY <1>1, <1>2, <1>4, <1>6, <2>1, SettleOrder DEF OrderInv, Arranged
  <2>4. Fresh(u, Heard)
    BY <1>1, <1>2, <1>4, SettleFresh DEF OrderInv, Arranged
  <2> QED
    BY <2>1, <2>2, <2>3, <2>4
<1>9. TableOrder(w, Delivered) /\ Fresh(w, Heard) /\ IdOrder(w) /\ Frame(u, w)
  <2>1. Frame(u, w)
    BY <1>1 DEF Good
  <2>2. IdOrder(w)
    BY <1>8, <2>1, IdOrderFrame
  <2>3. E \in SUBSET Op /\ \A o \in E : u[o] = op[o]
    BY <1>1, <1>7 DEF SettlesRows
  <2>4. /\ \A o \in E : u[o].state = "in_flight"
        /\ \A o, p \in Op :
              /\ Later(u, p, o) /\ p \in E /\ u[o].state = "in_flight"
              /\ <<p, u[p].attempts>> \in Delivered
              => o \in E
    BY <1>7, <2>3
  <2>5. TableOrder(w, Delivered)
    BY <1>1, <1>4, <1>8, <2>1, <2>3, <2>4, ChargeOrder
  <2>6. Fresh(w, Heard)
    BY <1>1, <1>4, <1>8, <2>3, ChargeFresh
  <2> QED
    BY <2>1, <2>2, <2>5, <2>6
<1>10. TableOrder(op', Delivered) /\ Fresh(op', Heard) /\ IdOrder(op') /\ Frame(w, op')
  <2>1. Frame(w, op')
    BY <1>1 DEF Good
  <2>2. IdOrder(op')
    BY <1>9, <2>1, IdOrderFrame
  <2> DEFINE U == Unacknowledged(w)
  <2>3. U \in SUBSET Op /\ \A o \in U : w[o].state = "in_flight"
    BY DEF Unacknowledged
  <2>4. \A o, p \in Op :
            /\ Later(w, p, o) /\ p \in U /\ w[o].state = "in_flight"
            /\ <<p, w[p].attempts>> \in Delivered
            => o \in U
    BY <1>9 DEF Unacknowledged, TableOrder, Charged
  <2>4a. ChargesRows(w, U, op')
    BY <1>1
  <2> HIDE DEF U
  <2>5. TableOrder(op', Delivered)
    BY <1>4, <1>9, <2>1, <2>3, <2>4, <2>4a, ChargeOrder
  <2>6. Fresh(op', Heard)
    BY <1>4, <1>9, <2>3, <2>4a, ChargeFresh
  <2> QED
    BY <2>1, <2>2, <2>5, <2>6
<1>11. Frame(op, op')
  BY <1>8, <1>9, <1>10 DEF Frame
<1>12. \A p \in Op : op'[p].state = "applied" =>
          op[p].state = "applied" \/ \E b \in Verdicts : b.ok /\ b.op = p
  <2>1. \A p \in Op : op'[p].state = "applied" => w[p].state = "applied"
    BY <1>1 DEF ChargesRows
  <2>2. \A p \in Op : w[p].state = "applied" => u[p].state = "applied"
    BY <1>1 DEF ChargesRows
  <2>3. \A p \in Op : u[p].state = "applied" => op[p].state = "applied" \/ AckedOk(as, p)
    BY <1>1 DEF SettlesRows
  <2> QED
    BY <1>5, <2>1, <2>2, <2>3
<1>13. OneVerdict' /\ PageFirst' /\ Served'
  BY <1>2, <1>4, <1>11, <1>12, MessagesStep DEF OrderInv
<1>14. Fresh(op', Heard') /\ TableOrder(op', Delivered')
  BY <1>2, <1>10, FewerKnown, FewerHeard, FewerDelivered
<1> QED
  BY <1>10, <1>13, <1>14, ArrangedNext

\* The timers: no state, attempt or addressee changes, and all that is in flight is
\* overdue at once.
LEMMA TimerCase ==
    ASSUME OrderInv, (\E p \in Op : BackoffElapses(p)) \/ AckTimeout
    PROVE  Arranged'
<1>1. \A o \in Op :
        /\ op'[o].key = op[o].key /\ op'[o].created = op[o].created
        /\ op'[o].ver = op[o].ver /\ op'[o].state = op[o].state
        /\ op'[o].attempts = op[o].attempts /\ op'[o].to = op[o].to
  BY TimerRows DEF OrderInv
<1>2. \/ \A o \in Op : op'[o].overdue = op[o].overdue
      \/ \A o \in Op : op[o].state = "in_flight" => op'[o].overdue
  <2>0. op \in [Op -> OpRow]
    BY DEF OrderInv, IInv, TypeOK
  <2>1. CASE \E p \in Op : BackoffElapses(p)
    <3>1. PICK p \in Op : op' = [op EXCEPT ![p].backoff = FALSE]
      BY <2>1 DEF BackoffElapses
    <3>2. \A o \in Op : op'[o] = IF o = p THEN [op[o] EXCEPT !.backoff = FALSE] ELSE op[o]
      BY <2>0, <3>1
    <3> QED
      BY <2>0, <3>2 DEF OpRow
  <2>2. CASE AckTimeout
    <3>1. \A o \in Op : op'[o] = IF op[o].state = "in_flight"
                                 THEN [op[o] EXCEPT !.overdue = TRUE] ELSE op[o]
      BY <2>2 DEF AckTimeout
    <3> QED
      BY <2>0, <3>1 DEF OpRow
  <2> QED
    BY <2>1, <2>2
<1>3. UNCHANGED <<acks, hb, page, live, desired>>
  BY DEF BackoffElapses, AckTimeout, dbVars
<1>4. Verdicts' = Verdicts /\ Heard' = Heard /\ Delivered' = Delivered /\ FewerMessages
  BY <1>3, SameVerdicts DEF Heard, Delivered, FewerMessages
<1>5. Frame(op, op')
  BY <1>1 DEF Frame
<1>6. page \subseteq PageEntry /\ Delivered \subseteq Op \X Nat /\ Heard \subseteq Op \X Nat
  BY MessageTypes DEF OrderInv
<1>7. OneVerdict' /\ PageFirst' /\ Served'
  BY <1>1, <1>3, <1>4, <1>5, <1>6, MessagesStep DEF OrderInv
<1>8. IdOrder(op')
  BY <1>5, IdOrderFrame DEF OrderInv, Arranged
<1>9. Fresh(op', Heard)
  BY <1>1, <1>6 DEF OrderInv, Arranged, Fresh
<1>10. \A o, p \in Op : Later(op', p, o) <=> Later(op, p, o)
  BY <1>5, LaterFrame
<1>11. TableOrder(op', Delivered)
  <2>1. Waiting(op', Delivered)
    BY <1>1, <1>10 DEF OrderInv, Arranged, TableOrder, Waiting
  <2>2. Overtaken(op', Delivered)
    BY <1>1, <1>10 DEF OrderInv, Arranged, TableOrder, Overtaken
  <2>3. Charged(op', Delivered)
    BY <1>1, <1>2, <1>10 DEF OrderInv, Arranged, TableOrder, Charged
  <2> QED
    BY <2>1, <2>2, <2>3 DEF TableOrder
<1> QED
  BY <1>4, <1>7, <1>8, <1>9, <1>11, ArrangedNext

\* A page passes nothing over: what stays pending has no later op of its RRset on it.  A
\* due op would have come first, one that waits out its backoff is superseded.
LEMMA PagePassesNothing ==
    ASSUME OrderInv, NEW i \in Inst, NEW S \in SUBSET Due(i), IsPage(S, Due(i)),
           NEW o \in Op, NEW p \in S, o \notin S, op[o].state = "pending",
           Later(op, p, o)
    PROVE  o \in BackedOff(S)
<1>1. /\ op \in [Op -> OpRow] /\ IdOrder(op) /\ S \subseteq Op /\ Op \subseteq Int
      /\ p \in Op /\ p > o /\ SameRRset(op, p, o) /\ polls[i].upTo \in Int
      /\ op[o].backoff \in BOOLEAN
  <2>1. op \in [Op -> OpRow] /\ polls[i] \in PollState
    BY DEF OrderInv, IInv, TypeOK
  <2>2. S \subseteq Op
    BY DEF Due
  <2>3. polls[i].upTo \in Int /\ op[o].backoff \in BOOLEAN
    BY <2>1 DEF PollState, OpRow
  <2> QED
    BY <2>1, <2>2, <2>3 DEF OrderInv, Arranged, Later, Op
<1>2. CASE op[o].backoff
  <2> DEFINE R == {q \in S : SameRRset(op, q, o)}
             n == Newest(op, R)
  <2>1. p \in R /\ R \in SUBSET Op
    BY <1>1
  <2>2. n \in R /\ (p = n \/ QueuedAfter(op, n, p))
    <3> HIDE DEF R
    <3> QED
      BY <1>1, <2>1, NewestExists
  <2> HIDE DEF n
  <2>3. n \in Op /\ SameRRset(op, n, o) /\ SameRRset(op, n, p)
    BY <1>1, <2>2 DEF SameRRset
  <2>4. n > o
    <3>1. n = p \/ n > p
      BY <1>1, <2>2, <2>3, QueueIsId
    <3>2. n \in Int /\ p \in Int /\ o \in Int
      BY <1>1, <2>3
    <3> QED
      BY <1>1, <3>1, <3>2
  <2>5. QueuedAfter(op, n, o)
    BY <1>1, <2>3, <2>4, QueueIsId
  <2>6. n = PageNewest(S, o)
    BY DEF n, PageNewest
  <2> QED
    BY <1>1, <1>2, <2>5, <2>6 DEF BackedOff
<1>3. CASE ~ op[o].backoff
  <2>1. p \in Due(i)
    OBVIOUS
  <2>2. ~ polls[i].paused /\ p =< polls[i].upTo
    BY <2>1 DEF Due
  <2>3. o =< polls[i].upTo
    <3>1. o \in Int /\ p \in Int
      BY <1>1
    <3> QED
      BY <1>1, <2>2, <3>1
  <2>4. o \in Due(i) \ S
    BY <1>3, <2>2, <2>3 DEF Due
  <2>5. QueuedAfter(op, o, p)
    BY <2>4 DEF IsPage
  <2>6. SameRRset(op, o, p)
    BY <1>1 DEF SameRRset
  <2>7. o > p
    BY <1>1, <2>5, <2>6, QueueIsId
  <2>8. o \in Int /\ p \in Int
    BY <1>1
  <2> QED
    BY <1>1, <2>7, <2>8
<1> QED
  BY <1>1, <1>2, <1>3

\* Shipping a page keeps the order on the table.  D is what was delivered before, E the
\* dispatches of the page if it reaches the agent.
LEMMA ShipOrder ==
    ASSUME OrderInv, NEW i \in Inst, NEW S \in SUBSET Due(i), IsPage(S, Due(i)),
           op' = Shipped(S, i), Frame(op, op'), NEW E,
           E = {} \/ (i = inst /\ E = {<<o, op[o].attempts>> : o \in S})
    PROVE  TableOrder(op', Delivered \cup E)
<1>1. \A o \in Op :
        /\ o \in S => /\ op'[o].state = "in_flight" /\ ~ op'[o].overdue
                      /\ op'[o].to = i /\ op'[o].attempts = op[o].attempts
                      /\ op[o].state = "pending"
        /\ o \notin S /\ o \in BackedOff(S) =>
              /\ op'[o].state = "superseded" /\ op[o].state = "pending"
              /\ op'[o].to = op[o].to /\ op'[o].attempts = op[o].attempts
        /\ o \notin S /\ o \notin BackedOff(S) => op'[o] = op[o]
  BY ShippedRows DEF OrderInv
<1>2. \A o, p \in Op : Later(op', p, o) <=> Later(op, p, o)
  BY LaterFrame
<1>3. /\ S \subseteq Op /\ op \in [Op -> OpRow] /\ inst \in Int /\ Inst \subseteq Int
      /\ Delivered \subseteq Heard /\ Delivered \subseteq Op \X Nat
  BY MessageTypes DEF Due, OrderInv, IInv, TypeOK, Inst
<1>4. \A d \in E : d[1] \in S /\ d[2] = op[d[1]].attempts
  OBVIOUS
<1>5. \A o \in S : <<o, op[o].attempts>> \notin Delivered
  <2> SUFFICES ASSUME NEW o \in S, <<o, op[o].attempts>> \in Delivered PROVE FALSE
    OBVIOUS
  <2>1. op[o].state = "pending" /\ op[o].attempts \in Int
    BY <1>1, <1>3 DEF OpRow
  <2>2. <<o, op[o].attempts>> \in Heard
    BY <1>3
  <2>3. op[o].attempts < op[o].attempts
    BY <2>1, <2>2 DEF OrderInv, Arranged, Fresh
  <2> QED
    BY <2>1, <2>3
<1>6. \A o \in S, p \in Op : Later(op, p, o) =>
        /\ op[p].state \notin {"in_flight", "applied"}
        /\ \A d \in Delivered : d[1] # p
  BY <1>1, <1>3 DEF OrderInv, Arranged, TableOrder, Waiting
<1>7. Waiting(op', Delivered \cup E)
  <2> SUFFICES ASSUME NEW o \in Op, NEW p \in Op, Later(op, p, o), op'[o].state = "pending"
               PROVE  /\ op'[p].state \notin {"in_flight", "applied"}
                      /\ \A d \in Delivered \cup E : d[1] # p
    BY <1>2 DEF Waiting
  <2>1. o \notin S /\ o \notin BackedOff(S) /\ op[o].state = "pending"
    BY <1>1
  <2>2. p \notin S
    BY <2>1, PagePassesNothing
  <2>3. /\ op[p].state \notin {"in_flight", "applied"}
        /\ \A d \in Delivered : d[1] # p
    BY <2>1 DEF OrderInv, Arranged, TableOrder, Waiting
  <2>4. op'[p].state \notin {"in_flight", "applied"}
    BY <1>1, <2>2, <2>3
  <2> QED
    BY <1>4, <2>2, <2>3, <2>4
<1>8. Overtaken(op', Delivered \cup E)
  <2> SUFFICES ASSUME NEW o \in Op, NEW p \in Op, Later(op, p, o), op'[o].state = "in_flight",
                      NEW d \in Delivered \cup E, d[1] = p
               PROVE  \/ op'[p].state = "applied"
                      \/ op'[p].state = "in_flight" /\ d[2] = op'[p].attempts
    BY <1>2 DEF Overtaken
  <2>1. CASE d \in E
    BY <1>1, <1>4, <2>1
  <2>2. CASE d \in Delivered
    <3>1. o \notin S
      BY <1>6, <2>2
    <3>2. op[o].state = "in_flight"
      BY <1>1, <3>1
    <3>3. \/ op[p].state = "applied"
          \/ op[p].state = "in_flight" /\ d[2] = op[p].attempts
      BY <2>2, <3>2 DEF OrderInv, Arranged, TableOrder, Overtaken
    <3> QED
      BY <1>1, <3>3
  <2> QED
    BY <2>1, <2>2
<1>9. Charged(op', Delivered \cup E)
  <2> SUFFICES ASSUME NEW o \in Op, NEW p \in Op, Later(op, p, o),
                      op'[o].state = "in_flight", op'[p].state = "in_flight"
               PROVE  /\ op'[p].overdue => op'[o].overdue
                      /\ <<p, op'[p].attempts>> \in Delivered \cup E => op'[o].to =< op'[p].to
    BY <1>2 DEF Charged
  <2>1. CASE o \in S
    <3>1. p \in S
      BY <1>1, <1>6, <2>1
    <3> QED
      BY <1>1, <1>3, <2>1, <3>1
  <2>2. CASE o \notin S /\ p \in S
    <3>1. op'[o] = op[o] /\ op[o].to =< inst
      BY <1>1, <2>2 DEF OrderInv, Processes
    <3>2. <<p, op'[p].attempts>> \in E => i = inst
      OBVIOUS
    <3> QED
      BY <1>1, <1>5, <2>2, <3>1, <3>2
  <2>3. CASE o \notin S /\ p \notin S
    <3>1. op'[o] = op[o] /\ op'[p] = op[p]
      BY <1>1, <2>3
    <3>2. <<p, op[p].attempts>> \notin E
      BY <1>4, <2>3
    <3> QED
      BY <3>1, <3>2 DEF OrderInv, Arranged, TableOrder, Charged
  <2> QED
    BY <2>1, <2>2, <2>3
<1> QED
  BY <1>7, <1>8, <1>9 DEF TableOrder

LEMMA PageCase ==
    ASSUME OrderInv, NEW i \in Inst, NEW d \in BOOLEAN, PollPage(i, d)
    PROVE  Arranged'
<1>1. PICK S \in SUBSET Due(i) :
        /\ IsPage(S, Due(i)) /\ op' = Shipped(S, i)
        /\ page' = IF d THEN PageOf(S) ELSE page
  BY DEF PollPage
<1>2. UNCHANGED <<acks, hb, live, desired>> /\ (d => i = inst)
  BY DEF PollPage, dbVars
<1>3. Frame(op, op')
  BY <1>1, ShippedGood DEF OrderInv, IInv, TypeOK
<1>4. Verdicts' = Verdicts
  BY <1>2, SameVerdicts
<1>5. S \subseteq Op /\ op \in [Op -> OpRow] /\ page \subseteq PageEntry
      /\ Heard \subseteq Op \X Nat /\ Delivered \subseteq Heard /\ Verdicts \subseteq Ack
  BY MessageTypes DEF Due, OrderInv, IInv, TypeOK
<1>6. \A o \in Op :
        /\ o \in S => /\ op'[o].state = "in_flight" /\ op'[o].attempts = op[o].attempts
                      /\ op[o].state = "pending"
        /\ o \notin S => /\ op'[o].attempts = op[o].attempts
                         /\ op'[o] = op[o] \/ op'[o].state = "superseded"
  BY <1>1, ShippedRows DEF OrderInv
<1> DEFINE E == IF d THEN {<<o, op[o].attempts>> : o \in S} ELSE {}
<1>7. Delivered' \subseteq Delivered \cup E /\ Heard' \subseteq Heard \cup E
  BY <1>1, <1>4 DEF Delivered, Heard, PageOf
<1>8. \A h \in E : h[1] \in S /\ h[2] = op[h[1]].attempts
  OBVIOUS
<1>9. TableOrder(op', Delivered')
  <2>1. E = {} \/ (i = inst /\ E = {<<o, op[o].attempts>> : o \in S})
    BY <1>2
  <2> HIDE DEF E
  <2>2. TableOrder(op', Delivered \cup E)
    BY <1>1, <1>3, <2>1, ShipOrder
  <2> QED
    BY <1>7, <2>2, FewerDelivered
<1> HIDE DEF E
<1>10. Fresh(op', Heard')
  <2>1. Fresh(op', Heard \cup E)
    <3> SUFFICES ASSUME NEW h \in Heard \cup E
                 PROVE  /\ op'[h[1]].state # "none" /\ h[2] =< op'[h[1]].attempts
                        /\ op'[h[1]].state = "pending" => h[2] < op'[h[1]].attempts
      BY DEF Fresh
    <3>1. CASE h \in E
      <4>1. h[1] \in S /\ h[2] = op[h[1]].attempts /\ op[h[1]].attempts \in Int
        BY <1>5, <1>8, <3>1 DEF OpRow
      <4> QED
        BY <1>5, <1>6, <4>1
    <3>2. CASE h \in Heard
      <4>1. /\ op[h[1]].state # "none" /\ h[2] =< op[h[1]].attempts /\ h[1] \in Op
            /\ op[h[1]].state = "pending" => h[2] < op[h[1]].attempts
        BY <1>5, <3>2 DEF OrderInv, Arranged, Fresh
      <4> QED
        BY <1>6, <4>1
    <3> QED
      BY <3>1, <3>2
  <2> QED
    BY <1>7, <2>1, FewerHeard
<1>11. IdOrder(op')
  BY <1>3, IdOrderFrame DEF OrderInv, Arranged
\* The entries of the new page are pending ops, and no verdict on them exists.
<1>12. \A e \in page' :
         \/ e \in page
         \/ e.op \in S /\ \A a \in Verdicts : ~ (a.op = e.op /\ a.dispatch = e.dispatch)
  <2> SUFFICES ASSUME NEW e \in page', e \notin page
               PROVE  e.op \in S /\ \A a \in Verdicts : ~ (a.op = e.op /\ a.dispatch = e.dispatch)
    OBVIOUS
  <2>1. e.op \in S /\ e.dispatch = op[e.op].attempts
    BY <1>1 DEF PageOf
  <2>2. op[e.op].state = "pending" /\ op[e.op].attempts \in Int
    BY <1>5, <1>6, <2>1 DEF OpRow
  <2>3. \A a \in Verdicts : <<a.op, a.dispatch>> \in Heard
    BY DEF Heard
  <2>4. \A a \in Verdicts : a.op = e.op => a.dispatch < op[e.op].attempts
    BY <2>2, <2>3 DEF OrderInv, Arranged, Fresh
  <2>5. \A a \in Verdicts : ~ (a.op = e.op /\ a.dispatch = e.dispatch)
    BY <2>1, <2>2, <2>4
  <2> QED
    BY <2>1, <2>5
<1>13. OneVerdict'
  BY <1>4, <1>12 DEF OrderInv, Arranged, OneVerdict
<1>14. \A p \in Op : op'[p].state = "applied" => op[p].state = "applied"
  BY <1>6
<1>15. PageFirst'
  <2> SUFFICES ASSUME NEW e \in page', NEW p \in Op, Later(op, p, e.op)'
               PROVE  /\ op'[p].state # "applied"
                      /\ \A a \in Verdicts : a.ok => a.op # p
    BY <1>4 DEF PageFirst
  <2>1. e.op \in Op
    BY <1>5, <1>12 DEF PageEntry
  <2>2. Later(op, p, e.op)
    BY <1>3, <2>1 DEF Later, SameRRset, Frame
  <2>3. CASE e \in page
    BY <1>14, <2>2, <2>3 DEF OrderInv, Arranged, PageFirst
  <2>4. CASE e.op \in S
    <3>1. op[e.op].state = "pending"
      BY <1>5, <1>6, <2>4
    <3>2. op[p].state # "applied" /\ \A f \in Delivered : f[1] # p
      BY <2>1, <2>2, <3>1 DEF OrderInv, Arranged, TableOrder, Waiting
    <3>3. \A a \in Verdicts : a.ok => <<a.op, a.dispatch>> \in Delivered
      BY DEF Delivered
    <3> QED
      BY <1>14, <3>2, <3>3
  <2> QED
    BY <1>12, <2>3, <2>4
<1>16. Served'
  <2>1. \A k \in Key : live'[k] =< desired'[k]
    BY <1>2 DEF OrderInv, Arranged, Served
  <2> SUFFICES ASSUME NEW p \in Op, op'[p].key # NoKey,
                      op'[p].state = "applied" \/ \E a \in Verdicts : a.ok /\ a.op = p
               PROVE  live[op'[p].key] >= op'[p].ver
    BY <1>2, <1>4, <2>1 DEF Served
  <2>2. op'[p].key = op[p].key /\ op'[p].ver = op[p].ver
    BY <1>3 DEF Frame
  <2> QED
    BY <1>14, <2>2 DEF OrderInv, Arranged, Served
<1> QED
  BY <1>9, <1>10, <1>11, <1>13, <1>15, <1>16, ArrangedNext

-----------------------------------------------------------------------------
(* The daemon never goes back.                                             *)

LEMMA OrderInit == Init => OrderInv
<1> SUFFICES ASSUME Init PROVE OrderInv
  OBVIOUS
<1>1. /\ \A o \in Op : op[o] = NoRow
      /\ page = {} /\ acks = <<>> /\ \A i \in Inst : hb[i] = NoHeartbeat
      /\ live = [k \in Key |-> 0] /\ desired = [k \in Key |-> 0]
  BY DEF Init
<1>2. \A o \in Op : op[o].state = "none" /\ op[o].key = NoKey /\ op[o].created = 0
  BY <1>1 DEF NoRow
<1>3. Verdicts = {}
  BY <1>1 DEF Verdicts, NoHeartbeat
<1>4. Delivered = {} /\ Heard = {}
  BY <1>1, <1>3 DEF Delivered, Heard
<1>5. IdOrder(op) /\ OneVerdict /\ Fresh(op, Heard) /\ PageFirst /\ Served
  BY <1>1, <1>2, <1>3, <1>4 DEF IdOrder, OneVerdict, Fresh, PageFirst, Served
<1>6. TableOrder(op, Delivered)
  BY <1>2 DEF TableOrder, Waiting, Overtaken, Charged
<1> QED
  BY <1>5, <1>6, IInvInit, ProcessesInit DEF OrderInv, Arranged

LEMMA OrderNext ==
    ASSUME ~ Overlap, OrderInv, [Next]_vars PROVE OrderInv'
<1>1. IInv' /\ Processes'
  BY IInvNext, ProcessesNext DEF OrderInv
<1>2. Arranged'
  <2>1. CASE QuietAction
    BY <2>1, QuietCase, ApplyCase
  <2>2. CASE \E t \in Txn, k \in Written, m \in 1 .. MaxTxnOps : EnqueueRecordOps(t, k, m)
    BY <2>2, EnqueueCase
  <2>3. CASE \E i \in Inst : PollReturn(i)
    BY <2>3, ReturnCase
  <2>4. CASE \E i \in Inst, d \in BOOLEAN : PollPage(i, d)
    BY <2>4, PageCase
  <2>5. CASE \E i \in Inst, a \in BOOLEAN : Heartbeat(i, a)
    BY <2>5, HeartbeatCase
  <2>6. CASE (\E o \in Op : BackoffElapses(o)) \/ AckTimeout
    BY <2>6, TimerCase
  <2> QED
    BY <2>1, <2>2, <2>3, <2>4, <2>5, <2>6, StepCases
<1> QED
  BY <1>1, <1>2 DEF OrderInv

\* The inductive invariant of the order in which an RRset's ops reach the daemon.
THEOREM OrderInvariance == ASSUME ~ Overlap PROVE Spec => []OrderInv
BY OrderInit, OrderNext, PTL DEF Spec

\* When an RRset is at rest and its newest op was applied, the daemon serves it, whatever
\* was retried, reported late or left by a replaced process (ack, page, fail_attempts).
THEOREM NewestAlwaysWins == ASSUME ~ Overlap PROVE Spec => []NewestWins
<1>1. OrderInv => NewestWins
  <2> SUFFICES ASSUME OrderInv, NEW k \in Key, NEW o \in OpsOf(k),
                      op[o].state = "applied", op[o].ver = desired[k]
               PROVE  live[k] = desired[k]
    BY DEF NewestWins
  <2>1. o \in Op /\ op[o].key = k /\ k # NoKey
    BY ConstantsAssumption DEF OpsOf
  <2>2. live[k] \in Int /\ desired[k] \in Int
    BY DEF OrderInv, IInv, TypeOK
  <2>3. live[k] >= desired[k] /\ live[k] =< desired[k]
    BY <2>1 DEF OrderInv, Arranged, Served
  <2> QED
    BY <2>2, <2>3
<1> QED
  BY <1>1, OrderInvariance, PTL

\* The body of NoRollback.
KeepsApplied ==
    \A k \in Key :
        live'[k] < live[k] =>
            \A o \in OpsOf(k) : op[o].state = "applied" => op[o].ver =< live'[k]

LEMMA OnlyApplyServes ==
    ASSUME [Next]_vars, ~ \E ok, took \in BOOLEAN : ApplyOp(ok, took) PROVE live' = live
BY DEF Next, BeginTxn, RollbackTxn, StoreBundle, SetMaintenance, StartPoll, PollRefresh,
       PollWait, PollClientGone, Restart, HeartbeatSend, HeartbeatLost, vars, EnqueueRecordOps,
       PollReturn, PollPage, Heartbeat, BackoffElapses, AckTimeout

\* The daemon is put back to an older RRset only when nothing newer of it was recorded as
\* applied: the page is applied oldest first and a passed-over op is superseded.
THEOREM NeverRollsBack == ASSUME ~ Overlap PROVE Spec => NoRollback
<1>1. OrderInv /\ [Next]_vars => [KeepsApplied]_vars
  <2> SUFFICES ASSUME OrderInv, [Next]_vars, NEW k \in Key, live'[k] < live[k],
                      NEW o \in OpsOf(k), op[o].state = "applied"
               PROVE  op[o].ver =< live'[k]
    BY DEF KeepsApplied
  <2>1. live[k] \in Int
    BY DEF OrderInv, IInv, TypeOK
  <2>2. PICK ok \in BOOLEAN, took \in BOOLEAN : ApplyOp(ok, took)
    BY <2>1, OnlyApplyServes
  <2>3. PICK e \in page : AppliesHead(e, ok, took)
    BY <2>2, AppliedVerdict DEF OrderInv
  <2>4. live'[k] = IF took /\ k = op[e.op].key THEN op[e.op].ver ELSE live[k]
    BY <2>3 DEF AppliesHead
  <2>5. k = op[e.op].key /\ live'[k] = op[e.op].ver
    BY <2>1, <2>4
  <2>6. o \in Op /\ SameRRset(op, o, e.op)
    BY <2>5, ConstantsAssumption DEF OpsOf, SameRRset
  <2> QED
    BY <2>5, <2>6, HeadIsNewest
<1> QED
  BY <1>1, OrderInvariance, PTL DEF Spec, NoRollback, KeepsApplied
=============================================================================
