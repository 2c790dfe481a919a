---------------------------- MODULE DNSRecordOps ----------------------------
(***************************************************************************)
(* The queue of record operations of ONE agent-based DNS server: how a     *)
(* committed record change becomes a dns_record_op row, is paged into a    *)
(* long-poll answer, applied by the agent, acknowledged on a heartbeat,    *)
(* and retried, superseded or given up on when that goes wrong.            *)
(*                                                                         *)
(* Control plane: services/dns/record_ops.py, services/dns/agent_config.py *)
(* (the page) and api/v1/dns/agents.py (the poll and the heartbeat).       *)
(* Agent: spatium_dns_agent/sync.py (apply) and heartbeat.py (the acks).   *)
(*                                                                         *)
(* Data abstraction.  An op carries the whole desired RRset.  The writers  *)
(* of a zone are serialised by the zone row lock they hold until commit,   *)
(* so the RRsets they stamp for one (name, type) form a chain: `ver' is    *)
(* the position in it, and a set with a larger version contains every      *)
(* change of a smaller one.  Wall-clock time appears only as the two       *)
(* facts the code derives from it: a backoff that has not run out, and an  *)
(* in_flight op older than IN_FLIGHT_ACK_TIMEOUT.                          *)
(*                                                                         *)
(* The server's driver is BIND9 or PowerDNS: the re-assert of PTR records  *)
(* after a retried delete (PTR_CLEANUP_DRIVERS, Technitium) is left out.   *)
(***************************************************************************)
EXTENDS Integers, FiniteSets, Sequences

CONSTANTS
    Key,             \* (zone, name, type) of the RRsets that are written
    NoKey,           \* the key of an op without a whole RRset (DNSSEC ops)
    MaxOps,          \* bound: record ops ever queued
    MaxTxns,         \* bound: record-writing transactions ever begun
    MaxTxnOps,       \* bound: ops one transaction queues
    MaxInst,         \* bound: agent processes, numbered in start order
    MaxLoad,         \* bound: ops queued plus agent processes started
    MAX_OP_ATTEMPTS, \* the retry budget
    OpsBatch,        \* settings.dns_agent_ops_batch
    AcksBatch,       \* MAX_ACKS_PER_HEARTBEAT of the agent
    Written,         \* the keys (NoKey among them or not) the writers queue
    Pausable,        \* bound: the processes under which maintenance is switched on
    Overlap          \* may two record-writing transactions be open at once?

ASSUME ConstantsAssumption ==
    /\ NoKey \notin Key
    /\ MaxOps \in Nat \ {0}
    /\ MaxTxns \in Nat \ {0}
    /\ MaxTxnOps \in Nat \ {0}
    /\ MaxInst \in Nat \ {0}
    /\ MaxLoad \in Nat
    /\ MAX_OP_ATTEMPTS \in Nat \ {0}
    /\ OpsBatch \in Nat \ {0}
    /\ AcksBatch \in Nat \ {0}
    /\ Written \subseteq Key \cup {NoKey}
    /\ Pausable \subseteq Nat
    /\ Overlap \in BOOLEAN

Op == 1 .. MaxOps
Txn == 1 .. MaxTxns
Inst == 1 .. MaxInst

QUEUED_OP_STATES == {"pending", "in_flight"}
TerminalStates == {"applied", "failed", "superseded"}
OpStates == QUEUED_OP_STATES \cup TerminalStates \cup {"none"}
\* Where a poll handler stands, and what its pass read of the server row and
\* the stored bundle at its refresh: both may be stale when the page is cut.
PollState == [phase : {"idle", "held", "checked", "returned"},
              paused : BOOLEAN, upTo : 0 .. MaxOps]
Poll(phase) == [phase |-> phase, paused |-> FALSE, upTo |-> 0]

VARIABLES
    begun,       \* transactions begun so far; its value at BEGIN is created_at
    open,        \* the transactions that have begun and not ended
    desired,     \* version of each RRset in the database (committed)
    queued,      \* ops committed so far; op ids are the values of `seq'
    op,          \* the dns_record_op table
    covered,     \* ops 1..covered are visible in the stored bundle's snapshot
    maintenance, \* server.maintenance_mode
    owner,       \* server.agent_instance, 0 = none yet
    polls,       \* where the long-poll handler of each process stands
    inst,        \* the agent process now running; smaller ones are dead
    page,        \* ops of the poll answer the agent has not applied yet
    acks,        \* heartbeat.pending_acks of the running process
    hb,          \* the heartbeat request of each process that is under way
    live,        \* the version of each RRset the DNS daemon serves
    ships        \* history: how often each op was put in a committed page

dbVars == <<begun, open, desired, queued, covered, maintenance>>
vars == <<begun, open, desired, queued, op, covered, maintenance, owner,
          polls, inst, page, acks, hb, live, ships>>

AllKey == Key \cup {NoKey}

\* A row of dns_record_op.  `backoff' is "next_attempt_at is in the future",
\* `overdue' is "updated_at is older than IN_FLIGHT_ACK_TIMEOUT".
OpRow == [key : AllKey, created : 0 .. MaxTxns, ver : Nat, state : OpStates,
          attempts : 0 .. MAX_OP_ATTEMPTS, backoff : BOOLEAN, overdue : BOOLEAN,
          by : 0 .. MaxOps, to : 0 .. MaxInst]

PageEntry == [op : Op, dispatch : Nat]
Ack == [op : Op, dispatch : Nat, ok : BOOLEAN]
NoRow == [key |-> NoKey, created |-> 0, ver |-> 0, state |-> "none",
          attempts |-> 0, backoff |-> FALSE, overdue |-> FALSE,
          by |-> 0, to |-> 0]
NoHeartbeat == [out |-> FALSE, acks |-> <<>>]

\* Every variable keeps its type; no row's attempts leave 0..MAX_OP_ATTEMPTS
\* (OpRow; fail_attempts, return_ops_dispatched_elsewhere).
TypeOK ==
    /\ begun \in 0 .. MaxTxns
    /\ open \in SUBSET Txn
    /\ desired \in [Key -> Nat]
    /\ queued \in 0 .. MaxOps
    /\ op \in [Op -> OpRow]
    /\ covered \in 0 .. MaxOps
    /\ maintenance \in BOOLEAN
    /\ owner \in 0 .. MaxInst
    /\ polls \in [Inst -> PollState]
    /\ inst \in Inst
    /\ page \in SUBSET PageEntry
    /\ acks \in Seq(Ack)
    /\ hb \in [Inst -> [out : BOOLEAN, acks : Seq(Ack)]]
    /\ live \in [Key -> Nat]
    /\ ships \in [Op -> Nat]

Init ==
    /\ begun = 0
    /\ open = {}
    /\ desired = [k \in Key |-> 0]
    /\ queued = 0
    /\ op = [o \in Op |-> NoRow]
    /\ covered = 0
    /\ maintenance = FALSE
    /\ owner = 0
    /\ polls = [i \in Inst |-> Poll("idle")]
    /\ inst = 1
    /\ page = {}
    /\ acks = <<>>
    /\ hb = [i \in Inst |-> NoHeartbeat]
    /\ live = [k \in Key |-> 0]
    /\ ships = [o \in Op |-> 0]

-----------------------------------------------------------------------------
(* The queue order and the successor lookup, over a table `t' of op rows.  *)

\* Mutant of QueuedAfter: the queue order without the seq tie-break.
QueuedAfterByTimeOnly(t, p, o) == t[p].created >= t[o].created

\* Row p of table t was queued after row o: by transaction start, then seq.
QueuedAfter(t, p, o) ==
    \/ t[p].created > t[o].created
    \/ t[p].created = t[o].created /\ p > o

SameRRset(t, p, o) == t[p].key = t[o].key /\ t[o].key # NoKey

\* Mutant of SuccessorStates: an applied op no longer counts as a successor.
SuccessorStatesQueuedOnly == QUEUED_OP_STATES

SuccessorStates == {"pending", "in_flight", "applied"}

\* Mutant of Successors: the strict order is dropped.
SuccessorsAnyOrder(t, o) ==
    {p \in Op : t[p].state \in SuccessorStates /\ SameRRset(t, p, o)}

\* The rows that already deliver row o's change, as the code sees it.
Successors(t, o) ==
    {p \in Op : /\ t[p].state \in SuccessorStates
                /\ SameRRset(t, p, o)
                /\ QueuedAfter(t, p, o)}

Newest(t, S) == CHOOSE p \in S : \A q \in S : q = p \/ QueuedAfter(t, p, q)

Superseded(row, p) ==
    [row EXCEPT !.state = "superseded", !.by = p, !.backoff = FALSE,
                !.overdue = FALSE]

\* Mutant of FailAttempt: one attempt more than the budget.
FailAttemptOneMore(t, o) ==
    LET charged == [t[o] EXCEPT !.attempts = @ + 1, !.overdue = FALSE]
    IN  IF Successors(t, o) # {}
        THEN Superseded(charged, Newest(t, Successors(t, o)))
        ELSE IF charged.attempts > MAX_OP_ATTEMPTS
        THEN [charged EXCEPT !.state = "failed", !.backoff = FALSE]
        ELSE [charged EXCEPT !.state = "pending", !.backoff = TRUE]

\* One failed or unacknowledged attempt at row o.
FailAttempt(t, o) ==
    LET charged == [t[o] EXCEPT !.attempts = @ + 1, !.overdue = FALSE]
    IN  IF Successors(t, o) # {}
        THEN Superseded(charged, Newest(t, Successors(t, o)))
        ELSE IF charged.attempts >= MAX_OP_ATTEMPTS
        THEN [charged EXCEPT !.state = "failed", !.backoff = FALSE]
        ELSE [charged EXCEPT !.state = "pending", !.backoff = TRUE]

\* The successors are looked up once, before any row of the batch changes.
FailAttempts(t, S) ==
    [o \in Op |-> IF o \in S THEN FailAttempt(t, o) ELSE t[o]]

-----------------------------------------------------------------------------
(* Writers: record edits in the API, each its own transaction.             *)

\* The first statement of a request's transaction (its authentication
\* query): created_at of every op it will queue is this moment.
BeginTxn ==
    /\ begun < MaxTxns
    /\ Overlap \/ open = {}
    /\ begun' = begun + 1
    /\ open' = open \cup {begun + 1}
    /\ UNCHANGED <<desired, queued, op, covered, maintenance, owner, polls,
                   inst, page, acks, hb, live, ships>>

NewRow(k, t, v) == [NoRow EXCEPT !.key = k, !.created = t, !.ver = v,
                                 !.state = "pending"]

\* The transaction locks the zone row, writes m records of one RRset,
\* stamps and queues an op for each, and commits: nobody else sees any of it
\* before the commit, and no other writer of the zone runs meanwhile.
EnqueueRecordOps(t, k, m) ==
    /\ t \in open
    /\ queued + m =< MaxOps
    /\ queued + m + inst =< MaxLoad
    /\ open' = open \ {t}
    /\ queued' = queued + m
    /\ op' = [o \in Op |->
                IF o \in queued + 1 .. queued + m
                THEN NewRow(k, t, IF k = NoKey THEN 0
                                  ELSE desired[k] + (o - queued))
                ELSE op[o]]
    /\ desired' = [j \in Key |-> IF j = k THEN desired[j] + m ELSE desired[j]]
    /\ UNCHANGED <<begun, covered, maintenance, owner, polls, inst, page,
                   acks, hb, live, ships>>

\* The request is refused, fails or writes no record.
RollbackTxn(t) ==
    /\ t \in open
    /\ open' = open \ {t}
    /\ UNCHANGED <<begun, desired, queued, op, covered, maintenance, owner,
                   polls, inst, page, acks, hb, live, ships>>

\* A render is stored: its snapshot shows every op committed so far.
StoreBundle ==
    /\ covered < queued
    /\ covered' = queued
    /\ UNCHANGED <<begun, open, desired, queued, op, maintenance, owner,
                   polls, inst, page, acks, hb, live, ships>>

\* The operator pauses or resumes the server.
SetMaintenance ==
    /\ maintenance \/ inst \in Pausable
    /\ maintenance' = ~ maintenance
    /\ UNCHANGED <<begun, open, desired, queued, op, covered, owner, polls,
                   inst, page, acks, hb, live, ships>>

-----------------------------------------------------------------------------
(* The long-poll.  A handler outlives the process it was for: nothing       *)
(* cancels it when its client goes.                                         *)

\* Mutant of StartPoll: the first process to claim the server keeps it.
StartPollFirstOwnerStays ==
    /\ page = {}
    /\ polls[inst].phase = "idle"
    /\ polls' = [polls EXCEPT ![inst] = Poll("held")]
    /\ owner' = IF owner = 0 THEN inst ELSE owner
    /\ UNCHANGED <<dbVars, op, inst, page, acks, hb, live, ships>>

\* The running process opens its next poll.  It has applied the last answer;
\* a replacement is a new instance and takes the server over at once.
StartPoll ==
    /\ page = {}
    /\ polls[inst].phase = "idle"
    /\ polls' = [polls EXCEPT ![inst] = Poll("held")]
    /\ owner' = inst
    /\ UNCHANGED <<dbVars, op, inst, page, acks, hb, live, ships>>

\* One pass of the loop begins: refresh the server row, stop (409) if another
\* process owns it by now.  Without a stored bundle there is nothing to page.
PollRefresh(i) ==
    /\ polls[i].phase = "held"
    /\ polls' = [polls EXCEPT ![i] =
                   IF owner \notin {0, i} THEN Poll("idle")
                   ELSE [phase |-> "checked", paused |-> maintenance,
                         upTo |-> covered]]
    /\ UNCHANGED <<dbVars, op, owner, inst, page, acks, hb, live, ships>>

\* Mutant of DispatchedElsewhere: without the rank of the two polls.
DispatchedElsewhereAnyRank(i) ==
    {o \in Op : op[o].state = "in_flight" /\ op[o].to \notin {0, i}}

\* Ops shipped to another process by a poll that started before this one.
\* A process polls one at a time and its replacement starts after it, so the
\* rank of two polls of different processes is the rank of the processes.
DispatchedElsewhere(i) ==
    {o \in Op : /\ op[o].state = "in_flight"
                /\ op[o].to \notin {0, i}
                /\ op[o].to < i}

\* Mutants of PollReturn: the op goes back without the attempt being charged,
\* and the op is taken for delivered.
PollReturnUncharged(i) ==
    /\ polls[i].phase = "checked"
    /\ polls' = [polls EXCEPT ![i].phase = "returned"]
    /\ op' = [o \in Op |-> IF o \in DispatchedElsewhere(i)
                            THEN [op[o] EXCEPT !.state = "pending"]
                            ELSE op[o]]
    /\ UNCHANGED <<dbVars, owner, inst, page, acks, hb, live, ships>>
PollReturnSettles(i) ==
    /\ polls[i].phase = "checked"
    /\ polls' = [polls EXCEPT ![i].phase = "returned"]
    /\ op' = [o \in Op |-> IF o \in DispatchedElsewhere(i)
                            THEN [op[o] EXCEPT !.state = "applied"]
                            ELSE op[o]]
    /\ UNCHANGED <<dbVars, owner, inst, page, acks, hb, live, ships>>

\* return_ops_dispatched_elsewhere and its own commit: counted as an attempt,
\* but without the backoff.
PollReturn(i) ==
    /\ polls[i].phase = "checked"
    /\ polls' = [polls EXCEPT ![i].phase = "returned"]
    /\ LET S == DispatchedElsewhere(i)
           t == FailAttempts(op, S)
       IN  op' = [o \in Op |-> IF o \in S /\ t[o].state = "pending"
                               THEN [t[o] EXCEPT !.backoff = FALSE]
                               ELSE t[o]]
    /\ UNCHANGED <<dbVars, owner, inst, page, acks, hb, live, ships>>

\* What page_pending_ops may ship in poll i: pending, due, and in the snapshot
\* of the bundle this pass read; nothing if it saw the server paused.
Due(i) ==
    IF polls[i].paused THEN {}
    ELSE {o \in Op : /\ op[o].state = "pending"
                     /\ ~ op[o].backoff
                     /\ o =< polls[i].upTo}

\* S is the page: the oldest OpsBatch ops of those that are due.
IsPage(S, due) ==
    /\ Cardinality(S) =< OpsBatch
    /\ S # due => Cardinality(S) = OpsBatch
    /\ \A o \in S, p \in due \ S : QueuedAfter(op, p, o)

\* The ops waiting out a backoff that the page's newest op for their RRset
\* was queued after: that op is superseded rather than retried after it.
PageNewest(S, o) == Newest(op, {p \in S : SameRRset(op, p, o)})
BackedOff(S) ==
    {o \in Op : /\ op[o].state = "pending" /\ op[o].backoff
                /\ \E p \in S : SameRRset(op, p, o)
                /\ QueuedAfter(op, PageNewest(S, o), o)}

\* The table once the page S has been marked in_flight for process i.
Shipped(S, i) ==
    [o \in Op |->
        IF o \in S
        THEN [op[o] EXCEPT !.state = "in_flight", !.overdue = FALSE, !.to = i]
        ELSE IF o \in BackedOff(S) THEN Superseded(op[o], PageNewest(S, o))
        ELSE op[o]]

PageOf(S) == {[op |-> o, dispatch |-> op[o].attempts] : o \in S}

\* The page is committed and answered.  The running process receives it, or
\* the answer is lost; the answer of a departed process's poll always is.
PollPage(i, delivered) ==
    /\ polls[i].phase = "returned"
    /\ delivered => i = inst
    /\ \E S \in SUBSET Due(i) :
          /\ S # {}
          /\ IsPage(S, Due(i))
          /\ op' = Shipped(S, i)
          /\ ships' = [o \in Op |-> IF o \in S THEN ships[o] + 1 ELSE ships[o]]
          /\ page' = IF delivered THEN PageOf(S) ELSE page
    /\ polls' = [polls EXCEPT ![i] = Poll("idle")]
    /\ UNCHANGED <<dbVars, owner, inst, acks, hb, live>>

\* Nothing is due: wait for the next wake, or answer at the deadline (304, or
\* the body alone).
PollWait(i, answered) ==
    /\ polls[i].phase = "returned"
    /\ Due(i) = {}
    /\ polls' = [polls EXCEPT ![i] = Poll(IF answered THEN "idle" ELSE "held")]
    /\ UNCHANGED <<dbVars, op, owner, inst, page, acks, hb, live, ships>>

\* The handler notices that its client has gone (the process was replaced, or
\* only its connection dropped): the page is rolled back.
PollClientGone(i) ==
    /\ polls[i].phase = "returned"
    /\ Due(i) # {}
    /\ polls' = [polls EXCEPT ![i] = Poll("idle")]
    /\ UNCHANGED <<dbVars, op, owner, inst, page, acks, hb, live, ships>>

-----------------------------------------------------------------------------
(* The agent.                                                              *)

\* The page is applied oldest first.
IsHead(e) == e \in page /\ \A f \in page : f = e \/ QueuedAfter(op, f.op, e.op)

\* One op: `ok' is the verdict, `took' whether the daemon really changed (an
\* update can take effect and still be reported as an error).
ApplyOp(ok, took) ==
    /\ ok => took
    /\ \E e \in page :
          /\ IsHead(e)
          /\ page' = page \ {e}
          /\ acks' = Append(acks, [op |-> e.op, dispatch |-> e.dispatch,
                                   ok |-> ok])
          /\ live' = [k \in Key |-> IF took /\ k = op[e.op].key
                                    THEN op[e.op].ver ELSE live[k]]
    /\ UNCHANGED <<dbVars, op, owner, polls, inst, hb, ships>>

\* The process is replaced (container restart, pod roll).  Its unsent acks
\* and its unapplied page die with it; its poll and heartbeat may not.
Restart ==
    /\ inst < MaxInst
    /\ queued + inst < MaxLoad
    /\ inst' = inst + 1
    /\ page' = {}
    /\ acks' = <<>>
    /\ UNCHANGED <<dbVars, op, owner, polls, hb, live, ships>>

\* send_once takes a snapshot of the first AcksBatch acks.
HeartbeatSend ==
    /\ ~ hb[inst].out
    /\ hb' = [hb EXCEPT ![inst] =
                [out |-> TRUE,
                 acks |-> IF Len(acks) =< AcksBatch THEN acks
                          ELSE SubSeq(acks, 1, AcksBatch)]]
    /\ UNCHANGED <<dbVars, op, owner, polls, inst, page, acks, live, ships>>

\* The request never arrives.
HeartbeatLost(i) ==
    /\ hb[i].out
    /\ hb' = [hb EXCEPT ![i] = NoHeartbeat]
    /\ UNCHANGED <<dbVars, op, owner, polls, inst, page, acks, live, ships>>

-----------------------------------------------------------------------------
(* The heartbeat handler: the acks, then the unacknowledged ops.           *)

\* Mutant of AckedOk: the verdict is not looked at.
AckedAny(as, o) == \E n \in DOMAIN as : as[n].op = o

AckedOk(as, o) == \E n \in DOMAIN as : as[n].op = o /\ as[n].ok

\* The first ok for o answers the dispatch that is current in table t.
FirstOkCurrent(t, as, o) ==
    \E n \in DOMAIN as :
        /\ as[n].op = o /\ as[n].ok
        /\ as[n].dispatch = t[o].attempts
        /\ \A m \in DOMAIN as : m < n => ~ (as[m].op = o /\ as[m].ok)

\* An ok marks the op applied from any state; an unknown op is skipped.
OkAcked(t, as) ==
    [o \in Op |->
        IF AckedOk(as, o) /\ t[o].state \notin {"none", "applied"}
        THEN [t[o] EXCEPT
                !.state = "applied", !.backoff = FALSE, !.overdue = FALSE,
                !.attempts = IF t[o].state = "in_flight"
                                /\ FirstOkCurrent(t, as, o)
                             THEN @ + 1 ELSE @]
        ELSE t[o]]

\* An error counts only against the dispatch it answers, once, and not when
\* the same heartbeat also says ok.
ErrorAcked(t, as) ==
    {o \in Op : /\ t[o].state = "in_flight"
                /\ ~ AckedOk(as, o)
                /\ \E n \in DOMAIN as : /\ as[n].op = o /\ ~ as[n].ok
                                        /\ as[n].dispatch = t[o].attempts}

ApplyAcks(t, as) == FailAttempts(OkAcked(t, as), ErrorAcked(t, as))

Unacknowledged(t) == {o \in Op : t[o].state = "in_flight" /\ t[o].overdue}
ResetUnacknowledged(t) == FailAttempts(t, Unacknowledged(t))

\* One heartbeat transaction.  If the 200 reaches the process that sent it,
\* exactly the acks it carried are dropped; a lost answer repeats them.
Heartbeat(i, answered) ==
    /\ hb[i].out
    /\ answered => i = inst
    /\ op' = ResetUnacknowledged(ApplyAcks(op, hb[i].acks))
    /\ acks' = IF answered THEN SubSeq(acks, Len(hb[i].acks) + 1, Len(acks))
               ELSE acks
    /\ hb' = [hb EXCEPT ![i] = NoHeartbeat]
    /\ UNCHANGED <<dbVars, owner, polls, inst, page, live, ships>>

-----------------------------------------------------------------------------
(* Time.                                                                   *)

\* retry_delay has passed since the op was returned to pending.
BackoffElapses(o) ==
    /\ op[o].state = "pending" /\ op[o].backoff
    /\ op' = [op EXCEPT ![o].backoff = FALSE]
    /\ UNCHANGED <<dbVars, owner, polls, inst, page, acks, hb, live, ships>>

\* IN_FLIGHT_ACK_TIMEOUT passes: every op shipped before now is overdue.
AckTimeout ==
    /\ \E o \in Op : op[o].state = "in_flight" /\ ~ op[o].overdue
    /\ op' = [o \in Op |-> IF op[o].state = "in_flight"
                            THEN [op[o] EXCEPT !.overdue = TRUE] ELSE op[o]]
    /\ UNCHANGED <<dbVars, owner, polls, inst, page, acks, hb, live, ships>>

-----------------------------------------------------------------------------
Next ==
    \/ BeginTxn
    \/ \E t \in Txn, k \in Written, m \in 1 .. MaxTxnOps : EnqueueRecordOps(t, k, m)
    \/ \E t \in Txn : RollbackTxn(t)
    \/ StoreBundle
    \/ SetMaintenance
    \/ StartPoll
    \/ \E i \in Inst : PollRefresh(i)
    \/ \E i \in Inst : PollReturn(i)
    \/ \E i \in Inst, d \in BOOLEAN : PollPage(i, d)
    \/ \E i \in Inst, a \in BOOLEAN : PollWait(i, a)
    \/ \E i \in Inst : PollClientGone(i)
    \/ \E ok, took \in BOOLEAN : ApplyOp(ok, took)
    \/ Restart
    \/ HeartbeatSend
    \/ \E i \in Inst : HeartbeatLost(i)
    \/ \E i \in Inst, a \in BOOLEAN : Heartbeat(i, a)
    \/ \E o \in Op : BackoffElapses(o)
    \/ AckTimeout

Spec == Init /\ [][Next]_vars

\* Fairness.  The worker keeps rendering; the agent's poll loop and heartbeat
\* loop are endless; the api runs the handlers it accepted; the network does
\* not drop every poll or every heartbeat for ever; and time passes.
Fairness ==
    /\ WF_vars(StoreBundle)
    /\ WF_vars(StartPoll)
    /\ \A i \in Inst : /\ WF_vars(PollRefresh(i))
                       /\ WF_vars(PollReturn(i))
                       /\ SF_vars(\E d \in BOOLEAN : PollPage(i, d))
                       /\ WF_vars(\E a \in BOOLEAN : PollWait(i, a))
                       /\ SF_vars(\E a \in BOOLEAN : Heartbeat(i, a))
    /\ WF_vars(\E ok, took \in BOOLEAN : ApplyOp(ok, took))
    /\ WF_vars(HeartbeatSend)
    /\ \A o \in Op : WF_vars(BackoffElapses(o))
    /\ WF_vars(AckTimeout)

FairSpec == Spec /\ Fairness

-----------------------------------------------------------------------------
(* Properties.                                                             *)

OpsOf(k) == {o \in Op : op[o].key = k /\ op[o].state # "none"}

\* The retry budget is spent once per dispatch: an op waiting to ship has been
\* charged for each time it shipped, one in flight for each time but the
\* current, and one given up on was really shipped MAX_OP_ATTEMPTS times
\* (fail_attempts is reached from the acks, the reset and the replaced-agent
\* return, and none of them may charge what another already did).
BudgetHonest ==
    \A o \in Op :
        /\ op[o].state = "pending" => op[o].attempts = ships[o]
        /\ op[o].state = "in_flight" => op[o].attempts + 1 = ships[o]
        /\ op[o].state = "failed" => /\ op[o].attempts = MAX_OP_ATTEMPTS
                                     /\ ships[o] = MAX_OP_ATTEMPTS

\* superseded_by leads strictly forward in queue order within one RRset, so a
\* waiter that follows the chain (ACME DNS-01) always comes to its end.
SupersedeChain ==
    \A o \in Op :
        op[o].state = "superseded" =>
            /\ op[o].by \in Op
            /\ op[op[o].by].state # "none"
            /\ SameRRset(op, op[o].by, o)
            /\ QueuedAfter(op, op[o].by, o)

\* The op a superseded op points at carries its change (the reason given for
\* never retrying it: "the newer one already delivers this op's change").
SupersededDelivers ==
    \A o \in Op :
        op[o].state = "superseded" => op[op[o].by].ver >= op[o].ver

\* When nothing of an RRset is queued or in the agent's hands and its newest
\* op was applied, the daemon serves that op's RRset: no retry, late answer
\* or replaced process has put an older one back.
NewestWins ==
    \A k \in Key :
        /\ OpsOf(k) # {}
        /\ \A o \in OpsOf(k) : op[o].state \in TerminalStates
        /\ \A e \in page : op[e.op].key # k
        /\ \E o \in OpsOf(k) : op[o].state = "applied" /\ op[o].ver = desired[k]
        => live[k] = desired[k]

\* An op that the running process holds leaves in_flight only on a verdict on
\* that very dispatch, or once it is overdue.  In particular the leftover poll
\* of the process it replaced cannot take it back, and a late error for an
\* earlier dispatch is not charged to it.
OnlyOwnVerdict ==
    [][\A o \in Op :
          /\ op[o].state = "in_flight"
          /\ op[o].to = inst
          /\ op'[o].state # "in_flight"
          => \/ op[o].overdue
             \/ \E i \in Inst : \E n \in DOMAIN hb[i].acks :
                   /\ hb[i].out
                   /\ hb[i].acks[n].op = o
                   /\ hb[i].acks[n].ok
                      \/ hb[i].acks[n].dispatch = op[o].attempts]_vars

\* The daemon never goes back to an older RRset while a newer one of it is
\* recorded as applied.
NoRollback ==
    [][\A k \in Key :
          live'[k] < live[k] =>
              \A o \in OpsOf(k) : op[o].state = "applied" => op[o].ver =< live'[k]]_vars

\* Unless the operator keeps the server paused, every op comes to an end, even
\* if the agent restarts or never acknowledges it.
EveryOpSettles ==
    <>[] ~ maintenance =>
        \A o \in Op : op[o].state = "pending" ~> op[o].state \in TerminalStates

\* ... and every RRset ends up served as the database has it, unless one of
\* its ops exhausted its retries.
EventuallyServed ==
    <>[] ~ maintenance =>
        \A k \in Key :
            <>[] (\/ live[k] = desired[k]
                  \/ \E o \in OpsOf(k) : op[o].state = "failed")
=============================================================================
