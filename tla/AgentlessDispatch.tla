-------------------------- MODULE AgentlessDispatch --------------------------
(***************************************************************************)
(* Record ops of ONE agentless DNS server (cloud provider, Windows DNS):   *)
(* the control plane calls the provider itself, after the transaction that *)
(* queued the op has committed (services/dns/record_ops.py).  A process    *)
(* that dispatches claims the rows under a lease, creates the zone at the  *)
(* provider if that is still outstanding, sends the rows in queue order    *)
(* and writes the outcome on the rows that still carry its claim.  The     *)
(* committing process does this inline; a beat sweep does it for rows      *)
(* whose dispatch never ran, failed, or outlived its lease.                *)
(*                                                                         *)
(* Data abstraction.  Every op carries the whole desired RRset of one name *)
(* and type (or is a DNSSEC signal op, Signal), and its number is its      *)
(* place in the queue order, so `served' says which RRset the provider     *)
(* serves.  Time is the one fact the code derives from it: whether         *)
(* next_attempt_at has passed (grace, backoff or lease).  The claim stamp  *)
(* updated_at is the name of the dispatching process: a process makes one  *)
(* claim at a time and only looks at the rows it claimed.  The pointer     *)
(* superseded_by is left to DNSRecordOps.                                  *)
(***************************************************************************)
EXTENDS Integers

CONSTANTS
    Writer,          \* processes that commit record changes
    Sweeper,         \* processes that run the beat sweep
    None,            \* no process
    MaxOps,          \* bound: ops ever queued
    MaxTxnOps,       \* bound: ops one transaction queues
    Signal,          \* the ops that carry no record to replay
    MAX_OP_ATTEMPTS, \* the retry budget
    MaxMishaps       \* bound: dispatches that die and pauses of the server

ASSUME ConstantsAssumption ==
    /\ None \notin Writer \cup Sweeper
    /\ MaxOps \in Nat \ {0}
    /\ MaxTxnOps \in Nat \ {0}
    /\ Signal \subseteq 1 .. MaxOps
    /\ MAX_OP_ATTEMPTS \in Nat \ {0}
    /\ MaxMishaps \in Nat

Op == 1 .. MaxOps
Process == Writer \cup Sweeper

VARIABLES
    \* the database
    queued,   \* ops committed so far
    op,       \* the dns_record_op table
    marker,   \* agentless_create_due_at: clear, waiting or due; unborn: no zone yet
    enabled,  \* server.is_enabled
    \* the provider
    zoneAt,   \* it holds the zone
    served,   \* the op whose RRset it serves, 0 = none
    \* the dispatching processes
    pc,
    unit,     \* ops the transaction queued ({} in the sweep)
    rows,     \* ops it claimed
    unsent,   \* those it has still to send
    ok,       \* those the provider accepted
    answer,   \* outcome of its zone create for this server
    \* observers
    late,     \* claimed ops whose lease ran out under the running dispatch
    claims,   \* how often each op was claimed
    accepted, \* ops some call of the provider accepted
    mishaps   \* mishaps that may still happen

db == <<queued, op, marker, enabled>>
provider == <<zoneAt, served>>
work == <<unit, rows, unsent, ok, answer>>
vars == <<db, provider, pc, work, late, claims, accepted, mishaps>>

\* A row of dns_record_op; `due': next_attempt_at has passed; `claim' stands
\* for the updated_at of the claim.
Row == [state : {"none", "pending", "in_flight", "applied", "failed", "superseded"},
        attempts : 0 .. MAX_OP_ATTEMPTS, due : BOOLEAN, claim : Process \cup {None}]

\* A row as it is written: its grace, backoff or lease has just begun.
Written(state, n, d) == [state |-> state, attempts |-> n, due |-> FALSE, claim |-> d]

Outstanding == {"waiting", "due"}

Init ==
    /\ queued = 0
    /\ op = [o \in Op |-> Written("none", 0, None)]
    /\ marker \in {"unborn", "clear"}
    /\ enabled = TRUE
    /\ zoneAt = (marker = "clear")
    /\ served = 0
    /\ pc = [d \in Process |-> "idle"]
    /\ unit = [d \in Process |-> {}]
    /\ rows = [d \in Process |-> {}]
    /\ unsent = [d \in Process |-> {}]
    /\ ok = [d \in Process |-> {}]
    /\ answer = [d \in Process |-> "none"]
    /\ late = [d \in Process |-> {}]
    /\ claims = [o \in Op |-> 0]
    /\ accepted = {}
    /\ mishaps = MaxMishaps

-----------------------------------------------------------------------------
(* Attempts and claims, over a table t of rows.                            *)

\* Newer ops of the RRset that still count (_successors).
Successors(t, o) ==
    IF o \in Signal THEN {}
    ELSE {p \in Op \ Signal : p > o /\ t[p].state \in {"pending", "in_flight", "applied"}}

\* Mutant of Failed: one attempt more than the budget.
FailedOneMore(t, o) ==
    LET n == t[o].attempts + 1
    IN  Written(IF Successors(t, o) # {} THEN "superseded"
                ELSE IF n > MAX_OP_ATTEMPTS THEN "failed" ELSE "pending", n, None)

\* Row o after one more failed attempt.
Failed(t, o) ==
    LET n == t[o].attempts + 1
    IN  Written(IF Successors(t, o) # {} THEN "superseded"
                ELSE IF n >= MAX_OP_ATTEMPTS THEN "failed" ELSE "pending", n, None)

\* The successors of the whole batch are looked up before any row changes.
FailAttempts(t, F) == [o \in Op |-> IF o \in F THEN Failed(t, o) ELSE t[o]]

\* Mutant of Claimable: the claim does not check the state again.
ClaimableAnyQueued(t, O) == {o \in O : t[o].state \in {"pending", "in_flight"}}

\* Those of the rows O that the conditional UPDATE takes.
Claimable(t, O) == {o \in O : t[o].state = "pending"}

\* Process d is at `to', with the ops O of its transaction and nothing claimed.
Begin(d, to, O) ==
    /\ pc' = [pc EXCEPT ![d] = to]
    /\ unit' = [unit EXCEPT ![d] = O]
    /\ rows' = [rows EXCEPT ![d] = {}]
    /\ unsent' = [unsent EXCEPT ![d] = {}]
    /\ ok' = [ok EXCEPT ![d] = {}]
    /\ answer' = [answer EXCEPT ![d] = "none"]
    /\ late' = [late EXCEPT ![d] = {}]

\* Process d claims the rows C of table t; with none it is done.
Claim(d, t, C) ==
    /\ op' = [o \in Op |-> IF o \in C
                           THEN Written("in_flight", t[o].attempts, d) ELSE t[o]]
    /\ claims' = [o \in Op |-> IF o \in C THEN claims[o] + 1 ELSE claims[o]]
    /\ pc' = [pc EXCEPT ![d] = IF C = {} THEN "idle"
                               ELSE IF C \subseteq Signal THEN "record" ELSE "zone"]
    /\ unit' = [unit EXCEPT ![d] = {}]
    /\ rows' = [rows EXCEPT ![d] = C]
    /\ unsent' = [unsent EXCEPT ![d] = C \ Signal]
    /\ answer' = [answer EXCEPT ![d] = "none"]
    /\ UNCHANGED <<ok, late>>

-----------------------------------------------------------------------------
(* A transaction commits n ops; its process goes on to dispatch them.      *)

\* A reverse zone the transaction auto-created is marked and has a unit of
\* its own, ahead of the ops.  A paused server's ops are not queued at all.
Commit(d, n) ==
    /\ pc[d] = "idle"
    /\ enabled
    /\ queued + n <= MaxOps
    /\ queued' = queued + n
    /\ op' = [o \in Op |-> IF o \in queued + 1 .. queued + n
                           THEN Written("pending", 0, None) ELSE op[o]]
    /\ marker' = IF marker = "unborn" THEN "waiting" ELSE marker
    /\ Begin(d, IF marker = "unborn" THEN "zone" ELSE "claim", queued + 1 .. queued + n)
    /\ UNCHANGED <<enabled, provider, claims, accepted, mishaps>>

\* The inline dispatch claims what is still pending of its unit.
InlineClaim(d) ==
    /\ pc[d] = "claim"
    /\ Claim(d, op, IF enabled THEN Claimable(op, unit[d]) ELSE {})
    /\ UNCHANGED <<queued, marker, enabled, provider, accepted, mishaps>>

-----------------------------------------------------------------------------
(* The beat sweep.                                                         *)

\* Mutant of Sweep: no zone pass.
SweepOpsOnly(d) ==
    /\ pc[d] = "idle"
    /\ Begin(d, "sweep", {})
    /\ UNCHANGED <<db, provider, claims, accepted, mishaps>>

\* A zone whose create is due comes first.
Sweep(d) ==
    /\ pc[d] = "idle"
    /\ Begin(d, IF marker = "due" THEN "zone" ELSE "sweep", {})
    /\ UNCHANGED <<db, provider, claims, accepted, mishaps>>

\* Mutant of Stale: a lease that ran out is not looked at.
StaleNever == {}

\* The claims whose lease has run out.
Stale == {o \in Op : op[o].state = "in_flight" /\ op[o].due}

\* One transaction: stale claims become failed attempts, due rows are claimed.
SweepClaim(d) ==
    LET t == FailAttempts(op, Stale)
        dueRows == {o \in Op : enabled /\ t[o].due}
    IN  /\ pc[d] = "sweep"
        /\ Claim(d, t, Claimable(t, dueRows))
        /\ UNCHANGED <<queued, marker, enabled, provider, accepted, mishaps>>

-----------------------------------------------------------------------------
(* The zone at the provider: before the claim as a unit of its own or as   *)
(* the sweep's zone pass, after the claim for the zone of the rows.        *)

\* Mutant of AfterZone: rows of a zone that could not be created are sent.
AfterZoneAlwaysSends(d, ans) ==
    IF rows[d] # {} THEN "send" ELSE IF unit[d] # {} THEN "claim" ELSE "sweep"

\* Rows of a zone this server still lacks are held back with its error.
AfterZone(d, ans) ==
    IF rows[d] # {} THEN (IF ans = "error" THEN "record" ELSE "send")
    ELSE IF unit[d] # {} THEN "claim" ELSE "sweep"

\* The marker and the server row are read; a paused server is not called.
ReadZone(d) ==
    LET ans == IF marker \notin Outstanding THEN "none"
               ELSE IF enabled THEN "asked" ELSE "paused"
    IN  /\ pc[d] = "zone"
        /\ answer' = [answer EXCEPT ![d] = ans]
        /\ pc' = [pc EXCEPT ![d] = CASE ans = "none" -> AfterZone(d, ans)
                                     [] ans = "asked" -> "create"
                                     [] ans = "paused" -> "mark"]
        /\ UNCHANGED <<db, provider, unit, rows, unsent, ok, late, claims, accepted, mishaps>>

\* The provider has the zone afterwards (created, adopted, or already there).
\* Every driver of AGENTLESS_DRIVERS has apply_zone_change: the code's success
\* for a driver without one has no case here.
ZoneCreated(d) ==
    /\ pc[d] = "create"
    /\ zoneAt' = TRUE
    /\ answer' = [answer EXCEPT ![d] = "present"]
    /\ pc' = [pc EXCEPT ![d] = "mark"]
    /\ UNCHANGED <<db, served, unit, rows, unsent, ok, late, claims, accepted, mishaps>>

\* The create fails, or its answer is lost.
ZoneFails(d) ==
    /\ pc[d] = "create"
    /\ zoneAt' \in {zoneAt, TRUE}
    /\ answer' = [answer EXCEPT ![d] = "error"]
    /\ pc' = [pc EXCEPT ![d] = "mark"]
    /\ UNCHANGED <<db, served, unit, rows, unsent, ok, late, claims, accepted, mishaps>>

\* The marker is cleared, or pushed back (a paused server counts as not holding
\* the zone yet), unless another process cleared it meanwhile.
Mark(d) ==
    /\ pc[d] = "mark"
    /\ marker' = IF marker \in Outstanding
                 THEN (IF answer[d] = "present" THEN "clear" ELSE "waiting") ELSE marker
    /\ pc' = [pc EXCEPT ![d] = AfterZone(d, answer[d])]
    /\ UNCHANGED <<queued, op, enabled, provider, work, late, claims, accepted, mishaps>>

-----------------------------------------------------------------------------
(* The provider calls and their outcome.                                   *)

\* The next row in queue order has been tried.
Sent(d, o) ==
    /\ pc[d] = "send"
    /\ o \in unsent[d] /\ \A p \in unsent[d] : o <= p
    /\ unsent' = [unsent EXCEPT ![d] = @ \ {o}]
    /\ pc' = [pc EXCEPT ![d] = IF unsent[d] = {o} THEN "record" ELSE "send"]
    /\ UNCHANGED <<db, zoneAt, unit, rows, answer, late, claims, mishaps>>

\* The provider takes the RRset; that needs the zone.
SendOk(d, o) ==
    /\ Sent(d, o)
    /\ zoneAt
    /\ served' = o
    /\ ok' = [ok EXCEPT ![d] = @ \cup {o}]
    /\ accepted' = accepted \cup {o}

\* The provider refuses it, or the answer is lost after it was taken.
SendFails(d, o) ==
    /\ Sent(d, o)
    /\ served' \in IF zoneAt THEN {served, o} ELSE {served}
    /\ UNCHANGED <<ok, accepted>>

\* Mutant of Own: also a row that was taken back and waits for its retry.
OwnAnyQueued(d) == {o \in rows[d] : op[o].state \in {"in_flight", "pending"}}

\* The rows that still carry this dispatch's claim.
Own(d) == {o \in rows[d] : op[o].state = "in_flight" /\ op[o].claim = d}

\* Mutant of Landed: a row without an error of its own counts as sent.
LandedUnlessTried(d) == IF answer[d] = "error" THEN rows[d] \ Signal ELSE ok[d]

\* The rows whose dispatch ended without an error.
Landed(d) == ok[d]

\* The outcome is written; rows the sweep has taken back are dropped from it.
Record(d) ==
    LET t == [o \in Op |->
                IF o \notin Own(d) THEN op[o]
                ELSE IF o \in Signal
                THEN Written("failed", op[o].attempts, None)
                ELSE IF o \in Landed(d) THEN Written("applied", op[o].attempts + 1, None)
                ELSE op[o]]
    IN  /\ pc[d] = "record"
        /\ op' = FailAttempts(t, Own(d) \ (Landed(d) \cup Signal))
        /\ Begin(d, "idle", {})
        /\ UNCHANGED <<queued, marker, enabled, provider, claims, accepted, mishaps>>

-----------------------------------------------------------------------------
(* The environment.                                                        *)

\* The process dies, or its session raises; its claims stay under their lease.
Crash(d) ==
    /\ pc[d] # "idle"
    /\ mishaps > 0
    /\ mishaps' = mishaps - 1
    /\ Begin(d, "idle", {})
    /\ UNCHANGED <<db, provider, claims, accepted>>

\* A grace, a backoff or a lease runs out, the last also under a running call.
Elapse(o) ==
    /\ op[o].state \in {"pending", "in_flight"}
    /\ ~op[o].due
    /\ op' = [op EXCEPT ![o] = [state |-> @.state, attempts |-> @.attempts,
                                due |-> TRUE, claim |-> @.claim]]
    /\ late' = [d \in Process |-> IF op[o].state = "in_flight" /\ o \in rows[d]
                                  THEN late[d] \cup {o} ELSE late[d]]
    /\ UNCHANGED <<queued, marker, enabled, provider, pc, work, claims, accepted, mishaps>>

\* AGENTLESS_ZONE_CREATE_RETRY (or the grace of a new zone) runs out.
MarkerElapses ==
    /\ marker = "waiting"
    /\ marker' = "due"
    /\ UNCHANGED <<queued, op, enabled, provider, pc, work, late, claims, accepted, mishaps>>

\* The operator pauses the server.
Pause ==
    /\ enabled
    /\ mishaps > 0
    /\ mishaps' = mishaps - 1
    /\ enabled' = FALSE
    /\ UNCHANGED <<queued, op, marker, provider, pc, work, late, claims, accepted>>

\* The operator resumes it.
Resume ==
    /\ ~enabled
    /\ enabled' = TRUE
    /\ UNCHANGED <<queued, op, marker, provider, pc, work, late, claims, accepted, mishaps>>

Next ==
    \/ \E d \in Writer, n \in 1 .. MaxTxnOps : Commit(d, n)
    \/ \E d \in Sweeper : Sweep(d)
    \/ \E d \in Process :
        \/ InlineClaim(d) \/ SweepClaim(d)
        \/ ReadZone(d) \/ ZoneCreated(d) \/ ZoneFails(d) \/ Mark(d)
        \/ \E o \in Op : SendOk(d, o) \/ SendFails(d, o)
        \/ Record(d) \/ Crash(d)
    \/ \E o \in Op : Elapse(o)
    \/ MarkerElapses
    \/ Pause \/ Resume

Spec == Init /\ [][Next]_vars

\* A started dispatch goes on (a provider call ends, one way or the other),
\* time passes and beat starts a sweep every 60 s.  A sweep may need the place
\* another dispatch leaves, and a provider that is asked again and again is up
\* at some of the times.
Steps(d) ==
    \/ InlineClaim(d) \/ SweepClaim(d) \/ ReadZone(d)
    \/ ZoneCreated(d) \/ ZoneFails(d) \/ Mark(d)
    \/ \E o \in Op : SendOk(d, o) \/ SendFails(d, o)
    \/ Record(d)

Fairness ==
    /\ \A d \in Process : /\ WF_vars(Steps(d))
                          /\ SF_vars(ZoneCreated(d))
    /\ SF_vars(\E d \in Sweeper : Sweep(d))
    /\ WF_vars(\E o \in Op : Elapse(o))
    /\ WF_vars(MarkerElapses)

FairSpec == Spec /\ Fairness

-----------------------------------------------------------------------------
(* Properties.                                                             *)

\* Every variable keeps its type; the attempts of a row never pass the budget,
\* whichever of the outcome and the sweep charges the last one.
TypeOK ==
    /\ queued \in 0 .. MaxOps
    /\ op \in [Op -> Row]
    /\ marker \in {"unborn", "clear"} \cup Outstanding
    /\ enabled \in BOOLEAN
    /\ zoneAt \in BOOLEAN
    /\ served \in 0 .. MaxOps
    /\ pc \in [Process -> {"idle", "claim", "sweep", "zone", "create", "mark", "send", "record"}]
    /\ unit \in [Process -> SUBSET Op]
    /\ rows \in [Process -> SUBSET Op]
    /\ unsent \in [Process -> SUBSET (Op \ Signal)]
    /\ ok \in [Process -> SUBSET (Op \ Signal)]
    /\ answer \in [Process -> {"none", "asked", "present", "error", "paused"}]
    /\ late \in [Process -> SUBSET Op]
    /\ claims \in [Op -> Nat]
    /\ accepted \in SUBSET (Op \ Signal)
    /\ mishaps \in 0 .. MaxMishaps

\* "Claimed, not timed": while a dispatch runs, each row it claimed is its own,
\* in flight, until the row's lease has run out; no inline dispatch and no
\* sweep takes it over or sends it a second time.
LeaseExclusive ==
    \A d \in Process : pc[d] # "idle" =>
        \A o \in rows[d] \ late[d] : op[o].state = "in_flight" /\ op[o].claim = d

\* Every claim is charged to the retry budget exactly once, whether its outcome
\* came, came after the lease, or never came; and an op is given up on only
\* after MAX_OP_ATTEMPTS claims.
BudgetHonest ==
    \A o \in Op \ Signal :
        /\ op[o].attempts + (IF op[o].state = "in_flight" THEN 1 ELSE 0) = claims[o]
        /\ op[o].state = "failed" => claims[o] = MAX_OP_ATTEMPTS

\* An op is recorded as applied only if the provider accepted it, also when
\* its zone could not be created or another dispatch took the row over.
AppliedIsTrue == \A o \in Op : op[o].state = "applied" => o \in accepted

\* Rows are sent only to a provider that holds their zone, whichever process
\* creates it, unless the server was paused between the claim and the create.
ZoneFirst == \A d \in Process : pc[d] = "send" => zoneAt \/ answer[d] = "paused"

Terminal(o) == op[o].state \in {"applied", "failed", "superseded"}

\* Every queued op ends applied, superseded or visibly failed, whatever dies on
\* the way and wherever it had got to, unless the server is paused.
Settles ==
    \A o \in Op : op[o].state \in {"pending", "in_flight"} ~> Terminal(o) \/ ~enabled

\* A zone whose create is outstanding reaches the provider, unless the server
\* is paused.
ZoneReaches == marker \in {"waiting", "due", "clear"} ~> zoneAt \/ ~enabled

\* models/dns.py on superseded_by: a newer op of the RRset already delivers an
\* older op's change, and "retrying this one after it would revert the newer
\* state".  So once no op is queued, the provider serves the newest op that
\* was applied.  (Violated: the agentless sweep retries the older op.)
SettledIsNewest ==
    (\A o \in 1 .. queued : Terminal(o)) =>
        \A o \in Op : op[o].state = "applied" => served >= o

=============================================================================
