----------------------------- MODULE RenderSlot -----------------------------
(***************************************************************************)
(* Which worker renders which server's bundle, and when                    *)
(* (backend/app/tasks/agent_bundles.py).  A commit that marks a server     *)
(* publishes a render message; a worker that receives it takes the         *)
(* server's lock and one of the fleet's slots in Redis, renders, and looks *)
(* at the dirty flag before it lets go.  Both keys are leases that hold    *)
(* the run's token: a run that is killed leaves them behind, a run that    *)
(* stalls can lose them while it still renders.                            *)
(*                                                                         *)
(* What a render puts in the store is DNSBundle's subject.  Here a server  *)
(* is only behind its marks or not, and a render remembers whether its     *)
(* snapshot still covers every mark (snap).                                *)
(***************************************************************************)
EXTENDS Integers, FiniteSets

CONSTANTS
    Server,         \* enabled, agent-based servers
    Big,            \* the servers whose group needs more than the floor time limit
    Known,          \* those of them whose last stored bundle is already that large
    Worker,         \* worker processes
    Slot,           \* the fleet's slot keys (dns_agent_bundle_render_slots)
    Token,          \* bound on run tokens in use at once
    None,           \* no token, no slot, no message
    Faults,         \* the kinds of fault that may happen
    Alone,          \* the kinds that happen in a behaviour without any other fault
    MaxFaults,      \* how many of the others
    ABANDONED_RENDER_LIMIT,
    MAX_RENDER_DELIVERIES

FaultKind == {"kill", "abort", "stall", "lose", "fail", "noredis", "redeliver"}

ASSUME ConstantsAssumption ==
    /\ Big \subseteq Server /\ Known \subseteq Big
    /\ None \notin Token \cup Slot
    /\ Faults \subseteq FaultKind /\ Alone \subseteq Faults
    /\ MaxFaults \in Nat
    /\ ABANDONED_RENDER_LIMIT \in Nat \ {0}
    /\ MAX_RENDER_DELIVERIES \in Nat \ {0}

VARIABLES
    \* Redis
    lock,           \* [Server -> token holding the server's render lock]
    slot,           \* [Slot -> token of the run that holds the slot]
    dirty,          \* servers whose dirty flag is set
    waiting,        \* some render says it waits for a slot
    attempts,       \* [Server -> renders started and not finished]
    hold,           \* servers held after their renders kept dying
    \* the database
    behind,         \* servers whose stored bundle is behind their marks
    failed,         \* servers with a failure recorded within SWEEP_FAILED_BACKOFF
    \* the broker: a set, so one copy of each message
    queue,
    \* the workers
    pc,             \* where the run is in _run
    cur,            \* the message it runs, as delivered
    tok,            \* its token, None when Redis was unreachable
    slt,            \* the slot key it took
    snap,           \* its snapshot covers every mark made so far
    out,            \* the status it will return
    \* observers
    lost,           \* [Worker -> leases that ran out under the live run]
    killed,         \* [Server -> renders killed since the last one that finished or was held]
    heldOnce,       \* servers held since their last finished render
    stalled,        \* [Server -> times its lock ran out under a live run]
    twice,          \* tokens of retries delivered again while they ran
    faults          \* faults that may still happen

redis == <<lock, slot, dirty, waiting, attempts, hold>>
run == <<pc, cur, tok, slt, snap, out>>
ghosts == <<killed, heldOnce, stalled, twice>>
vars == <<redis, behind, failed, queue, run, lost, ghosts, faults>>

\* lock_token is set on the retry of a run that keeps its lock; n counts deliveries.
Message == [server : Server, token : Token \cup {None}, sized : BOOLEAN, n : Nat]

\* A message enqueue_render publishes; sized: its time limits fit the group.
Plain(s, sized) == [server |-> s, token |-> None, sized |-> sized \/ s \notin Big, n |-> 0]

\* The retry a run publishes: its lock still holds the token.
Retry(s, t, sized) == [server |-> s, token |-> t, sized |-> sized, n |-> 0]

\* The same message, delivered once more (count_delivery).
Counted(m) == [server |-> m.server, token |-> m.token, sized |-> m.sized, n |-> m.n + 1]

srv(w) == cur[w].server

\* Where a run holds the keys it took and its keeper renews them.
Keyed == {"verdict", "abandon", "clear", "read", "store", "stored", "current", "release"}
\* Where a started render has not finished: killed here, its count stays raised.
Unfinished == {"read", "store", "stored", "current"}

Running(w) == pc[w] # "idle"

UsedTokens == {lock[s] : s \in Server} \cup {slot[k] : k \in Slot}
                \cup {tok[w] : w \in Worker} \cup {m.token : m \in queue}
                \cup twice \cup {cur[w].token : w \in {v \in Worker : Running(v)}}

\* uuid4: a token nobody uses.
FreshToken == CHOOSE t \in Token : t \notin UsedTokens

Init ==
    /\ lock = [s \in Server |-> None]
    /\ slot = [k \in Slot |-> None]
    /\ dirty = {} /\ waiting = FALSE /\ hold = {}
    /\ attempts = [s \in Server |-> 0]
    /\ behind = {} /\ failed = {} /\ queue = {}
    /\ pc = [w \in Worker |-> "idle"]
    /\ cur = [w \in Worker |-> None]
    /\ tok = [w \in Worker |-> None]
    /\ slt = [w \in Worker |-> None]
    /\ snap = [w \in Worker |-> FALSE]
    /\ out = [w \in Worker |-> "done"]
    /\ lost = [w \in Worker |-> {}]
    /\ killed = [s \in Server |-> 0]
    /\ heldOnce = {}
    /\ stalled = [s \in Server |-> 0]
    /\ twice = {}
    /\ faults = MaxFaults

-----------------------------------------------------------------------------
(* The api and the beat: where render messages come from. *)

\* A commit marks the server; the after-commit hook publishes at the floor limit.
Change(s) ==
    /\ behind' = behind \cup {s}
    /\ snap' = [w \in Worker |-> snap[w] /\ ~(Running(w) /\ srv(w) = s)]
    /\ queue' = queue \cup {Plain(s, FALSE)}
    /\ UNCHANGED <<redis, failed, pc, cur, tok, slt, out, lost, ghosts, faults>>

\* Mutant: the sweep trusts the dirty flag to bring the render.
SweepUnflagged ==
    /\ (behind \ failed) \ dirty # {}
    /\ queue' = queue \cup {Plain(s, s \in Known) : s \in (behind \ failed) \ dirty}
    /\ UNCHANGED <<redis, behind, failed, run, lost, ghosts, faults>>

\* render_missing_sweep: every server behind, unless a failure was just recorded.
\* Its messages are sized by the group's last stored bundle (known_records).
Sweep ==
    /\ behind \ failed # {}
    /\ queue' = queue \cup {Plain(s, s \in Known) : s \in behind \ failed}
    /\ UNCHANGED <<redis, behind, failed, run, lost, ghosts, faults>>

-----------------------------------------------------------------------------
(* render_dns_bundle. *)

Goto(w, l) == pc' = [pc EXCEPT ![w] = l]

\* The run is over and the worker forgets it.
Ends(w) ==
    /\ Goto(w, "idle")
    /\ cur' = [cur EXCEPT ![w] = None]
    /\ tok' = [tok EXCEPT ![w] = None]
    /\ slt' = [slt EXCEPT ![w] = None]
    /\ snap' = [snap EXCEPT ![w] = FALSE]
    /\ out' = [out EXCEPT ![w] = "done"]
    /\ lost' = [lost EXCEPT ![w] = {}]

\* The delivery itself: the message leaves the queue, its delivery is counted.
Deliver(w, m) ==
    /\ pc[w] = "idle" /\ m \in queue
    /\ queue' = queue \ {m}
    /\ cur' = [cur EXCEPT ![w] = Counted(m)]
    /\ UNCHANGED <<snap, lost>>

\* Delivered too often: the worker died each time.  Record it and ack.
TooManyDeliveries(w, m) ==
    /\ pc[w] = "idle" /\ m \in queue
    /\ m.n + 1 > MAX_RENDER_DELIVERIES
    /\ queue' = queue \ {m}
    /\ failed' = failed \cup {m.server}
    /\ UNCHANGED <<redis, behind, run, lost, ghosts, faults>>

\* The run's token: the one its lock still holds, or a new one.
RunToken(m) == IF m.token # None THEN m.token ELSE FreshToken

\* Mutant: a retry takes for granted that its lease outlived the countdown.
LockOkUnchecked(m) == lock[m.server] = None \/ m.token # None

\* The lock is this run's: renewed, or free and set.
LockOk(m) == lock[m.server] = None \/ (m.token # None /\ lock[m.server] = m.token)

\* Mutant: a plain SET, without NX.
FreeSlotAny(k) == k \in Slot

\* SET NX succeeds on this slot.
FreeSlot(k) == slot[k] = None

Receives(w, m) ==
    /\ Deliver(w, m)
    /\ m.n + 1 <= MAX_RENDER_DELIVERIES
    /\ m.token = None => Token \ UsedTokens # {}

\* The lock and a slot: the run may render.
AcquireHeld(w, m) ==
    /\ Receives(w, m) /\ LockOk(m)
    /\ \E k \in Slot :
         /\ FreeSlot(k)
         /\ slot' = [slot EXCEPT ![k] = RunToken(m)]
         /\ slt' = [slt EXCEPT ![w] = k]
    /\ lock' = [lock EXCEPT ![m.server] = RunToken(m)]
    /\ tok' = [tok EXCEPT ![w] = RunToken(m)]
    /\ Goto(w, "verdict")
    /\ UNCHANGED <<out, dirty, waiting, attempts, hold, behind, failed, ghosts, faults>>

\* The lock but no slot: say that a render waits, keep the lock, come back.
Deferral(m) ==
    /\ LockOk(m)
    /\ m.token = None => Token \ UsedTokens # {}
    /\ m.n + 1 <= MAX_RENDER_DELIVERIES
    /\ \A k \in Slot : ~FreeSlot(k)
    /\ lock' = [lock EXCEPT ![m.server] = RunToken(m)]
    /\ waiting' = TRUE
    /\ UNCHANGED <<slot, dirty, attempts, hold, behind, failed, run, lost, ghosts>>

AcquireDeferred(w, m) ==
    /\ pc[w] = "idle" /\ m \in queue
    /\ Deferral(m)
    /\ queue' = (queue \ {m}) \cup {Retry(m.server, RunToken(m), m.sized)}
    /\ UNCHANGED faults

\* Somebody else's lock: the flag is set by a second command.
AcquireCoalesced(w, m) ==
    /\ Deliver(w, m) /\ m.n + 1 <= MAX_RENDER_DELIVERIES
    /\ ~LockOk(m)
    /\ Goto(w, "flag")
    /\ UNCHANGED <<tok, slt, out, redis, behind, failed, ghosts, faults>>

SetDirty(w) ==
    /\ pc[w] = "flag"
    /\ dirty' = dirty \cup {srv(w)}
    /\ Ends(w)
    /\ UNCHANGED <<lock, slot, waiting, attempts, hold, behind, failed, queue,
                   ghosts, faults>>

\* Mutant: the hold comes one killed render late.
VerdictLate(w) ==
    /\ pc[w] = "verdict"
    /\ \/ /\ srv(w) \in hold
          /\ Goto(w, "release")
          /\ UNCHANGED <<attempts, hold, killed, heldOnce>>
       \/ /\ srv(w) \notin hold
          /\ attempts[srv(w)] <= ABANDONED_RENDER_LIMIT
          /\ Goto(w, "clear")
          /\ UNCHANGED <<attempts, hold, killed, heldOnce>>
       \/ /\ srv(w) \notin hold
          /\ attempts[srv(w)] > ABANDONED_RENDER_LIMIT
          /\ hold' = hold \cup {srv(w)}
          /\ attempts' = [attempts EXCEPT ![srv(w)] = ABANDONED_RENDER_LIMIT - 1]
          /\ killed' = [killed EXCEPT ![srv(w)] = 0]
          /\ heldOnce' = heldOnce \cup {srv(w)}
          /\ Goto(w, "abandon")
    /\ UNCHANGED <<lock, slot, dirty, waiting, behind, failed, queue,
                   cur, tok, slt, snap, out, lost, stalled, twice, faults>>

\* _abandoned_verdict, on a server whose renders may keep dying.
Verdict(w) ==
    /\ pc[w] = "verdict"
    /\ \/ /\ srv(w) \in hold
          /\ Goto(w, "release")
          /\ UNCHANGED <<attempts, hold, killed, heldOnce>>
       \/ /\ srv(w) \notin hold
          /\ attempts[srv(w)] < ABANDONED_RENDER_LIMIT
          /\ Goto(w, "clear")
          /\ UNCHANGED <<attempts, hold, killed, heldOnce>>
       \/ /\ srv(w) \notin hold
          /\ attempts[srv(w)] >= ABANDONED_RENDER_LIMIT
          /\ hold' = hold \cup {srv(w)}
          /\ attempts' = [attempts EXCEPT ![srv(w)] = ABANDONED_RENDER_LIMIT - 1]
          /\ killed' = [killed EXCEPT ![srv(w)] = 0]
          /\ heldOnce' = heldOnce \cup {srv(w)}
          /\ Goto(w, "abandon")
    /\ UNCHANGED <<lock, slot, dirty, waiting, behind, failed, queue,
                   cur, tok, slt, snap, out, lost, stalled, twice, faults>>

RecordAbandoned(w) ==
    /\ pc[w] = "abandon"
    /\ failed' = failed \cup {srv(w)}
    /\ Goto(w, "release")
    /\ UNCHANGED <<redis, behind, queue, cur, tok, slt, snap, out, lost, ghosts, faults>>

\* The dirty flag is deleted before the database is read, and the render counted.
StartRender(w) ==
    /\ pc[w] = "clear"
    /\ IF tok[w] = None THEN UNCHANGED <<dirty, attempts>>
       ELSE /\ dirty' = dirty \ {srv(w)}
            /\ attempts' = [attempts EXCEPT ![srv(w)] = @ + 1]
    /\ Goto(w, "read")
    /\ UNCHANGED <<lock, slot, waiting, hold, behind, failed, queue,
                   cur, tok, slt, snap, out, lost, ghosts, faults>>

\* Mutant: the count is taken down by one instead of deleted.
FinishedOne(w) ==
    /\ attempts' = IF tok[w] = None THEN attempts ELSE [attempts EXCEPT ![srv(w)] = @ - 1]
    /\ killed' = IF tok[w] = None THEN killed ELSE [killed EXCEPT ![srv(w)] = 0]
    /\ heldOnce' = IF tok[w] = None THEN heldOnce ELSE heldOnce \ {srv(w)}

\* A render that returns or raises has finished: its count is cleared.
Finished(w) ==
    /\ attempts' = IF tok[w] = None THEN attempts ELSE [attempts EXCEPT ![srv(w)] = 0]
    /\ killed' = IF tok[w] = None THEN killed ELSE [killed EXCEPT ![srv(w)] = 0]
    /\ heldOnce' = IF tok[w] = None THEN heldOnce ELSE heldOnce \ {srv(w)}

\* _render_once up to its snapshot: current, too big for this message, or read.
ReadServer(w) ==
    /\ pc[w] = "read"
    /\ \/ /\ srv(w) \notin behind
          /\ Goto(w, "current")
          /\ UNCHANGED <<snap, out, attempts, killed, heldOnce>>
       \/ /\ srv(w) \in behind /\ ~cur[w].sized
          /\ out' = [out EXCEPT ![w] = "resize"]
          /\ Finished(w)
          /\ Goto(w, "release")
          /\ UNCHANGED snap
       \/ /\ srv(w) \in behind /\ cur[w].sized
          /\ snap' = [snap EXCEPT ![w] = TRUE]
          /\ Goto(w, "store")
          /\ UNCHANGED <<out, attempts, killed, heldOnce>>
    /\ UNCHANGED <<lock, slot, dirty, waiting, hold, behind, failed, queue,
                   cur, tok, slt, lost, stalled, twice, faults>>

\* render_and_store commits: the marks the snapshot saw are in the store.
StoreBundle(w) ==
    /\ pc[w] = "store"
    /\ behind' = IF snap[w] THEN behind \ {srv(w)} ELSE behind
    /\ failed' = failed \ {srv(w)}
    /\ snap' = [snap EXCEPT ![w] = FALSE]
    /\ Goto(w, "stored")
    /\ UNCHANGED <<redis, queue, cur, tok, slt, out, lost, ghosts, faults>>

\* After a render: more changed (the flag)?  Render again only while nobody
\* waits; past 50 renders or the loop's budget, hand the slot on anyway.
AfterRender(w) ==
    /\ pc[w] \in {"stored", "current"}
    /\ Finished(w)
    /\ \/ /\ tok[w] = None \/ srv(w) \notin dirty
          /\ Goto(w, "release") /\ UNCHANGED out
       \/ /\ tok[w] # None /\ srv(w) \in dirty
          /\ out' = [out EXCEPT ![w] = "retry"]
          /\ Goto(w, "release")
       \/ /\ tok[w] # None /\ srv(w) \in dirty /\ ~waiting
          /\ Goto(w, "clear") /\ UNCHANGED out
    /\ UNCHANGED <<lock, slot, dirty, waiting, hold, behind, failed, queue,
                   cur, tok, slt, snap, lost, stalled, twice, faults>>

\* _RELEASE_IF_OWNER: a key is deleted only while it holds this run's token.
Released(key, t) == IF key = t THEN None ELSE key

\* finally: the slot, and the lock unless the retry keeps it.
Release(w) ==
    /\ pc[w] = "release"
    /\ slot' = IF slt[w] = None THEN slot
               ELSE [slot EXCEPT ![slt[w]] = Released(@, tok[w])]
    /\ lock' = IF tok[w] = None \/ out[w] # "done" THEN lock
               ELSE [lock EXCEPT ![srv(w)] = Released(@, tok[w])]
    /\ IF out[w] = "done" THEN Ends(w)
       ELSE /\ Goto(w, "publish")
            /\ slt' = [slt EXCEPT ![w] = None]
            /\ UNCHANGED <<cur, tok, snap, out, lost>>
    /\ UNCHANGED <<dirty, waiting, attempts, hold, behind, failed, queue,
                   ghosts, faults>>

\* The retry carries the token and, after a resize, limits that fit.
PublishRetry(w) ==
    /\ pc[w] = "publish"
    /\ queue' = queue \cup {Retry(srv(w), tok[w], cur[w].sized \/ out[w] = "resize")}
    /\ Ends(w)
    /\ UNCHANGED <<redis, behind, failed, ghosts, faults>>

-----------------------------------------------------------------------------
(* Time: leases, holds and back-offs that run out. *)

\* Nobody renews it: no run has it, and no retry within its short countdown.
Orphan(t) == /\ \A w \in Worker : tok[w] # t
             /\ \A m \in queue : m.token = t => m.n > 0

LockLapses(s) ==
    /\ lock[s] # None /\ Orphan(lock[s])
    /\ lock' = [lock EXCEPT ![s] = None]
    /\ UNCHANGED <<slot, dirty, waiting, attempts, hold, behind, failed, queue, run,
                   lost, ghosts, faults>>

SlotLapses(k) ==
    /\ slot[k] # None /\ \A w \in Worker : tok[w] # slot[k] \/ slt[w] # k
    /\ slot' = [slot EXCEPT ![k] = None]
    /\ UNCHANGED <<lock, dirty, waiting, attempts, hold, behind, failed, queue, run,
                   lost, ghosts, faults>>

\* A waiter refreshes the flag every SLOT_RETRY_SECONDS, well inside its expiry.
WaitingLapses ==
    /\ waiting /\ waiting' = FALSE
    /\ \A m \in queue : m.token = None
    /\ UNCHANGED <<lock, slot, dirty, attempts, hold, behind, failed, queue, run,
                   lost, ghosts, faults>>

HoldLapses(s) ==
    /\ s \in hold /\ hold' = hold \ {s}
    /\ UNCHANGED <<lock, slot, dirty, waiting, attempts, behind, failed, queue, run,
                   lost, ghosts, faults>>

BackoffLapses(s) ==
    /\ s \in failed /\ failed' = failed \ {s}
    /\ UNCHANGED <<redis, behind, queue, run, lost, ghosts, faults>>

-----------------------------------------------------------------------------
(* Faults. *)

Fault(f) ==
    /\ f \in Faults /\ faults > 0
    /\ IF f \in Alone THEN faults = MaxFaults /\ faults' = 0 ELSE faults' = faults - 1

\* The process is killed: no finally; the broker requeues the message.
Kill(w) ==
    /\ Fault("kill") /\ Running(w)
    /\ Ends(w)
    /\ queue' = queue \cup {cur[w]}
    /\ killed' = IF pc[w] \in Unfinished /\ tok[w] # None
                   THEN [killed EXCEPT ![srv(w)] = @ + 1] ELSE killed
    /\ UNCHANGED <<redis, behind, failed, heldOnce, stalled, twice>>

\* Killed between taking the lock and publishing the retry that would keep it.
KillDeferral(w, m) ==
    /\ Fault("kill") /\ pc[w] = "idle" /\ m \in queue
    /\ Deferral(m)
    /\ queue' = (queue \ {m}) \cup {Counted(m)}

\* Redis or the broker fails under the run: it raises, releases nothing, is acked.
Abort(w) ==
    /\ Fault("abort") /\ pc[w] \in {"clear", "stored", "current", "release", "publish"}
    /\ Ends(w)
    /\ UNCHANGED <<redis, behind, failed, queue, ghosts>>

\* Redis fails at the dirty flag, still inside _acquire: it renders without any key.
FlagFails(w) ==
    /\ Fault("noredis") /\ pc[w] = "flag"
    /\ Goto(w, "clear")
    /\ UNCHANGED <<cur, tok, slt, snap, out, lost, redis, behind, failed, queue, ghosts>>

\* A lease runs out under a run that stalls, or a retry stuck past its countdown.
StallLock(s) ==
    /\ Fault("stall") /\ lock[s] # None /\ ~Orphan(lock[s])
    /\ lock' = [lock EXCEPT ![s] = None]
    /\ lost' = [w \in Worker |-> IF tok[w] = lock[s] THEN lost[w] \cup {"lock"} ELSE lost[w]]
    /\ stalled' = [stalled EXCEPT ![s] = @ + 1]
    /\ UNCHANGED <<slot, dirty, waiting, attempts, hold, behind, failed, queue, run,
                   killed, heldOnce, twice>>

StallSlot(k) ==
    /\ Fault("stall") /\ slot[k] # None
    /\ slot' = [slot EXCEPT ![k] = None]
    /\ lost' = [w \in Worker |-> IF tok[w] = slot[k] /\ slt[w] = k
                                   THEN lost[w] \cup {"slot"} ELSE lost[w]]
    /\ UNCHANGED <<lock, dirty, waiting, attempts, hold, behind, failed, queue, run,
                   ghosts>>

\* A message is lost by the broker, or was never published.
Lose(m) ==
    /\ Fault("lose") /\ m \in queue
    /\ queue' = queue \ {m}
    /\ UNCHANGED <<redis, behind, failed, run, lost, ghosts>>

\* The render raises: recorded as a failure, its count cleared, its keys released.
FailRender(w) ==
    /\ Fault("fail") /\ pc[w] \in {"read", "store"}
    /\ failed' = failed \cup {srv(w)}
    /\ snap' = [snap EXCEPT ![w] = FALSE]
    /\ Finished(w)
    /\ Goto(w, "release")
    /\ UNCHANGED <<lock, slot, dirty, waiting, hold, behind, queue, cur, tok, slt, out, lost, stalled, twice>>

\* Redis is unreachable when the run starts: it renders without any key.
RunWithoutRedis(w, m) ==
    /\ Fault("noredis") /\ Deliver(w, m)
    /\ Goto(w, "clear")
    /\ UNCHANGED <<tok, slt, out, redis, behind, failed, ghosts>>

\* The broker's visibility timeout passes before the run acks: delivered again.
Redeliver(w) ==
    /\ Fault("redeliver") /\ Running(w)
    /\ queue' = queue \cup {cur[w]}
    /\ twice' = twice \cup ({cur[w].token} \ {None})
    /\ UNCHANGED <<redis, behind, failed, run, lost, killed, heldOnce, stalled>>

-----------------------------------------------------------------------------
Acquire(w, m) == AcquireHeld(w, m) \/ AcquireDeferred(w, m) \/ AcquireCoalesced(w, m)

Receive(w, m) == Acquire(w, m) \/ TooManyDeliveries(w, m)

Step(w) ==
    \/ SetDirty(w) \/ Verdict(w) \/ RecordAbandoned(w) \/ StartRender(w) \/ ReadServer(w)
    \/ StoreBundle(w) \/ AfterRender(w) \/ Release(w) \/ PublishRetry(w)

Lapse == \/ \E s \in Server : LockLapses(s) \/ HoldLapses(s) \/ BackoffLapses(s)
         \/ \E k \in Slot : SlotLapses(k)

\* The server's next message, a retry before a new request.
NextMessage(s, m) ==
    /\ m.server = s
    /\ m.token = None => \A r \in queue : r.server = s => r.token = None

AnyFault ==
    \/ \E w \in Worker : Kill(w) \/ Abort(w) \/ FlagFails(w) \/ FailRender(w) \/ Redeliver(w)
    \/ \E s \in Server : StallLock(s)
    \/ \E k \in Slot : StallSlot(k)
    \/ \E m \in queue : Lose(m)
    \/ \E w \in Worker : \E m \in queue : KillDeferral(w, m) \/ RunWithoutRedis(w, m)

Next ==
    \/ \E s \in Server : Change(s)
    \/ Sweep
    \/ \E w \in Worker : \E m \in queue : Receive(w, m)
    \/ \E w \in Worker : Step(w)
    \/ Lapse
    \/ WaitingLapses
    \/ AnyFault

Spec == Init /\ [][Next]_vars

\* Workers take messages and go on, the beat ticks, leases and holds run out.  A
\* retry comes back every SLOT_RETRY_SECONDS, a run that handed its slot on a
\* second later: a slot that is freed again and again is found free (SF).
Fairness ==
    /\ \A w \in Worker : WF_vars(Step(w))
    /\ WF_vars(Sweep) /\ WF_vars(Lapse)
    /\ \A s \in Server :
         /\ SF_vars(\E w \in Worker, m \in queue : NextMessage(s, m) /\ Receive(w, m))
         /\ SF_vars(\E w \in Worker, m \in queue : NextMessage(s, m) /\ AcquireHeld(w, m))

FairSpec == Spec /\ Fairness

-----------------------------------------------------------------------------
\* Every variable keeps its type: the unfinished-render count above all is never
\* taken below zero by a run that finishes after the hold has reset it.
TypeOK ==
    /\ lock \in [Server -> Token \cup {None}]
    /\ slot \in [Slot -> Token \cup {None}]
    /\ dirty \subseteq Server /\ hold \subseteq Server
    /\ behind \subseteq Server /\ failed \subseteq Server /\ heldOnce \subseteq Server
    /\ waiting \in BOOLEAN
    /\ attempts \in [Server -> Nat] /\ killed \in [Server -> Nat]
    /\ stalled \in [Server -> Nat] /\ twice \subseteq Token
    /\ queue \subseteq Message
    /\ pc \in [Worker -> Keyed \cup {"idle", "flag", "publish"}]
    /\ cur \in [Worker -> Message \cup {None}]
    /\ \A w \in Worker : Running(w) => cur[w] \in Message
    /\ tok \in [Worker -> Token \cup {None}]
    /\ slt \in [Worker -> Slot \cup {None}]
    /\ snap \in [Worker -> BOOLEAN]
    /\ out \in [Worker -> {"done", "retry", "resize"}]
    /\ lost \in [Worker -> SUBSET {"lock", "slot"}]
    /\ faults \in 0..MaxFaults

\* A run that holds its keys, or believes so.
Holds(w) == pc[w] \in Keyed /\ tok[w] # None

\* Two runs hold one server's lock at a time only if a lease ran out under one of
\* them, or the broker delivered the retry of one twice: in particular no run
\* frees a lock that has passed to another one (_RELEASE_IF_OWNER, _acquire).
OneRenderPerServer ==
    \A v, w \in Worker :
        v # w /\ Holds(v) /\ Holds(w) /\ srv(v) = srv(w)
            => \/ "lock" \in lost[v] \cup lost[w]
               \/ tok[v] \in twice \/ tok[w] \in twice

\* The same for a slot key, so no more renders than slots run at once unless a
\* lease ran out: the slot a run releases is the one it took, while it has it.
SlotsRespected ==
    \A v, w \in Worker :
        v # w /\ Holds(v) /\ Holds(w) /\ slt[v] = slt[w]
            => \/ "slot" \in lost[v] \cup lost[w]
               \/ tok[v] \in twice \/ tok[w] \in twice

\* A server whose renders keep dying costs ABANDONED_RENDER_LIMIT processes before
\* it is held and one per hold after that, whoever sends the messages.  Each lock
\* that ran out under a live run can cost one more, and one more on top: such a run
\* goes on, and clears the count of the others when it finishes (_abandoned_verdict,
\* _render_counted).  No promise once a retry was delivered again while it ran.
KillsPaced ==
    twice = {} =>
        \A s \in Server :
            killed[s] <= (IF s \in heldOnce THEN 1 ELSE ABANDONED_RENDER_LIMIT)
                           + (IF stalled[s] = 0 THEN 0 ELSE stalled[s] + 1)

\* A server that is behind its marks is stored again: whatever was killed, lost or
\* failed, whatever flag was set after the holder looked at it, and however often
\* the other servers change (_sweep, hand-on in _run).
EventuallyRendered ==
    \A s \in Server : s \in behind ~> \E w \in Worker : pc[w] = "stored" /\ srv(w) = s

=============================================================================
