------------------------------ MODULE DNSBundle ------------------------------
(***************************************************************************)
(* The stored configuration bundle of ONE agent-based DNS server: how a    *)
(* committed change marks it dirty, how a render reads the database and    *)
(* stores a body, which body a long-poll serves with which record ops, and *)
(* what the agent then serves.                                             *)
(*                                                                         *)
(* Control plane: services/dns/bundle_dirty.py (the mark),                 *)
(* agent_bundle_render.py and agent_bundle_store.py (the render),          *)
(* agent_config.py (the gate), api/v1/dns/agents.py (the poll).            *)
(* Agent: spatium_dns_agent/sync.py and cache.py.                          *)
(*                                                                         *)
(* Data abstraction.  The mark is made under the server row's lock just    *)
(* before COMMIT, so the changes that feed one server's bundle commit in   *)
(* the order of their marks: `committed' is both bundle_dirty_seq and the  *)
(* number of committed changes, and a database snapshot, or a body read in *)
(* one, is the number of changes it sees.  Every record change adds a      *)
(* record of its own, so no op supersedes another (DNSRecordOps has that,  *)
(* and the pauses of a server in maintenance mode).                        *)
(***************************************************************************)
EXTENDS Integers, FiniteSets

CONSTANTS
    Renderer,     \* who may render: the worker, and the api's inline fallback
    ViewModes,    \* the groups in question: with split-horizon views, without
    KeepVersions, \* settings.dns_agent_bundle_keep_versions
    MAX_OP_ATTEMPTS,
    MaxWrites,    \* bound: changes ever committed
    MaxRestarts   \* bound: agent restarts

ASSUME BundleAssumption ==
    /\ ViewModes \subseteq BOOLEAN
    /\ {KeepVersions, MAX_OP_ATTEMPTS} \subseteq Nat \ {0}
    /\ MaxWrites \in Nat
    /\ MaxRestarts \in Nat

Write == 1 .. MaxWrites
Version == 0 .. MaxWrites
None == -1

VARIABLES
    views,     \* does the server's group use split-horizon views?  Fixed
    committed, \* server.bundle_dirty_seq
    kind,      \* what each committed change was
    opState,   \* the record op each record change queued
    attempts,  \* and the attempts counted at it
    watermark, \* server.bundle_watermark, None before the first render
    rows,      \* dns_agent_bundle: the stored bundles
    render,    \* the render each renderer has under way
    poll,      \* the bundle the agent's long-poll has read
    held,      \* the body in the agent's cache
    rendered,  \* the body the daemon's files were last rendered from
    fetched,   \* has a body been saved and not yet compared with `rendered'?
    inbox,     \* the ops of the last answer, not yet applied
    live,      \* the record changes the daemon serves
    restarts   \* restarts so far

agentVars == <<held, rendered, fetched, inbox, live, restarts>>
opVars == <<opState, attempts>>
vars == <<views, committed, kind, opVars, watermark, rows, render, poll, agentVars>>

\* A stored bundle: the sequence it claims, the snapshot it was gated at, and
\* what its body has read.
Bundle == [w : Version, snap : Version, body : Version]
RenderState == [phase : {"idle", "marked", "gated", "read"},
                w : Version, snap : Version, body : Version]
Idle == [phase |-> "idle", w |-> 0, snap |-> 0, body |-> 0]
PollState == [open : BOOLEAN, w : Version, snap : Version, body : Version]
NoPoll == [open |-> FALSE, w |-> 0, snap |-> 0, body |-> 0]

OpState == {"none", "pending", "in_flight", "applied", "failed"}

\* Every variable keeps its type, versions within the changes that can be made
\* and the attempts at an op within its budget.
TypeOK ==
    /\ views \in BOOLEAN
    /\ committed \in Version
    /\ kind \in [Write -> {"none", "record", "structural"}]
    /\ opState \in [Write -> OpState]
    /\ attempts \in [Write -> 0 .. MAX_OP_ATTEMPTS]
    /\ watermark \in Version \cup {None}
    /\ rows \in SUBSET Bundle
    /\ render \in [Renderer -> RenderState]
    /\ poll \in PollState
    /\ held \in Version \cup {None}
    /\ rendered \in Version \cup {None}
    /\ fetched \in BOOLEAN
    /\ inbox \in SUBSET Write
    /\ live \in SUBSET Write
    /\ restarts \in 0 .. MaxRestarts

Init ==
    /\ views \in ViewModes
    /\ committed = 0
    /\ kind = [n \in Write |-> "none"]
    /\ opState = [n \in Write |-> "none"]
    /\ attempts = [n \in Write |-> 0]
    /\ watermark = None
    /\ rows = {}
    /\ render = [r \in Renderer |-> Idle]
    /\ poll = NoPoll
    /\ held = None
    /\ rendered = None
    /\ fetched = FALSE
    /\ inbox = {}
    /\ live = {}
    /\ restarts = 0

-----------------------------------------------------------------------------
(* A change commits: its rows, its record op if it has one, and the mark,  *)
(* in one transaction.                                                     *)

Commit(k) ==
    /\ committed < MaxWrites
    /\ committed' = committed + 1
    /\ kind' = [kind EXCEPT ![committed + 1] = k]
    /\ opState' = [opState EXCEPT ![committed + 1] =
                     IF k = "record" THEN "pending" ELSE "none"]
    /\ attempts' = [attempts EXCEPT ![committed + 1] = 0]
    /\ UNCHANGED <<views, watermark, rows, render, poll, agentVars>>

-----------------------------------------------------------------------------
(* The render.  Its order is load-bearing: the sequence, then the snapshot *)
(* the ops are gated at, then the content, each a statement of its own     *)
(* under READ COMMITTED; then everything it writes, in one commit.         *)

IsCurrent == watermark # None /\ watermark >= committed

\* Nothing is rendered for a server whose bundle is current.
RenderStart(r) ==
    /\ render[r].phase = "idle"
    /\ ~ IsCurrent
    /\ render' = [render EXCEPT ![r] = [Idle EXCEPT !.phase = "marked",
                                                    !.w = committed]]
    /\ UNCHANGED <<views, committed, kind, opVars, watermark, rows, poll, agentVars>>

RenderSnapshot(r) ==
    /\ render[r].phase = "marked"
    /\ render' = [render EXCEPT ![r].phase = "gated", ![r].snap = committed]
    /\ UNCHANGED <<views, committed, kind, opVars, watermark, rows, poll, agentVars>>

RenderBody(r) ==
    /\ render[r].phase = "gated"
    /\ render' = [render EXCEPT ![r].phase = "read", ![r].body = committed]
    /\ UNCHANGED <<views, committed, kind, opVars, watermark, rows, poll, agentVars>>

\* Mutant of CoveredBy: the gate is gone.
CoveredAlways(n, snap) == TRUE

\* The op of change n committed before a render gated at `snap' read.
CoveredBy(n, snap) == n =< snap

\* Split-horizon: the body carries the record changes, so the queued ops it
\* covers are retired rather than shipped (the server is not in maintenance).
Retired(snap) ==
    [n \in Write |-> IF /\ views
                        /\ opState[n] \in {"pending", "in_flight"}
                        /\ CoveredBy(n, snap)
                     THEN "applied" ELSE opState[n]]

\* The newest KeepVersions bundles are kept.
Prune(R) == {x \in R : Cardinality({y \in R : y.w > x.w}) < KeepVersions}

\* Mutant of RenderStore: the sequence is read last, after the body.
RenderStoreSeqLast(r) ==
    LET new == [w |-> committed, snap |-> render[r].snap, body |-> render[r].body]
        lost == \E x \in rows : x.w = new.w
    IN  /\ render[r].phase = "read"
        /\ opState' = Retired(new.snap)
        /\ rows' = IF lost THEN rows ELSE Prune(rows \cup {new})
        /\ watermark' = IF ~ lost /\ (watermark = None \/ watermark =< new.w)
                        THEN new.w ELSE watermark
        /\ render' = [render EXCEPT ![r] = Idle]
        /\ UNCHANGED <<views, committed, kind, attempts, poll, agentVars>>

\* The retire comes first and commits whether or not the store wrote a row:
\* it does not when a row for this watermark exists already.
RenderStore(r) ==
    LET new == [w |-> render[r].w, snap |-> render[r].snap,
                body |-> render[r].body]
        lost == \E x \in rows : x.w = new.w
    IN  /\ render[r].phase = "read"
        /\ opState' = Retired(new.snap)
        /\ rows' = IF lost THEN rows ELSE Prune(rows \cup {new})
        /\ watermark' = IF ~ lost /\ (watermark = None \/ watermark =< new.w)
                        THEN new.w ELSE watermark
        /\ render' = [render EXCEPT ![r] = Idle]
        /\ UNCHANGED <<views, committed, kind, attempts, poll, agentVars>>

\* The render raises, times out or dies with its process.
RenderFail(r) ==
    /\ render[r].phase # "idle"
    /\ render' = [render EXCEPT ![r] = Idle]
    /\ UNCHANGED <<views, committed, kind, opVars, watermark, rows, poll, agentVars>>

-----------------------------------------------------------------------------
(* The long-poll.                                                          *)

Served == CHOOSE x \in rows : x.w = watermark

\* One pass reads the newest stored bundle, current or not.  The agent polls
\* once it has dealt with the last answer.
PollRead ==
    /\ ~ poll.open /\ ~ fetched /\ inbox = {}
    /\ watermark # None
    /\ poll' = [open |-> TRUE, w |-> Served.w, snap |-> Served.snap,
                body |-> Served.body]
    /\ UNCHANGED <<views, committed, kind, opVars, watermark, rows, render, agentVars>>

\* Mutant of PollPage: the op gate is left out.
PollPageUngated == IF views THEN {} ELSE {n \in Write : opState[n] = "pending"}

\* What page_pending_ops ships: pending and covered by the bundle read; under
\* views the ops are retired, none is shipped.
PollPage == IF views THEN {}
            ELSE {n \in Write : opState[n] = "pending" /\ CoveredBy(n, poll.snap)}

StillStored == [w |-> poll.w, snap |-> poll.snap, body |-> poll.body] \in rows

\* 200 with the body and a page of ops.  The answer reaches the agent, which
\* saves the body before anything else, or it is lost.
PollServe(delivered) ==
    /\ poll.open /\ StillStored
    /\ PollPage # {} \/ poll.body # held
    /\ opState' = [n \in Write |-> IF n \in PollPage THEN "in_flight"
                                   ELSE opState[n]]
    /\ held' = IF delivered THEN poll.body ELSE held
    /\ inbox' = IF delivered THEN PollPage ELSE inbox
    /\ fetched' = delivered
    /\ poll' = NoPoll
    /\ UNCHANGED <<views, committed, kind, attempts, watermark, rows, render,
                   rendered, live, restarts>>

\* Nothing for this agent (304 or wait), or the bundle was pruned after it
\* was read (roll the page back): the next pass reads again.
PollAgain ==
    /\ poll.open
    /\ ~ StillStored \/ (PollPage = {} /\ poll.body = held)
    /\ poll' = NoPoll
    /\ UNCHANGED <<views, committed, kind, opVars, watermark, rows, render, agentVars>>

-----------------------------------------------------------------------------
(* The agent.                                                              *)

RecordsIn(body) == {n \in 1 .. body : kind[n] = "record"}

\* Mutant of StructuralEtag: the records are left out under views too.
StructuralEtagNoRecords(body) == {n \in 1 .. body : kind[n] = "structural"}

\* structural_etag: under views it covers the records too.
StructuralEtag(body) ==
    IF views THEN 1 .. body ELSE {n \in 1 .. body : kind[n] = "structural"}

\* Render and reload the daemon only when the structure changed.
AgentReload ==
    /\ fetched
    /\ fetched' = FALSE
    /\ IF rendered = None \/ StructuralEtag(held) # StructuralEtag(rendered)
       THEN rendered' = held /\ live' = RecordsIn(held)
       ELSE UNCHANGED <<rendered, live>>
    /\ UNCHANGED <<views, committed, kind, opVars, watermark, rows, render, poll,
                   held, inbox, restarts>>

\* Mutant of FailAttempt: no attempt is the last.
FailAttemptForEver(n) ==
    /\ attempts' = [attempts EXCEPT ![n] = @ + 1]
    /\ opState' = [opState EXCEPT ![n] = "pending"]

\* fail_attempts: back to pending, or failed once the budget is spent.
FailAttempt(n) ==
    /\ attempts' = [attempts EXCEPT ![n] = @ + 1]
    /\ opState' = [opState EXCEPT ![n] =
                     IF attempts[n] + 1 >= MAX_OP_ATTEMPTS THEN "failed" ELSE "pending"]

\* Apply one op and acknowledge it, or report an error: a failed attempt.
AgentApplyOp(ok) ==
    /\ ~ fetched
    /\ \E n \in inbox :
          /\ inbox' = inbox \ {n}
          /\ \/ /\ ok /\ live' = live \cup {n}
                /\ opState' = [opState EXCEPT ![n] = "applied"]
                /\ attempts' = [attempts EXCEPT ![n] =
                                  IF opState[n] = "in_flight" THEN @ + 1 ELSE @]
             \/ /\ ~ ok /\ UNCHANGED live
                /\ IF opState[n] = "in_flight" THEN FailAttempt(n)
                   ELSE UNCHANGED opVars
    /\ UNCHANGED <<views, committed, kind, watermark, rows, render, poll, held,
                   rendered, fetched, restarts>>

\* An op that was shipped and never acknowledged is a failed attempt.
OpReturned(n) ==
    /\ opState[n] = "in_flight"
    /\ n \notin inbox
    /\ FailAttempt(n)
    /\ UNCHANGED <<views, committed, kind, watermark, rows, render, poll, agentVars>>

\* Mutants of AgentRestart: from the body last rendered rather than the one
\* last saved; and with nothing served until the next answer.
AgentRestartFromRendered ==
    /\ restarts < MaxRestarts
    /\ held # None /\ rendered # None
    /\ restarts' = restarts + 1
    /\ poll' = NoPoll
    /\ fetched' = FALSE
    /\ inbox' = {}
    /\ held' = rendered
    /\ live' = RecordsIn(rendered)
    /\ UNCHANGED <<views, committed, kind, opVars, watermark, rows, render, rendered>>
AgentRestartEmpty ==
    /\ restarts < MaxRestarts
    /\ held # None
    /\ restarts' = restarts + 1
    /\ poll' = NoPoll
    /\ fetched' = FALSE
    /\ inbox' = {}
    /\ rendered' = held
    /\ live' = {}
    /\ UNCHANGED <<views, committed, kind, opVars, watermark, rows, render, held>>

\* The agent and its daemon start again from the cached body.
AgentRestart ==
    /\ restarts < MaxRestarts
    /\ held # None
    /\ restarts' = restarts + 1
    /\ poll' = NoPoll
    /\ fetched' = FALSE
    /\ inbox' = {}
    /\ rendered' = held
    /\ live' = RecordsIn(held)
    /\ UNCHANGED <<views, committed, kind, opVars, watermark, rows, render, held>>

-----------------------------------------------------------------------------
Next ==
    \/ \E k \in {"record", "structural"} : Commit(k)
    \/ \E r \in Renderer : RenderStart(r)
    \/ \E r \in Renderer : RenderSnapshot(r)
    \/ \E r \in Renderer : RenderBody(r)
    \/ \E r \in Renderer : RenderStore(r)
    \/ \E r \in Renderer : RenderFail(r)
    \/ PollRead
    \/ \E d \in BOOLEAN : PollServe(d)
    \/ PollAgain
    \/ AgentReload
    \/ \E ok \in BOOLEAN : AgentApplyOp(ok)
    \/ \E n \in Write : OpReturned(n)
    \/ AgentRestart

Spec == Init /\ [][Next]_vars

\* The agent's sync thread: one of these at a time.
SyncLoop == PollRead \/ PollAgain \/ AgentReload \/ \E ok \in BOOLEAN : AgentApplyOp(ok)

\* Fairness.  The sweep re-enqueues a bundle that is behind every 30 s and
\* renders do not fail at the same point for ever; the agent polls for ever and
\* not every answer is lost; unacknowledged ops are returned.  Nothing is said
\* of whether an op succeeds.
Fairness ==
    /\ \A r \in Renderer : /\ WF_vars(RenderStart(r))
                           /\ SF_vars(RenderSnapshot(r))
                           /\ SF_vars(RenderBody(r))
                           /\ SF_vars(RenderStore(r))
    /\ WF_vars(SyncLoop)
    /\ SF_vars(PollServe(TRUE))
    /\ WF_vars(\E n \in Write : OpReturned(n))

FairSpec == Spec /\ Fairness

-----------------------------------------------------------------------------
(* Properties.                                                             *)

\* A bundle that passes is_current has read every committed change, and its
\* row is there to serve ("stale served as current, the one failure this
\* design exists to rule out"), whoever rendered beside whom.
CurrentIsComplete ==
    IsCurrent => \E x \in rows : x.w = watermark /\ x.body = committed

\* "Every body an agent holds is ... a superset of every op it has applied":
\* otherwise a later structural re-render, or a restart replaying the cached
\* bundle, drops a record the agent already applied incrementally.
HeldCoversApplied ==
    ~ views => \A n \in Write : opState[n] = "applied" => n =< held

\* While renders do not overlap, the body the agent has never goes back,
\* through pruning between a poll's two reads, lost answers and a restart from
\* the cache (save_config, agent_bundle_store.store).
HeldForward == [][held' >= held]_vars

\* Under views an op is marked applied only by a render whose body the agents
\* are being served: the bundle at the watermark has the op's record.
RetiredIsCarried ==
    views => \A n \in Write :
                opState[n] = "applied" => watermark # None /\ n =< Served.body

\* The detailed system keeps the promise of RecordDelivery: only committed
\* records are served, none is dropped again, and in the end every one is
\* served or its op is marked failed, whatever renders, answers, ops and the
\* agent go through.
Delivery == INSTANCE RecordDelivery
    WITH records <- {n \in Write : kind[n] = "record"}, served <- live,
         failed <- {n \in Write : opState[n] = "failed"}
DeliversRecords == Delivery!DeliverySafety
DeliversEveryRecord == Delivery!DeliverySpec
=============================================================================
