--------------------------- MODULE DNSAgentApply ---------------------------
(***************************************************************************)
(* How the DNS agent applies a bundle and survives one that kills its      *)
(* daemon (agent/dns/spatium_dns_agent: sync.py, apply_guard.py,           *)
(* config_apply.py, cache.py, supervisor.py).  The agent and its daemon    *)
(* live and die together; what outlives them is on disk: the cached        *)
(* bundle, the last-known-good one, the rendered tree, the quarantine and  *)
(* the guard's marker with its death counts.                               *)
(*                                                                         *)
(* A bundle is a structure and a revision of its records; the pair is its  *)
(* etag.  What an apply makes of it depends on the structure only.         *)
(***************************************************************************)
EXTENDS Integers, FiniteSets

CONSTANTS
    Struct,         \* structural etags
    Rev,            \* record revisions of each
    Killer,         \* structures the daemon dies of before SETTLE_SECONDS have passed
    Broken,         \* structures whose apply fails, before the swap or at the reload
    None,
    Half, Exited,   \* a daemon whose last reload failed, and one that has exited
    Keep,           \* "leave _current_etag alone", after an apply
    MAX_TRACKED,
    SYNC_FIRST_AFTER_DEATHS,
    QUARANTINE_AFTER_DEATHS,
    DeathCap,       \* counts saturate here: readers compare them with the two above
    MaxEvents       \* what the operator saves and what goes wrong by chance, together

Bundle == Struct \X Rev
S(b) == b[1]
MaybeBundle == Bundle \cup {None}

\* The ways a bundle is applied, and an apply in flight: what it is for, what failed
\* before it, and where the handler goes on with which etag.
Kinds == {"boot", "bootprev", "bootfall", "cache", "cachefall", "heldback", "holdprev",
          "poll", "revert"}
Jobs == [kind : Kinds, bundle : Bundle, failed : MaybeBundle, then : MaybeBundle \cup {Keep},
         ret : {"launch", "top", "ask"}]

ASSUME ConstantsAssumption ==
    /\ Killer \cup Broken \subseteq Struct
    /\ None \notin Struct \cup Bundle \cup Jobs /\ Keep \notin Bundle \cup {None}
    /\ Half \notin Bundle \cup {None, Exited} /\ Exited \notin Bundle \cup {None}
    /\ {MAX_TRACKED, SYNC_FIRST_AFTER_DEATHS, QUARANTINE_AFTER_DEATHS} \subseteq Nat \ {0}
    /\ DeathCap \in Nat /\ DeathCap >= QUARANTINE_AFTER_DEATHS
    /\ SYNC_FIRST_AFTER_DEATHS <= QUARANTINE_AFTER_DEATHS
    /\ MaxEvents \in Nat

VARIABLES
    \* disk
    current,        \* the bundle last fetched (current.json)
    previous,       \* the last one that applied (previous.json)
    tree,           \* the bundle rendered/ holds
    quarantine,     \* etag, structural and whether its retry is due
    armed,          \* the guard's marker
    deaths,         \* [Bundle -> deaths counted]
    observed,       \* [Bundle -> those the agent watched]
    \* the agent process
    pc,
    job,            \* the guarded apply in flight, None between applies
    died,           \* the death this start counted
    currentEtag,    \* _current_etag
    currentStruct,  \* _current_structural_etag
    hold,           \* the bundle held back at startup
    onPrevious,     \* _boot_hold_on_previous
    waited,         \* the hold's wait: "no" answer yet, "some", or it is "over"
    applied,        \* the settle clock runs
    status,         \* the verdict of the heartbeat and the etag it says is live
    \* the daemon
    daemon,         \* the bundle it loaded, or None, Half, Exited
    \* the control plane and the world
    served, cp, events

disk == <<current, previous, tree, quarantine, armed, deaths, observed>>
memory == <<pc, job, died, currentEtag, currentStruct, hold, onPrevious, waited, applied, status>>
world == <<served, cp, events>>
vars == <<disk, memory, daemon, world>>

Verdict == {"ok", "reverted", "no_previous", "revert_failed"}
NoQuarantine == [etag |-> None, structural |-> None, due |-> FALSE]
Record(b, st) == [etag |-> b, structural |-> st, due |-> FALSE]

Init ==
    /\ current = None /\ previous = None /\ tree = None /\ armed = None
    /\ quarantine = NoQuarantine
    /\ deaths = [b \in Bundle |-> 0] /\ observed = [b \in Bundle |-> 0]
    /\ pc = "down" /\ job = None /\ died = None
    /\ currentEtag = None /\ currentStruct = None
    /\ hold = None /\ onPrevious = FALSE /\ waited = "no" /\ applied = FALSE
    /\ status = <<"ok", None>>
    /\ daemon = None
    /\ served \in Bundle /\ cp = "up" /\ events = MaxEvents

-----------------------------------------------------------------------------
(* The guard and the quarantine. *)

Up == daemon \in Bundle \cup {Half}

Plus(n) == IF n < DeathCap THEN n + 1 ELSE n

Condemned(b) == b # None /\ observed[b] >= QUARANTINE_AFTER_DEATHS


\* The rule that keeps the cached bundle from being applied before a sync.
HeldBack(b) == deaths[b] >= SYNC_FIRST_AFTER_DEATHS

\* Compared by structure when both sides have one.
SameStructure(q, b, st) ==
    /\ q.etag # None /\ b # None
    /\ IF q.structural # None /\ st # None THEN st = q.structural ELSE b = q.etag

Blocks(q, b, st) == SameStructure(q, b, st) /\ ~q.due
RetryDue(q) == q.etag # None /\ q.due

\* Mutant: a last-known-good the daemon was seen to die on will do.
PreviousUsableCondemned(b, beforeSync) ==
    previous # None /\ previous # b /\ (beforeSync => deaths[previous] = 0)

\* _previous_usable: is the last-known-good a fallback for this bundle?
PreviousUsable(b, beforeSync) ==
    /\ previous # None /\ previous # b /\ ~Condemned(previous)
    /\ beforeSync => deaths[previous] = 0

-----------------------------------------------------------------------------
(* One guarded apply and what follows it. *)

Choice(k, b) == [kind |-> k, bundle |-> b]
NoChoice == Choice("none", None)

\* _boot_hold_fallback: nothing usable came while the cache is held (failed: the
\* control plane's own bundle, when it failed to apply).
HoldChoice(q, failed) ==
    IF hold = None \/ onPrevious THEN NoChoice
    ELSE IF ~Condemned(hold) /\ q.etag # hold
      THEN Choice(IF failed = None THEN "cache" ELSE "heldback", hold)
    ELSE IF previous # failed /\ PreviousUsable(hold, FALSE) THEN Choice("holdprev", previous)
    ELSE IF RetryDue(q) THEN Choice("cache", hold)
    ELSE NoChoice

\* _guarded_apply: the marker is armed before the apply.  A bundle applied from
\* disk is the current etag meanwhile; then is what the caller leaves there.
Begin(c, etag, failed, then, ret) ==
    /\ job' = [kind |-> c.kind, bundle |-> c.bundle, failed |-> failed, then |-> then, ret |-> ret]
    /\ armed' = c.bundle /\ applied' = FALSE
    /\ currentEtag' = IF c.kind \in {"poll", "revert", "bootfall", "cachefall"}
                        THEN etag ELSE c.bundle
    /\ UNCHANGED pc

\* No apply (any more): the handler goes on at ret.
Return(marker, etag, then, ret) ==
    /\ job' = None /\ pc' = ret
    /\ armed' = marker /\ applied' = (applied /\ marker # None)
    /\ currentEtag' = IF then = Keep THEN etag ELSE then

Proceed(c, marker, etag, failed, then, ret) ==
    IF c = NoChoice THEN Return(marker, etag, then, ret) ELSE Begin(c, etag, failed, then, ret)

\* _report_applied: what an ok is about.
Reported == job.bundle

\* driver.apply_config returned.  A bundle of the control plane, and a cache that
\* is applied as such, are ok and committed as last-known-good; the others are a
\* revert.  Whatever went live ends the hold, except the last-known-good that
\* stands in for it.
ApplyOk ==
    /\ job # None /\ S(job.bundle) \notin Broken
    /\ tree' = job.bundle /\ daemon' = job.bundle
    /\ applied' = TRUE
    /\ currentStruct' = S(job.bundle)
    /\ currentEtag' = IF job.then = Keep THEN job.bundle ELSE job.then
    /\ IF job.kind \in {"boot", "cache", "poll"}
         THEN /\ status' = <<"ok", Reported>>
              /\ previous' = IF current = job.bundle THEN job.bundle ELSE previous
         ELSE status' = <<"reverted", job.bundle>> /\ UNCHANGED previous
    /\ quarantine' = IF job.kind = "poll" THEN NoQuarantine ELSE quarantine
    /\ hold' = IF job.kind \in {"cache", "heldback", "revert", "poll"} THEN None ELSE hold
    /\ onPrevious' = \/ job.kind = "holdprev"
                     \/ job.kind = "cachefall" /\ job.ret = "ask"
    /\ waited' = IF hold' = None THEN "no" ELSE waited
    /\ job' = None /\ pc' = job.ret
    /\ UNCHANGED <<current, armed, deaths, observed, died, world>>

\* What a failed apply leaves: a refused staging tree touches nothing, a swap that
\* the daemon refused leaves the new tree and a daemon nobody can vouch for.
Disturbs(reload) ==
    IF reload THEN /\ tree' = job.bundle
                   /\ daemon' = IF Up THEN Half ELSE Exited
              ELSE UNCHANGED <<tree, daemon>>

\* The cached bundle failed at startup or for a hold: quarantined, and the
\* last-known-good in its place (_bootstrap_fallback).
CacheFails ==
    /\ job.kind \in {"boot", "cache"}
    /\ quarantine' = Record(job.bundle, S(job.bundle))
    /\ LET usable == PreviousUsable(job.bundle, job.kind = "boot")
           fall == IF job.kind = "boot" THEN "bootfall" ELSE "cachefall"
       IN /\ Proceed(IF usable THEN Choice(fall, previous) ELSE NoChoice,
                     None, currentEtag, job.failed, job.then, job.ret)
          /\ status' = IF usable THEN status ELSE <<"no_previous", None>>
    /\ UNCHANGED currentStruct

\* A stand-in failed too: nothing more is tried and nothing is quarantined.
StandInFails ==
    /\ job.kind \in {"bootprev", "bootfall", "cachefall", "heldback", "holdprev"}
    /\ Return(None, currentEtag, job.then, job.ret)
    /\ status' = <<"revert_failed", None>>
    /\ UNCHANGED <<quarantine, currentStruct>>

\* Mutant: the fingerprint is kept although nothing could be put back.
BundleFailsKeeps(reload) ==
    /\ job.kind = "poll"
    /\ quarantine' = Record(job.bundle, S(job.bundle))
    /\ LET usable == PreviousUsable(job.bundle, FALSE)
       IN /\ status' = IF usable THEN (IF reload THEN status ELSE <<"reverted", previous>>)
                     ELSE <<"no_previous", None>>
          /\ UNCHANGED currentStruct
          /\ Proceed(IF usable /\ reload THEN Choice("revert", previous)
                       ELSE HoldChoice(quarantine', job.bundle),
                     None, currentEtag, job.bundle, job.then, job.ret)

\* _handle_apply_failure: the control plane's bundle failed.  Quarantine it, then
\* revert if the daemon was disturbed; without one, a held cache may serve.
BundleFails(reload) ==
    /\ job.kind = "poll"
    /\ quarantine' = Record(job.bundle, S(job.bundle))
    /\ LET usable == PreviousUsable(job.bundle, FALSE)
       IN /\ status' = IF usable THEN (IF reload THEN status ELSE <<"reverted", previous>>)
                     ELSE <<"no_previous", None>>
          /\ currentStruct' = IF reload /\ ~usable THEN None ELSE currentStruct
          /\ Proceed(IF usable /\ reload THEN Choice("revert", previous)
                       ELSE HoldChoice(quarantine', job.bundle),
                     None, currentEtag, job.bundle, job.then, job.ret)

\* The revert did not land either: what is live is unknown.
RevertFails ==
    /\ job.kind = "revert"
    /\ currentStruct' = None
    /\ status' = <<"revert_failed", None>>
    /\ Proceed(HoldChoice(quarantine, job.failed), None, currentEtag, job.failed, job.then, job.ret)
    /\ UNCHANGED quarantine

\* One of the bounded number of saves and mishaps.
Event == events > 0 /\ events' = events - 1
Fault == Event /\ UNCHANGED <<served, cp>>

ApplyFails(reload) ==
    /\ job # None
    /\ Disturbs(reload)
    /\ CacheFails \/ StandInFails \/ BundleFails(reload) \/ RevertFails
    /\ UNCHANGED <<current, previous, deaths, observed, died, hold, onPrevious, waited>>

\* The apply fails, of the bundle's own doing or for another reason (a full disk, a
\* timeout).
Refused ==
    /\ job # None
    /\ \/ S(job.bundle) \in Broken /\ UNCHANGED world
       \/ Fault
    /\ \E reload \in BOOLEAN : ApplyFails(reload)

-----------------------------------------------------------------------------
(* Startup. *)

\* The bundles with a death other than b, and those of them with the fewest.
Others(count, b) == {c \in Bundle : count[c] > 0} \ {b}
Fewest(count, b) == {c \in Others(count, b) : \A d \in Others(count, b) : count[c] <= count[d]}

\* Mutant: one bundle more than MAX_TRACKED is kept.
ForgottenLate(count, b) ==
    IF Cardinality(Others(count, b)) <= MAX_TRACKED THEN {{}}
    ELSE {{c} : c \in Fewest(count, b)}

\* Past MAX_TRACKED bundles, one of those with the fewest deaths is forgotten.
Forgotten(count, b) ==
    IF Cardinality(Others(count, b)) < MAX_TRACKED THEN {{}}
    ELSE {{c} : c \in Fewest(count, b)}

\* ApplyGuard.startup: a marker left armed is one death of the bundle it names.
Startup ==
    /\ pc = "down" /\ pc' = "load"
    /\ died' = armed /\ armed' = None
    /\ IF armed = None THEN UNCHANGED <<deaths, observed>>
       ELSE LET counted == [deaths EXCEPT ![armed] = Plus(@)]
            IN \E out \in Forgotten(counted, armed) :
                 /\ deaths' = [b \in Bundle |-> IF b \in out THEN 0 ELSE counted[b]]
                 /\ observed' = [b \in Bundle |-> IF deaths'[b] = 0 THEN 0 ELSE observed[b]]
    /\ UNCHANGED <<current, previous, tree, quarantine, job, currentEtag, currentStruct,
                   hold, onPrevious, waited, applied, status, daemon, world>>

\* Only watched deaths quarantine a cached bundle, and under its etag alone.
QuarantineHeld ==
    IF Condemned(current) /\ (died = current \/ quarantine.etag # current)
      THEN Record(current, None) ELSE quarantine

\* The daemon died on the cached bundle: hold it back and set its tree aside.
HoldCache ==
    /\ pc = "load" /\ current # None /\ HeldBack(current)
    /\ quarantine' = QuarantineHeld
    /\ hold' = current /\ tree' = None
    /\ status' = <<"no_previous", None>>
    /\ pc' = "launch" /\ died' = None
    /\ UNCHANGED <<current, previous, armed, deaths, observed, job, currentEtag,
                   currentStruct, onPrevious, waited, applied, daemon, world>>

\* The cached bundle, or the last-known-good while the cached one is quarantined.
BootChoice ==
    IF Blocks(quarantine, current, None) /\ PreviousUsable(current, TRUE)
      THEN Choice("bootprev", previous) ELSE Choice("boot", current)

ApplyCache ==
    /\ pc = "load" /\ job = None /\ current # None /\ ~HeldBack(current)
    /\ Begin(BootChoice, currentEtag, None, Keep, "launch")
    /\ died' = None
    /\ status' = IF BootChoice.kind = "bootprev" THEN <<"reverted", previous>> ELSE status
    /\ UNCHANGED <<current, previous, tree, quarantine, deaths, observed,
                   currentStruct, hold, onPrevious, waited, daemon, world>>

NoCache ==
    /\ pc = "load" /\ current = None /\ pc' = "launch" /\ died' = None
    /\ UNCHANGED <<disk, job, currentEtag, currentStruct, hold, onPrevious, waited,
                   applied, status, daemon, world>>

\* start_daemon: from the rendered tree, if there is one and nothing runs yet.
StartDaemon ==
    /\ pc = "launch" /\ pc' = "top"
    /\ daemon' = IF Up \/ tree = None THEN daemon
                 ELSE IF S(tree) \in Broken THEN Exited ELSE tree
    /\ UNCHANGED <<disk, job, died, currentEtag, currentStruct, hold, onPrevious, waited,
                   applied, status, world>>

-----------------------------------------------------------------------------
(* One poll: settle, the hold's time limit, the request, its answer. *)

\* The daemon outlived the settle window: the bundle is trusted again.
Settle ==
    /\ pc = "top" /\ job = None
    /\ armed # None /\ S(armed) \notin Killer /\ applied /\ Up
    /\ armed' = None /\ applied' = FALSE
    /\ deaths' = [deaths EXCEPT ![armed] = 0]
    /\ observed' = [observed EXCEPT ![armed] = 0]
    /\ quarantine' = IF quarantine.etag = armed THEN NoQuarantine ELSE quarantine
    /\ UNCHANGED <<current, previous, tree, pc, job, died, currentEtag, currentStruct, hold,
                   onPrevious, waited, status, daemon, world>>

\* Mutant: a control plane that answers is waited for as long as it takes.
MaxWaitChoiceNever == NoChoice

\* _boot_hold_max_wait: a control plane that sends no bundle for too long counts
\* as unreachable, but a condemned bundle is not retried for it.
MaxWaitChoice ==
    IF waited = "over" /\ hold # None /\ (Condemned(hold) => PreviousUsable(hold, FALSE))
      THEN HoldChoice(quarantine, None) ELSE NoChoice

TopOfPoll ==
    /\ pc = "top" /\ job = None
    /\ Proceed(MaxWaitChoice, armed, currentEtag, None, Keep, "ask")
    /\ UNCHANGED <<current, previous, tree, quarantine, deaths, observed, died,
                   currentStruct, hold, onPrevious, waited, status, daemon, world>>

\* If-None-Match, dropped when a quarantined bundle is due for a retry.
IfNoneMatch ==
    IF RetryDue(quarantine) /\ armed # quarantine.etag THEN None ELSE currentEtag

Answered == waited' = IF hold # None /\ waited = "no" THEN "some" ELSE waited

\* Unreachable, refused or not authorised (the agent registers again: etag dropped).
AskFails ==
    /\ pc = "ask" /\ job = None /\ cp = "down"
    /\ \E then \in {Keep, None} :
         Proceed(HoldChoice(quarantine, None), armed, IfNoneMatch, None, then, "top")
    /\ Answered
    /\ UNCHANGED <<current, previous, tree, quarantine, deaths, observed, died,
                   currentStruct, hold, onPrevious, status, daemon, world>>

\* Not modified, or no bundle yet.
AskNothing ==
    /\ pc = "ask" /\ job = None
    /\ cp = "empty" \/ (cp = "up" /\ IfNoneMatch = served)
    /\ currentEtag' = IfNoneMatch /\ pc' = "top"
    /\ Answered
    /\ UNCHANGED <<disk, job, died, currentStruct, hold, onPrevious, applied, status,
                   daemon, world>>

\* The quarantine names one structure: another one from the control plane drops it.
QuarantineFor(b) ==
    IF SameStructure(quarantine, b, S(b)) THEN quarantine ELSE NoQuarantine

\* A bundle: cached first, whatever it is.
Bundle200 ==
    /\ pc = "ask" /\ job = None /\ cp = "up" /\ IfNoneMatch # served
    /\ current' = served
    /\ quarantine' = QuarantineFor(served)

\* The structure that is live already: only records changed.
AskRecords ==
    /\ Bundle200 /\ S(served) = currentStruct
    /\ currentEtag' = served /\ previous' = served
    /\ status' = IF quarantine'.etag = None /\ status[1] # "ok" THEN <<"ok", served>> ELSE status
    /\ hold' = None /\ onPrevious' = FALSE /\ waited' = "no"
    /\ pc' = "top"
    /\ UNCHANGED <<tree, armed, deaths, observed, job, died, currentStruct, applied,
                   daemon, world>>

AskQuarantined ==
    /\ Bundle200 /\ Answered /\ S(served) # currentStruct
    /\ Blocks(QuarantineFor(served), served, S(served))
    /\ Proceed(HoldChoice(QuarantineFor(served), None), armed, IfNoneMatch, None, served, "top")
    /\ UNCHANGED <<previous, tree, deaths, observed, died, currentStruct, hold, onPrevious,
                   status, daemon, world>>

AskApply ==
    /\ Bundle200 /\ Answered /\ S(served) # currentStruct
    /\ ~Blocks(QuarantineFor(served), served, S(served))
    /\ Begin(Choice("poll", served), IfNoneMatch, None, served, "top")
    /\ UNCHANGED <<previous, tree, deaths, observed, died, currentStruct, hold, onPrevious,
                   status, daemon, world>>

-----------------------------------------------------------------------------
(* Deaths. *)

\* The process is gone and the daemon with it.
Down ==
    /\ pc' = "down" /\ job' = None /\ died' = None
    /\ currentEtag' = None /\ currentStruct' = None
    /\ hold' = None /\ onPrevious' = FALSE /\ waited' = "no" /\ applied' = FALSE
    /\ status' = <<"ok", None>> /\ daemon' = None
    /\ UNCHANGED <<current, previous, tree, quarantine, deaths>>

\* The kernel kills the daemon alone.
DaemonKilled ==
    /\ daemon \in Bundle /\ S(daemon) \in Killer
    /\ daemon' = Exited
    /\ UNCHANGED <<disk, memory, world>>

\* The kernel kills the container, agent and all.
ContainerKilled ==
    /\ \/ daemon \in Bundle /\ S(daemon) \in Killer
       \/ job # None /\ S(job.bundle) \in Killer
    /\ Down
    /\ UNCHANGED <<armed, observed, world>>

\* The supervisor finds the daemon gone and exits: a watched death.
SupervisorExits ==
    /\ pc \in {"top", "ask"} /\ daemon = Exited
    /\ observed' = IF armed = None THEN observed ELSE [observed EXCEPT ![armed] = Plus(@)]
    /\ Down
    /\ UNCHANGED <<armed, world>>

PowerCut ==
    /\ Fault /\ pc # "down" /\ Down
    /\ UNCHANGED <<armed, observed>>

\* SIGTERM, or a thread that ended: not a death.
OrderlyExit ==
    /\ Fault /\ pc \in {"top", "ask"} /\ Down
    /\ armed' = None
    /\ UNCHANGED observed

\* The daemon exits for a reason of its own.
DaemonCrashes ==
    /\ Fault /\ Up /\ daemon' = Exited
    /\ UNCHANGED <<disk, memory>>

-----------------------------------------------------------------------------
(* Time, and the control plane. *)

BackoffElapses ==
    /\ quarantine.etag # None /\ ~quarantine.due
    /\ quarantine' = [quarantine EXCEPT !.due = TRUE]
    /\ UNCHANGED <<current, previous, tree, armed, deaths, observed, memory, daemon, world>>

\* BOOT_HOLD_MAX_WAIT_SECONDS: the first request ends long before (BOOT_FETCH_TIMEOUT).
WaitElapses ==
    /\ hold # None /\ waited = "some" /\ waited' = "over"
    /\ UNCHANGED <<disk, pc, job, died, currentEtag, currentStruct, hold, onPrevious, applied,
                   status, daemon, world>>

Save ==
    /\ Event /\ served' \in Bundle \ {served}
    /\ UNCHANGED <<disk, memory, daemon, cp>>

ControlPlane ==
    /\ cp' \in {"up", "down", "empty"} \ {cp}
    /\ UNCHANGED <<disk, memory, daemon, served, events>>

-----------------------------------------------------------------------------
Boot == Startup \/ HoldCache \/ ApplyCache \/ NoCache \/ StartDaemon
Finish == ApplyOk \/ Refused
Ask == AskFails \/ AskNothing \/ AskRecords \/ AskQuarantined \/ AskApply
Poll == TopOfPoll \/ Ask

Next ==
    \/ Boot \/ Finish \/ Poll \/ Settle
    \/ DaemonKilled \/ ContainerKilled \/ SupervisorExits
    \/ PowerCut \/ OrderlyExit \/ DaemonCrashes
    \/ BackoffElapses \/ WaitElapses \/ Save \/ ControlPlane

Spec == Init /\ [][Next]_vars

\* The orchestrator restarts the container, its threads go on, timers run out.  A
\* daemon takes seconds to die of a bundle and a poll answered at once takes less,
\* so among its deaths a poll, and the apply of a bundle that works, is now and
\* then the quicker one (SF).
FinishGood == Finish /\ S(job.bundle) \notin Killer \cup Broken

Fairness ==
    /\ WF_vars(Boot) /\ SF_vars(TopOfPoll) /\ SF_vars(Ask)
    /\ WF_vars(Finish) /\ SF_vars(FinishGood)
    /\ WF_vars(SupervisorExits) /\ WF_vars(BackoffElapses) /\ WF_vars(WaitElapses)

FairSpec == Spec /\ Fairness

-----------------------------------------------------------------------------
\* Every variable keeps its type; the guard's file never names more than MAX_TRACKED
\* bundles (ApplyGuard.startup).
TypeOK ==
    /\ {current, previous, tree, armed, hold, died, currentEtag} \subseteq MaybeBundle
    /\ quarantine \in [etag : MaybeBundle, structural : Struct \cup {None}, due : BOOLEAN]
    /\ deaths \in [Bundle -> 0..DeathCap] /\ Cardinality({b \in Bundle : deaths[b] > 0}) <= MAX_TRACKED
    /\ observed \in [Bundle -> 0..DeathCap]
    /\ pc \in {"down", "load", "launch", "top", "ask"}
    /\ job \in Jobs \cup {None}
    /\ currentStruct \in Struct \cup {None}
    /\ onPrevious \in BOOLEAN /\ waited \in {"no", "some", "over"} /\ applied \in BOOLEAN
    /\ status \in Verdict \X MaybeBundle
    /\ daemon \in MaybeBundle \cup {Half, Exited}
    /\ served \in Bundle /\ cp \in {"up", "down", "empty"}
    /\ events \in 0..MaxEvents

Good(b) == b # None /\ S(b) \notin Killer \cup Broken

Serves(st) == daemon \in Bundle /\ S(daemon) = st

\* A heartbeat says ok of a bundle that the running daemon does not serve: it runs
\* another structure, or a reload failed on it and nobody knows what it runs.
FalseOk ==
    /\ job = None /\ pc \in {"top", "ask"} /\ Up
    /\ status[1] = "ok" /\ status[2] # None /\ ~Serves(S(status[2]))

\* The agent takes a structure for live that the running daemon does not serve, and
\* is not about to put that right: the next bundle with it will skip the apply.
Misjudged ==
    /\ Up /\ currentStruct # None /\ ~Serves(currentStruct)
    /\ job # None => job.kind # "revert"

\* Safety.  An ok is false only after such a misjudgement, and only an apply made
\* for a startup hold can begin one: whatever else failed, the revert and the
\* reload too, the agent never takes "a daemon still sitting on the half-applied
\* config" for the structure it had before (_handle_apply_failure).
OkIsLive ==
    /\ [](FalseOk => Misjudged)
    /\ [][Misjudged' => \/ Misjudged
                        \/ job # None /\ job.kind \in {"cache", "cachefall", "heldback",
                                                      "holdprev"}]_vars

\* Safety, as the same comment has it for every failed apply: "the agent would then
\* report ok for a daemon still sitting on the half-applied config" never happens.
NeverFalseOk == ~FalseOk

\* Safety.  A bundle the daemon was seen to die on QUARANTINE_AFTER_DEATHS times is
\* applied again only because the control plane sends it, or offline once a
\* backoff has run out; never at startup, as a fallback or for the hold's time
\* limit (_boot_hold_fallback, _boot_hold_max_wait, _previous_usable).
CondemnedWaits ==
    job # None /\ Condemned(job.bundle) /\ job.kind # "poll"
        => job.kind = "cache" /\ job.ret = "top" /\ quarantine.due


\* Liveness.  A server whose cached bundle works ends up with its daemon running
\* for good, whether or not the control plane ever answers, as long as no bundle
\* that works was quarantined by mistake: a hold always ends in something being
\* served (_boot_hold_fallback, _boot_hold_max_wait).
NotDark ==
    []~Good(quarantine.etag) /\ <>[]Good(current) => <>[]Up

\* Safety, as a comment of _poll_once has it: a record-only change gives a new
\* etag over the same broken structure and must not lift the quarantine.
RecordChangeKeepsQuarantine ==
    [][quarantine.etag # None /\ quarantine'.etag = None /\ current' # current
        => S(current') # S(quarantine.etag)]_vars
=============================================================================
