---------------------------- MODULE AgentInstance ----------------------------
(***************************************************************************)
(* Which agent PROCESS owns a DNS server identity, and whose token is      *)
(* valid for it.  Several processes may be alive on one identity (a cloned *)
(* VM, a copied state directory, an overlapping rollout); one of them owns *)
(* the server and is served.                                               *)
(*                                                                         *)
(* Control plane: services/dns/agent_instance.py, api/v1/dns/agents.py     *)
(* (registration, poll, heartbeat).  Agent: bootstrap.py, heartbeat.py.    *)
(*                                                                         *)
(* Data abstraction.  The row keeps the hash of one token.  A token is     *)
(* told apart only by whether it is that one, so `valid' is the set of     *)
(* places that hold it: a process's token_ref, the answer to its           *)
(* registration, or the answer to a heartbeat that rotated.  Time is       *)
(* counted in ticks no longer than SEEN_REFRESH; a request's own latency   *)
(* is below one tick.  The duplicate episode stamped for the operator's    *)
(* alert is left out.                                                      *)
(***************************************************************************)
EXTENDS Integers, FiniteSets

CONSTANTS
    Process,          \* agent processes; each is a new instance id
    Former,           \* those that owned the server before, and run no more
    None,             \* no owner yet
    DISPLACED_KEEP,   \* how many displaced instances are remembered
    OWNER_GONE_AFTER, \* an owner quiet for longer is gone, in ticks
    SEEN_REFRESH,     \* the owner is stamped at most this often, in ticks
    PollEvery,        \* a live owner polls at least this often, in ticks
    MaxRotations      \* bound: heartbeats that find a token near expiry

ASSUME InstanceAssumption ==
    /\ IsFiniteSet(Process) /\ IsFiniteSet(Former)
    /\ Process \cap Former = {}
    /\ None \notin Process \cup Former
    /\ DISPLACED_KEEP \in Nat \ {0}
    /\ OWNER_GONE_AFTER \in Nat
    /\ SEEN_REFRESH \in Nat \ {0}
    /\ PollEvery \in Nat \ {0}
    /\ MaxRotations \in Nat

Instance == Process \cup Former

\* Times are not told apart beyond "longer than OWNER_GONE_AFTER".
LongAgo == OWNER_GONE_AFTER + 1
Later(t) == IF t < LongAgo THEN t + 1 ELSE LongAgo

VARIABLES
    started,    \* the processes started so far
    alive,      \* those that are running
    owner,      \* server.agent_instance
    displaced,  \* agent_instances_displaced: 1 = newest entry, 0 = not in it
    age,        \* time since agent_instance_seen_at
    valid,      \* the holders of the token whose hash the row has
    poll,       \* each process's config poll before it is decided
    reg,        \* its registration
    hb,         \* its heartbeat, when that rotates the token
    rotations,  \* rotations so far
    since,      \* history: time since the process was last granted a poll
    owned,      \* history: the processes that have ever owned the server
    successors  \* history: those that have owned it since the process last did

procVars == <<started, alive>>
rowVars == <<owner, displaced, age>>
history == <<since, owned, successors>>
vars == <<procVars, rowVars, valid, poll, reg, hb, rotations, history>>

\* Every variable keeps its type; the displaced list never outgrows DISPLACED_KEEP
\* (claim_poll's slice).
TypeOK ==
    /\ started \in SUBSET Process
    /\ alive \in SUBSET Process
    /\ owner \in Instance \cup {None}
    /\ displaced \in [Instance -> 0 .. DISPLACED_KEEP]
    /\ age \in 0 .. LongAgo
    /\ valid \in SUBSET (Instance \X {"ref", "reg", "hb"})
    /\ poll \in [Process -> {"idle", "recent", "claim"}]
    /\ reg \in [Process -> {"no", "asking", "cleared", "answered"}]
    /\ hb \in [Process -> {"idle", "rotating", "answered"}]
    /\ rotations \in 0 .. MaxRotations
    /\ since \in [Instance -> 0 .. LongAgo]
    /\ owned \in SUBSET Instance
    /\ successors \in [Instance -> SUBSET Instance]

\* A server row that no agent has polled yet.
NewServer ==
    /\ owner = None
    /\ displaced = [q \in Instance |-> 0]
    /\ age = 0
    /\ valid = {}
    /\ since = [q \in Instance |-> 0]
    /\ owned = {}
    /\ successors = [q \in Instance |-> {}]

\* The entries of a list that are newer than q's.
NewerThan(list, q) == {r \in Instance : 0 < list[r] /\ list[r] < list[q]}

\* One entry to a place, and no place left out.
IsList(list) ==
    /\ \A q, r \in Instance : list[q] > 0 /\ list[q] = list[r] => q = r
    /\ \A q \in Instance : list[q] > 0 => Cardinality(NewerThan(list, q)) = list[q] - 1

\* A server that the former processes have owned, each once.  They have exited
\* long ago; the last one's token may still lie in a copied state directory.
UsedServer ==
    /\ owner \in Former
    /\ displaced \in [Instance -> 0 .. DISPLACED_KEEP]
    /\ IsList(displaced)
    /\ \A q \in Instance : displaced[q] > 0 <=> q \in Former \ {owner}
    /\ age = LongAgo
    /\ valid = {<<owner, "ref">>}
    /\ since = [q \in Instance |-> LongAgo]
    /\ owned = Former
    /\ successors = [q \in Instance |-> IF q \in Former \ {owner}
                                        THEN {owner} \cup NewerThan(displaced, q)
                                        ELSE {}]

Init ==
    /\ NewServer \/ UsedServer
    /\ started = {}
    /\ alive = {}
    /\ poll = [p \in Process |-> "idle"]
    /\ reg = [p \in Process |-> "no"]
    /\ hb = [p \in Process |-> "idle"]
    /\ rotations = 0

-----------------------------------------------------------------------------
(* Processes.                                                              *)

Holds(p) == <<p, "ref">> \in valid

\* A process starts with no usable token, or with a copy of the live one (the
\* state directory of the process it replaces or was cloned from).
Start(p, cached) ==
    /\ p \notin started
    /\ cached => \E q \in Instance : Holds(q)
    /\ started' = started \cup {p}
    /\ alive' = alive \cup {p}
    /\ valid' = IF cached THEN valid \cup {<<p, "ref">>} ELSE valid
    /\ UNCHANGED <<rowVars, poll, reg, hb, rotations, history>>

\* It exits.  A request it has sent may still reach the control plane.
Stop(p) ==
    /\ p \in alive
    /\ alive' = alive \ {p}
    /\ UNCHANGED <<started, rowVars, valid, poll, reg, hb, rotations, history>>

-----------------------------------------------------------------------------
(* Who owns the server.                                                    *)

OwnerLive == owner # None /\ age =< OWNER_GONE_AFTER

IsDisplaced(p) == owner \notin {None, p} /\ displaced[p] > 0

\* Mutant of IsRefused: nobody asks whether the owner is still there.
IsRefusedForEver(p) == IsDisplaced(p)

IsRefused(p) == IsDisplaced(p) /\ OwnerLive

\* Where process q stands in the list once p is off it and the owner is put in
\* front: those that were ahead of p, or everyone if p was not on it, move back.
Place(p, q) == IF displaced[p] = 0 \/ displaced[q] < displaced[p]
               THEN displaced[q] + 1 ELSE displaced[q]

\* Mutants of Entry: nothing is cut off; and the list is cut before p is off it.
EntryUncut(p, q) ==
    IF q = p THEN 0 ELSE IF q = owner THEN 1
    ELSE IF displaced[q] = 0 THEN 0 ELSE Place(p, q)
EntryCutFirst(p, q) ==
    IF q = p THEN 0 ELSE IF q = owner THEN 1
    ELSE IF displaced[q] \in {0, DISPLACED_KEEP} THEN 0 ELSE Place(p, q)

\* Where q stands once p has taken over from the owner: p leaves the list, the
\* owner becomes its newest entry, and the DISPLACED_KEEP newest are kept.
Entry(p, q) ==
    IF q = p THEN 0 ELSE IF q = owner THEN 1
    ELSE IF displaced[q] = 0 \/ Place(p, q) > DISPLACED_KEEP THEN 0 ELSE Place(p, q)

TakeOver(p) ==
    /\ displaced' = [q \in Instance |-> Entry(p, q)]
    /\ owner' = p
    /\ owned' = owned \cup {p}
    /\ successors' = [q \in Instance |-> IF q = p \/ q \notin owned THEN {}
                                         ELSE successors[q] \cup {p}]
    /\ age' = 0

\* The poll authenticates and reads the server row.
PollRead(p) ==
    /\ p \in alive
    /\ poll[p] = "idle" /\ reg[p] = "no"
    /\ Holds(p)
    /\ poll' = [poll EXCEPT ![p] = IF owner = p /\ age < SEEN_REFRESH
                                   THEN "recent" ELSE "claim"]
    /\ UNCHANGED <<procVars, rowVars, valid, reg, hb, rotations, history>>

\* Mutant of ClaimPoll: the owner is stamped only when it takes over.
ClaimPollNoStamp(p) ==
    LET refused == poll[p] = "claim" /\ IsRefused(p)
    IN  /\ poll[p] # "idle"
        /\ poll' = [poll EXCEPT ![p] = "idle"]
        /\ CASE poll[p] = "recent" \/ refused ->
                  UNCHANGED <<rowVars, owned, successors>>
             [] poll[p] = "claim" /\ owner \in {None, p} ->
                  /\ owner' = p /\ owned' = owned \cup {p}
                  /\ UNCHANGED <<displaced, age, successors>>
             [] OTHER -> TakeOver(p)
        /\ since' = IF refused THEN since ELSE [since EXCEPT ![p] = 0]
        /\ UNCHANGED <<procVars, valid, reg, hb, rotations>>

\* claim_poll, on the locked row: the owner as it was read a moment ago goes
\* on without a write, the owner is stamped, a displaced process is refused
\* while the owner is live, and any other takes the server over.
ClaimPoll(p) ==
    LET refused == poll[p] = "claim" /\ IsRefused(p)
    IN  /\ poll[p] # "idle"
        /\ poll' = [poll EXCEPT ![p] = "idle"]
        /\ CASE poll[p] = "recent" \/ refused ->
                  UNCHANGED <<rowVars, owned, successors>>
             [] poll[p] = "claim" /\ owner \in {None, p} ->
                  /\ owner' = p /\ age' = 0 /\ owned' = owned \cup {p}
                  /\ UNCHANGED <<displaced, successors>>
             [] OTHER -> TakeOver(p)
        /\ since' = IF refused THEN since ELSE [since EXCEPT ![p] = 0]
        /\ UNCHANGED <<procVars, valid, reg, hb, rotations>>

-----------------------------------------------------------------------------
(* Whose token is valid.                                                   *)

\* Token x, held at place s of process p, becomes p's token_ref.
Adopt(p, s) == IF <<p, s>> \in valid
               THEN (valid \ {<<p, s>>}) \cup {<<p, "ref">>}
               ELSE valid \ {<<p, "ref">>}

\* A poll or a heartbeat was answered 401: the process registers again.
Reauthenticate(p) ==
    /\ p \in alive
    /\ reg[p] = "no"
    /\ ~ Holds(p)
    /\ reg' = [reg EXCEPT ![p] = "asking"]
    /\ UNCHANGED <<procVars, rowVars, valid, poll, hb, rotations, history>>

\* The registration reads the row; while it is refused (409) it asks again.
RegisterRead(p) ==
    /\ reg[p] = "asking"
    /\ p \in alive
    /\ ~ IsRefused(p)
    /\ reg' = [reg EXCEPT ![p] = "cleared"]
    /\ UNCHANGED <<procVars, rowVars, valid, poll, hb, rotations, history>>

\* ... and writes the new token's hash, whoever owns the server by now.
RegisterCommit(p) ==
    /\ reg[p] = "cleared"
    /\ reg' = [reg EXCEPT ![p] = "answered"]
    /\ valid' = {<<p, "reg">>}
    /\ UNCHANGED <<procVars, rowVars, poll, hb, rotations, history>>

\* The answer arrives, or is lost and the process asks again.
RegisterAnswer(p, arrives) ==
    /\ reg[p] = "answered"
    /\ p \in alive
    /\ reg' = [reg EXCEPT ![p] = IF arrives THEN "no" ELSE "asking"]
    /\ valid' = IF arrives THEN Adopt(p, "reg") ELSE valid \ {<<p, "reg">>}
    /\ UNCHANGED <<procVars, rowVars, poll, hb, rotations, history>>

\* A heartbeat whose token is near expiry, from a process that is not refused.
HeartbeatRead(p) ==
    /\ p \in alive
    /\ hb[p] = "idle"
    /\ Holds(p)
    /\ ~ IsRefused(p)
    /\ rotations < MaxRotations
    /\ rotations' = rotations + 1
    /\ hb' = [hb EXCEPT ![p] = "rotating"]
    /\ UNCHANGED <<procVars, rowVars, valid, poll, reg, history>>

HeartbeatCommit(p) ==
    /\ hb[p] = "rotating"
    /\ hb' = [hb EXCEPT ![p] = "answered"]
    /\ valid' = {<<p, "hb">>}
    /\ UNCHANGED <<procVars, rowVars, poll, reg, rotations, history>>

\* The rotated token arrives, perhaps after the other thread has registered.
HeartbeatAnswer(p, arrives) ==
    /\ hb[p] = "answered"
    /\ hb' = [hb EXCEPT ![p] = "idle"]
    /\ arrives => p \in alive
    /\ valid' = IF arrives THEN Adopt(p, "hb") ELSE valid \ {<<p, "hb">>}
    /\ UNCHANGED <<procVars, rowVars, poll, reg, rotations, history>>

\* Time passes.  A live owner is granted a poll every PollEvery ticks.
Tick ==
    /\ \A p \in Process : poll[p] = "idle"
    /\ owner \in alive => since[owner] < PollEvery
    /\ age' = Later(age)
    /\ since' = [q \in Instance |-> Later(since[q])]
    /\ UNCHANGED <<procVars, owner, displaced, valid, poll, reg, hb, rotations,
                   owned, successors>>

-----------------------------------------------------------------------------
Next ==
    \/ \E p \in Process, c \in BOOLEAN : Start(p, c)
    \/ \E p \in Process : Stop(p)
    \/ \E p \in Process : PollRead(p)
    \/ \E p \in Process : ClaimPoll(p)
    \/ \E p \in Process : Reauthenticate(p)
    \/ \E p \in Process : RegisterRead(p)
    \/ \E p \in Process : RegisterCommit(p)
    \/ \E p \in Process, a \in BOOLEAN : RegisterAnswer(p, a)
    \/ \E p \in Process : HeartbeatRead(p)
    \/ \E p \in Process : HeartbeatCommit(p)
    \/ \E p \in Process, a \in BOOLEAN : HeartbeatAnswer(p, a)
    \/ Tick

Spec == Init /\ [][Next]_vars

\* Fairness.  A live process keeps polling and, once its token is refused,
\* registering; the control plane finishes the requests it has; answers are not
\* lost for ever; time passes.
Fairness ==
    /\ \A p \in Process :
          /\ WF_vars(PollRead(p))
          /\ WF_vars(ClaimPoll(p))
          /\ WF_vars(Reauthenticate(p))
          /\ WF_vars(RegisterRead(p))
          /\ WF_vars(RegisterCommit(p))
          /\ SF_vars(RegisterAnswer(p, TRUE))
          /\ WF_vars(HeartbeatCommit(p))
          /\ WF_vars(\E a \in BOOLEAN : HeartbeatAnswer(p, a))
    /\ SF_vars(Tick)

FairSpec == Spec /\ Fairness

-----------------------------------------------------------------------------
(* Properties.                                                             *)

\* A process that has owned the server is on the displaced list until it owns
\* it again, or until more than DISPLACED_KEEP others have owned it since: in
\* any order of takeovers the cut drops the process that is longest out, and
\* only when the list is full (claim_poll).
Remembered ==
    \A q \in owned : \/ owner = q
                    \/ displaced[q] > 0
                    \/ Cardinality(successors[q]) > DISPLACED_KEEP

\* The owner loses the server only to a process that never had it, to one the
\* list no longer names after more than DISPLACED_KEEP others, or when it was
\* itself not granted a poll for more than OWNER_GONE_AFTER - SEEN_REFRESH: "a
\* busy owner is never mistaken for a departed one", although its stamp is not
\* renewed at every poll.
OwnerKeeps ==
    [][owner' # owner /\ owner # None =>
          \/ owner' \notin owned
          \/ Cardinality(successors[owner']) > DISPLACED_KEEP
          \/ since[owner] > OWNER_GONE_AFTER - SEEN_REFRESH]_vars

\* The pauses between two registrations double and are jittered, so of two
\* processes that both register again and again each gets, again and again,
\* from its registration to a poll before the other's next one.
PausesDiffer ==
    \A p \in Process : []<>(reg[p] = "answered") => []<>(poll[p] # "idle")

\* Unless every process stops, one that is alive ends up owning the server for
\* good with a token that stays valid: two live processes neither take the
\* server from each other nor trade re-registrations for ever, and the
\* survivor of a pair gets the server back.
OneIsServed ==
    <>[](alive # {}) /\ PausesDiffer =>
        \E p \in Process : <>[](p \in alive /\ owner = p /\ Holds(p))
=============================================================================
