----------------------- MODULE AgentlessDispatchProofs -----------------------
(***************************************************************************)
(* Proofs about AgentlessDispatch, for any number of processes, ops, ops   *)
(* per transaction and mishaps and any retry budget.                       *)
(***************************************************************************)
EXTENDS AgentlessDispatch, TLAPS

\* What every table of rows satisfies that a transaction leaves behind: a
\* queued row has an attempt left, a row not yet queued is untouched, every
\* claim is charged once, and applied rows were accepted.
Sound(t) ==
    \A o \in Op :
        /\ t[o].state \in {"pending", "in_flight"} => t[o].attempts < MAX_OP_ATTEMPTS
        /\ o > queued => t[o].state = "none" /\ t[o].attempts = 0 /\ claims[o] = 0
        /\ o \notin Signal => t[o].attempts + (IF t[o].state = "in_flight" THEN 1 ELSE 0) = claims[o]
        /\ o \notin Signal /\ t[o].state = "failed" => t[o].attempts = MAX_OP_ATTEMPTS
        /\ t[o].state = "applied" => o \in accepted

\* LeaseExclusive, with the reason a sweep leaves such a row alone.
Leased ==
    \A d \in Process : pc[d] # "idle" =>
        \A o \in rows[d] \ late[d] :
            op[o].state = "in_flight" /\ op[o].claim = d /\ ~op[o].due

\* What a process holds as accepted was accepted.
OkAccepted == \A d \in Process : ok[d] \subseteq accepted

\* A cleared marker means the provider has the zone; so does a create that
\* neither failed nor was skipped.  While the zone is not born nothing is queued and nobody holds rows.
ZoneKnown ==
    /\ marker = "clear" => zoneAt
    /\ \A d \in Process : pc[d] = "mark" => zoneAt \/ answer[d] \in {"error", "paused"}
    /\ marker = "unborn" => queued = 0 /\ \A d \in Process : rows[d] = {}

IInv == TypeOK /\ Sound(op) /\ Leased /\ OkAccepted /\ ZoneKnown /\ ZoneFirst

-----------------------------------------------------------------------------
(* The table operators.                                                    *)

\* A failed attempt keeps the row a row and uses one attempt.
LEMMA FailedRow ==
    ASSUME ConstantsAssumption, NEW t \in [Op -> Row], NEW o \in Op,
           t[o].attempts < MAX_OP_ATTEMPTS
    PROVE  /\ Failed(t, o) \in Row
           /\ Failed(t, o).attempts = t[o].attempts + 1
           /\ Failed(t, o).state \in {"pending", "failed", "superseded"}
           /\ Failed(t, o).due = FALSE
           /\ Failed(t, o).claim = None
           /\ Failed(t, o).state = "pending" => Failed(t, o).attempts < MAX_OP_ATTEMPTS
           /\ Failed(t, o).state = "failed" => Failed(t, o).attempts = MAX_OP_ATTEMPTS
  <1> DEFINE n == t[o].attempts + 1
             st == IF Successors(t, o) # {} THEN "superseded"
                   ELSE IF n >= MAX_OP_ATTEMPTS THEN "failed" ELSE "pending"
  <1>1. Failed(t, o) = [state |-> st, attempts |-> n, due |-> FALSE, claim |-> None]
    BY DEF Failed, Written
  <1>2. t[o].attempts \in 0 .. MAX_OP_ATTEMPTS /\ MAX_OP_ATTEMPTS \in Nat
    BY DEF Row, ConstantsAssumption
  <1>3. st \in {"superseded", "failed", "pending"}
    BY SMT
  <1>4. /\ n \in 0 .. MAX_OP_ATTEMPTS
        /\ st = "pending" => n < MAX_OP_ATTEMPTS
        /\ st = "failed" => n = MAX_OP_ATTEMPTS
    BY <1>2
  <1> HIDE DEF st, n
  <1>5. Failed(t, o) \in Row
    BY <1>1, <1>3, <1>4 DEF Row
  <1> QED BY <1>1, <1>3, <1>4, <1>5 DEF n

\* What FailAttempts does to a table of rows.
LEMMA FailAttemptsRows ==
    ASSUME ConstantsAssumption, NEW t \in [Op -> Row], NEW F \in SUBSET Op,
           \A o \in F : t[o].attempts < MAX_OP_ATTEMPTS
    PROVE  /\ FailAttempts(t, F) \in [Op -> Row]
           /\ \A o \in Op \ F : FailAttempts(t, F)[o] = t[o]
           /\ \A o \in F : FailAttempts(t, F)[o] = Failed(t, o)
  <1>1. ASSUME NEW o \in Op PROVE (IF o \in F THEN Failed(t, o) ELSE t[o]) \in Row
    BY FailedRow
  <1> QED BY <1>1 DEF FailAttempts

-----------------------------------------------------------------------------
(* Steps of the table.                                                     *)

\* Failed attempts of queued rows, charged for a claim, keep the table sound.
LEMMA FailAttemptsSound ==
    ASSUME ConstantsAssumption, TypeOK, NEW t \in [Op -> Row], Sound(t),
           NEW F \in SUBSET Op, \A o \in F : t[o].state = "in_flight"
    PROVE  /\ FailAttempts(t, F) \in [Op -> Row]
           /\ Sound(FailAttempts(t, F))
           /\ \A o \in Op \ F : FailAttempts(t, F)[o] = t[o]
           /\ \A o \in F : FailAttempts(t, F)[o].state \in {"pending", "failed", "superseded"}
                           /\ FailAttempts(t, F)[o].due = FALSE
  <1> DEFINE u == FailAttempts(t, F)
  <1>1. \A o \in F : t[o].attempts < MAX_OP_ATTEMPTS
    BY DEF Sound
  <1>2. /\ u \in [Op -> Row]
        /\ \A o \in Op \ F : u[o] = t[o]
        /\ \A o \in F : u[o] = Failed(t, o)
    BY <1>1, FailAttemptsRows
  <1> HIDE DEF u
  <1>3. ASSUME NEW o \in F
        PROVE  /\ u[o].attempts = t[o].attempts + 1
               /\ u[o].state \in {"pending", "failed", "superseded"}
               /\ u[o].due = FALSE
               /\ u[o].state = "pending" => u[o].attempts < MAX_OP_ATTEMPTS
               /\ u[o].state = "failed" => u[o].attempts = MAX_OP_ATTEMPTS
    <2>1. o \in Op /\ t[o].attempts < MAX_OP_ATTEMPTS /\ u[o] = Failed(t, o)
      BY <1>1, <1>2
    <2>2. /\ Failed(t, o).attempts = t[o].attempts + 1
          /\ Failed(t, o).state \in {"pending", "failed", "superseded"}
          /\ Failed(t, o).due = FALSE
          /\ Failed(t, o).state = "pending" => Failed(t, o).attempts < MAX_OP_ATTEMPTS
          /\ Failed(t, o).state = "failed" => Failed(t, o).attempts = MAX_OP_ATTEMPTS
      BY <2>1, FailedRow
    <2> QED BY <2>1, <2>2
  <1>4. Sound(u)
    <2> SUFFICES ASSUME NEW o \in Op
                 PROVE  /\ u[o].state \in {"pending", "in_flight"} => u[o].attempts < MAX_OP_ATTEMPTS
                        /\ o > queued => u[o].state = "none" /\ u[o].attempts = 0 /\ claims[o] = 0
                        /\ o \notin Signal =>
                              u[o].attempts + (IF u[o].state = "in_flight" THEN 1 ELSE 0) = claims[o]
                        /\ o \notin Signal /\ u[o].state = "failed" => u[o].attempts = MAX_OP_ATTEMPTS
                        /\ u[o].state = "applied" => o \in accepted
      BY DEF Sound
    <2>1. CASE o \notin F
      BY <2>1, <1>2 DEF Sound
    <2>2. CASE o \in F
      <3>1. t[o].state = "in_flight" /\ ~(o > queued)
        BY <2>2 DEF Sound
      <3>2. o \notin Signal => t[o].attempts + 1 = claims[o]
        BY <3>1 DEF Sound
      <3>3. u[o].state # "in_flight" /\ u[o].state # "applied"
        BY <2>2, <1>3
      <3>4. u[o].attempts + 0 = u[o].attempts
        <4>1. u[o] \in Row
          BY <1>2
        <4>2. u[o].attempts \in Nat
          BY <4>1 DEF Row
        <4> QED BY <4>2
      <3> QED BY <2>2, <1>3, <3>1, <3>2, <3>3, <3>4
    <2> QED BY <2>1, <2>2
  <1> QED BY <1>2, <1>3, <1>4 DEF u

\* A claim of pending rows charges each of them once.
LEMMA ClaimSound ==
    ASSUME ConstantsAssumption, TypeOK, NEW d \in Process, NEW t \in [Op -> Row], Sound(t),
           NEW C \in SUBSET Op, \A o \in C : t[o].state = "pending",
           Claim(d, t, C), UNCHANGED <<queued, accepted>>
    PROVE  /\ op' \in [Op -> Row]
           /\ claims' \in [Op -> Nat]
           /\ Sound(op)'
           /\ \A o \in C : op'[o].state = "in_flight" /\ op'[o].claim = d /\ ~op'[o].due
           /\ \A o \in Op \ C : op'[o] = t[o]
  <1>1. /\ op' = [o \in Op |-> IF o \in C THEN Written("in_flight", t[o].attempts, d) ELSE t[o]]
        /\ claims' = [o \in Op |-> IF o \in C THEN claims[o] + 1 ELSE claims[o]]
    BY DEF Claim
  <1>2. claims \in [Op -> Nat]
    BY DEF TypeOK
  <1>3. ASSUME NEW o \in Op, o \in C
        PROVE  /\ Written("in_flight", t[o].attempts, d) \in Row
               /\ op'[o].state = "in_flight" /\ op'[o].claim = d /\ ~op'[o].due
               /\ op'[o].attempts = t[o].attempts
               /\ claims'[o] = claims[o] + 1
    <2>1. t[o] \in Row
      OBVIOUS
    <2>2. t[o].attempts \in 0 .. MAX_OP_ATTEMPTS
      BY <2>1 DEF Row
    <2> QED BY <1>1, <1>3, <2>2 DEF Row, Written
  <1>4. ASSUME NEW o \in Op, o \notin C PROVE op'[o] = t[o] /\ claims'[o] = claims[o]
    BY <1>1, <1>4
  <1>5. op' \in [Op -> Row]
    BY <1>1, <1>3
  <1>6. claims' \in [Op -> Nat]
    BY <1>1, <1>2
  <1>7. Sound(op)'
    <2> SUFFICES ASSUME NEW o \in Op
                 PROVE  /\ op'[o].state \in {"pending", "in_flight"} => op'[o].attempts < MAX_OP_ATTEMPTS
                        /\ o > queued' => op'[o].state = "none" /\ op'[o].attempts = 0 /\ claims'[o] = 0
                        /\ o \notin Signal =>
                              op'[o].attempts + (IF op'[o].state = "in_flight" THEN 1 ELSE 0) = claims'[o]
                        /\ o \notin Signal /\ op'[o].state = "failed" => op'[o].attempts = MAX_OP_ATTEMPTS
                        /\ op'[o].state = "applied" => o \in accepted'
      BY DEF Sound
    <2>1. CASE o \notin C
      BY <2>1, <1>4 DEF Sound
    <2>2. CASE o \in C
      <3>1. t[o].state = "pending" /\ ~(o > queued) /\ t[o].attempts < MAX_OP_ATTEMPTS
        BY <2>2 DEF Sound
      <3>2. o \notin Signal => t[o].attempts = claims[o]
        <4>1. t[o].attempts \in Nat
          BY DEF Row
        <4> QED BY <3>1, <4>1 DEF Sound
      <3> QED BY <2>2, <1>3, <3>1, <3>2
    <2> QED BY <2>1, <2>2
  <1> QED BY <1>3, <1>4, <1>5, <1>6, <1>7

-----------------------------------------------------------------------------
(* One lemma per action, one step per part of the invariant.               *)

\* What Begin leaves behind: process d as good as new, the others untouched.
LEMMA BeginEffect ==
    ASSUME TypeOK, NEW d \in Process, NEW to, NEW O \in SUBSET Op, Begin(d, to, O),
           to \in {"idle", "claim", "sweep", "zone"}
    PROVE  /\ pc' \in [Process -> {"idle", "claim", "sweep", "zone", "create", "mark", "send", "record"}]
           /\ unit' \in [Process -> SUBSET Op]
           /\ rows' \in [Process -> SUBSET Op]
           /\ unsent' \in [Process -> SUBSET (Op \ Signal)]
           /\ ok' \in [Process -> SUBSET (Op \ Signal)]
           /\ answer' \in [Process -> {"none", "asked", "present", "error", "paused"}]
           /\ late' \in [Process -> SUBSET Op]
           /\ pc'[d] = to /\ rows'[d] = {} /\ ok'[d] = {}
           /\ \A e \in Process \ {d} : /\ pc'[e] = pc[e] /\ rows'[e] = rows[e] /\ ok'[e] = ok[e]
                                       /\ answer'[e] = answer[e] /\ late'[e] = late[e]
  BY DEF TypeOK, Begin

\* A commit queues fresh rows and starts an inline dispatch.
LEMMA CommitStep ==
    ASSUME ConstantsAssumption, IInv, NEW d \in Process, NEW n \in 1 .. MaxTxnOps, Commit(d, n)
    PROVE  IInv'
  <1> DEFINE new == queued + 1 .. queued + n
             to == IF marker = "unborn" THEN "zone" ELSE "claim"
  <1>0. TypeOK /\ Sound(op) /\ Leased /\ OkAccepted /\ ZoneKnown /\ ZoneFirst
    BY DEF IInv
  <1>1. /\ queued + n <= MaxOps /\ queued' = queued + n
        /\ op' = [o \in Op |-> IF o \in new THEN Written("pending", 0, None) ELSE op[o]]
        /\ marker' = IF marker = "unborn" THEN "waiting" ELSE marker
        /\ Begin(d, to, new)
        /\ UNCHANGED <<enabled, zoneAt, served, claims, accepted, mishaps>>
    BY DEF Commit, provider
  <1>2. MaxOps \in Nat /\ MaxTxnOps \in Nat /\ MAX_OP_ATTEMPTS \in Nat \ {0}
        /\ queued \in 0 .. MaxOps /\ n \in Nat \ {0}
    BY <1>0 DEF ConstantsAssumption, TypeOK
  <1>3. new \in SUBSET Op /\ queued' \in 0 .. MaxOps
    BY <1>1, <1>2 DEF Op
  <1>4. to \in {"idle", "claim", "sweep", "zone"}
    OBVIOUS
  <1>5. Written("pending", 0, None) \in Row
    BY <1>2 DEF Written, Row
  <1> HIDE DEF to, new
  <1>6. /\ pc' \in [Process -> {"idle", "claim", "sweep", "zone", "create", "mark", "send", "record"}]
        /\ unit' \in [Process -> SUBSET Op]
        /\ rows' \in [Process -> SUBSET Op]
        /\ unsent' \in [Process -> SUBSET (Op \ Signal)]
        /\ ok' \in [Process -> SUBSET (Op \ Signal)]
        /\ answer' \in [Process -> {"none", "asked", "present", "error", "paused"}]
        /\ late' \in [Process -> SUBSET Op]
        /\ pc'[d] = to /\ rows'[d] = {} /\ ok'[d] = {}
        /\ \A e \in Process \ {d} : /\ pc'[e] = pc[e] /\ rows'[e] = rows[e] /\ ok'[e] = ok[e]
                                    /\ answer'[e] = answer[e] /\ late'[e] = late[e]
    BY <1>0, <1>1, <1>3, <1>4, BeginEffect
  <1>7. op' \in [Op -> Row]
    BY <1>0, <1>1, <1>5 DEF TypeOK
  <1>8. marker' \in {"unborn", "clear"} \cup Outstanding /\ marker' # "unborn"
        /\ (marker' = "clear" => marker = "clear")
    BY <1>0, <1>1 DEF TypeOK, Outstanding
  <1>9. TypeOK'
    BY <1>0, <1>1, <1>3, <1>6, <1>7, <1>8 DEF TypeOK
  <1>10. ASSUME NEW o \in Op, o \notin new PROVE op'[o] = op[o]
    BY <1>1, <1>10
  <1>11. ASSUME NEW o \in Op, o \in new
         PROVE  op'[o] = Written("pending", 0, None) /\ o > queued /\ ~(o > queued')
    <2>1. op'[o] = Written("pending", 0, None)
      BY <1>1, <1>11
    <2>2. o > queued /\ ~(o > queued')
      BY <1>1, <1>2, <1>11 DEF new
    <2> QED BY <2>1, <2>2
  <1>12. Sound(op)'
    <2> SUFFICES ASSUME NEW o \in Op
                 PROVE  /\ op'[o].state \in {"pending", "in_flight"} => op'[o].attempts < MAX_OP_ATTEMPTS
                        /\ o > queued' => op'[o].state = "none" /\ op'[o].attempts = 0 /\ claims'[o] = 0
                        /\ o \notin Signal =>
                              op'[o].attempts + (IF op'[o].state = "in_flight" THEN 1 ELSE 0) = claims'[o]
                        /\ o \notin Signal /\ op'[o].state = "failed" => op'[o].attempts = MAX_OP_ATTEMPTS
                        /\ op'[o].state = "applied" => o \in accepted'
      BY DEF Sound
    <2>1. CASE o \notin new
      <3>1. o > queued' => o > queued
        BY <1>1, <1>2 DEF Op
      <3> QED BY <2>1, <3>1, <1>0, <1>1, <1>10 DEF Sound
    <2>2. CASE o \in new
      <3>1. claims[o] = 0
        BY <2>2, <1>0, <1>11 DEF Sound
      <3>2. op'[o].state = "pending" /\ op'[o].attempts = 0
        BY <2>2, <1>11 DEF Written
      <3> QED BY <2>2, <3>1, <3>2, <1>1, <1>2, <1>11
    <2> QED BY <2>1, <2>2
  <1>13. Leased'
    <2> SUFFICES ASSUME NEW e \in Process, pc'[e] # "idle", NEW o \in rows'[e] \ late'[e]
                 PROVE  op'[o].state = "in_flight" /\ op'[o].claim = e /\ ~op'[o].due
      BY DEF Leased
    <2>1. e # d
      BY <1>6
    <2>2. o \in Op /\ op[o].state = "in_flight" /\ op[o].claim = e /\ ~op[o].due
      BY <2>1, <1>0, <1>6 DEF Leased, TypeOK
    <2>3. o \notin new
      BY <2>2, <1>0, <1>11 DEF Sound
    <2> QED BY <2>2, <2>3, <1>10
  <1>14. OkAccepted'
    BY <1>0, <1>1, <1>6 DEF OkAccepted
  <1>15. ZoneKnown'
    BY <1>0, <1>1, <1>4, <1>6, <1>8 DEF ZoneKnown, to
  <1>16. ZoneFirst'
    BY <1>0, <1>1, <1>4, <1>6 DEF ZoneFirst, to
  <1> QED BY <1>9, <1>12, <1>13, <1>14, <1>15, <1>16 DEF IInv

\* Either claim: pending rows of a sound table t that kept every leased row.
LEMMA ClaimStep ==
    ASSUME ConstantsAssumption, IInv, NEW d \in Process,
           NEW t \in [Op -> Row], Sound(t), NEW C \in SUBSET Op,
           \A o \in C : t[o].state = "pending",
           \A o \in Op : op[o].state = "in_flight" /\ ~op[o].due => t[o] = op[o],
           \A o \in Op : op[o].state = "none" => t[o].state = "none",
           pc[d] \in {"claim", "sweep"}, Claim(d, t, C),
           UNCHANGED <<queued, marker, enabled, zoneAt, served, accepted, mishaps>>
    PROVE  IInv'
  <1>0. TypeOK /\ Sound(op) /\ Leased /\ OkAccepted /\ ZoneKnown /\ ZoneFirst
    BY DEF IInv
  <1>1. /\ pc' = [pc EXCEPT ![d] = IF C = {} THEN "idle"
                                   ELSE IF C \subseteq Signal THEN "record" ELSE "zone"]
        /\ unit' = [unit EXCEPT ![d] = {}]
        /\ rows' = [rows EXCEPT ![d] = C]
        /\ unsent' = [unsent EXCEPT ![d] = C \ Signal]
        /\ answer' = [answer EXCEPT ![d] = "none"]
        /\ UNCHANGED <<ok, late>>
    BY DEF Claim
  <1>2. /\ op' \in [Op -> Row] /\ claims' \in [Op -> Nat] /\ Sound(op)'
        /\ \A o \in C : op'[o].state = "in_flight" /\ op'[o].claim = d /\ ~op'[o].due
        /\ \A o \in Op \ C : op'[o] = t[o]
    BY <1>0, ClaimSound
  <1>3. pc' \in [Process -> {"idle", "claim", "sweep", "zone", "create", "mark", "send", "record"}]
        /\ pc'[d] \in {"idle", "record", "zone"} /\ \A e \in Process \ {d} : pc'[e] = pc[e]
    BY <1>0, <1>1 DEF TypeOK
  <1>4. TypeOK'
    BY <1>0, <1>1, <1>2, <1>3 DEF TypeOK
  <1>5. Leased'
    <2> SUFFICES ASSUME NEW e \in Process, pc'[e] # "idle", NEW o \in rows'[e] \ late'[e]
                 PROVE  op'[o].state = "in_flight" /\ op'[o].claim = e /\ ~op'[o].due
      BY DEF Leased
    <2>1. CASE e = d
      <3>1. o \in C
        BY <2>1, <1>0, <1>1 DEF TypeOK
      <3> QED BY <2>1, <3>1, <1>2
    <2>2. CASE e # d
      <3>1. o \in Op /\ op[o].state = "in_flight" /\ op[o].claim = e /\ ~op[o].due
        BY <2>2, <1>0, <1>1, <1>3 DEF Leased, TypeOK
      <3>2. t[o] = op[o] /\ o \notin C
        BY <3>1
      <3> QED BY <3>1, <3>2, <1>2
    <2> QED BY <2>1, <2>2
  <1>6. OkAccepted'
    BY <1>0, <1>1 DEF OkAccepted
  <1>7. ZoneKnown'
    <2>1. marker = "unborn" => C = {}
      <3> SUFFICES ASSUME marker = "unborn", NEW o \in C PROVE FALSE
        OBVIOUS
      <3>1. o > queued
        BY <1>0 DEF ZoneKnown, Op
      <3>2. op[o].state = "none"
        BY <1>0, <3>1 DEF Sound
      <3>3. t[o].state = "none"
        BY <3>2
      <3> QED BY <3>3
    <2>2. marker' = "unborn" => queued' = 0 /\ \A e \in Process : rows'[e] = {}
      BY <1>0, <1>1, <2>1 DEF ZoneKnown, TypeOK
    <2>3. \A e \in Process : pc'[e] = "mark" => zoneAt' \/ answer'[e] \in {"error", "paused"}
      BY <1>0, <1>1, <1>3 DEF ZoneKnown, TypeOK
    <2> QED BY <1>0, <2>2, <2>3 DEF ZoneKnown
  <1>8. ZoneFirst'
    BY <1>0, <1>1, <1>3 DEF ZoneFirst, TypeOK
  <1> QED BY <1>2, <1>4, <1>5, <1>6, <1>7, <1>8 DEF IInv

\* The inline dispatch claims pending rows of its own transaction.
LEMMA InlineClaimStep ==
    ASSUME ConstantsAssumption, IInv, NEW d \in Process, InlineClaim(d)
    PROVE  IInv'
  <1> DEFINE C == IF enabled THEN Claimable(op, unit[d]) ELSE {}
  <1>0. TypeOK /\ Sound(op)
    BY DEF IInv
  <1>1. pc[d] = "claim" /\ Claim(d, op, C)
        /\ UNCHANGED <<queued, marker, enabled, zoneAt, served, accepted, mishaps>>
    BY DEF InlineClaim, provider
  <1>2. op \in [Op -> Row] /\ unit[d] \subseteq Op
    BY <1>0 DEF TypeOK
  <1>3. C \in SUBSET Op /\ \A o \in C : op[o].state = "pending"
    BY <1>2 DEF Claimable
  <1> HIDE DEF C
  <1> QED BY <1>0, <1>1, <1>2, <1>3, ClaimStep

\* The sweep charges stale claims, then claims due rows.
LEMMA SweepClaimStep ==
    ASSUME ConstantsAssumption, IInv, NEW d \in Process, SweepClaim(d)
    PROVE  IInv'
  <1> DEFINE t == FailAttempts(op, Stale)
             dueRows == {o \in Op : enabled /\ t[o].due}
             C == Claimable(t, dueRows)
  <1>0. TypeOK /\ Sound(op)
    BY DEF IInv
  <1>1. pc[d] = "sweep" /\ Claim(d, t, C)
        /\ UNCHANGED <<queued, marker, enabled, zoneAt, served, accepted, mishaps>>
    BY DEF SweepClaim, provider
  <1>2. op \in [Op -> Row] /\ Stale \in SUBSET Op /\ \A o \in Stale : op[o].state = "in_flight"
    BY <1>0 DEF TypeOK, Stale
  <1>3. t \in [Op -> Row] /\ Sound(t) /\ \A o \in Op \ Stale : t[o] = op[o]
    BY <1>0, <1>2, FailAttemptsSound
  <1>4. C \in SUBSET Op /\ \A o \in C : t[o].state = "pending"
    BY DEF Claimable
  <1>5. /\ \A o \in Op : op[o].state = "in_flight" /\ ~op[o].due => t[o] = op[o]
        /\ \A o \in Op : op[o].state = "none" => t[o].state = "none"
    BY <1>3 DEF Stale
  <1> HIDE DEF C, t
  <1> QED BY <1>0, <1>1, <1>3, <1>4, <1>5, ClaimStep

\* A process that starts over (a sweep begins, a dispatch dies) holds nothing.
LEMMA BeginStep ==
    ASSUME ConstantsAssumption, IInv, NEW d \in Process, NEW to \in {"idle", "sweep", "zone"},
           Begin(d, to, {}), mishaps' \in 0 .. MaxMishaps,
           UNCHANGED <<queued, op, marker, enabled, zoneAt, served, claims, accepted>>
    PROVE  IInv'
  <1>0. TypeOK /\ Sound(op) /\ Leased /\ OkAccepted /\ ZoneKnown /\ ZoneFirst
    BY DEF IInv
  <1>1. /\ pc' \in [Process -> {"idle", "claim", "sweep", "zone", "create", "mark", "send", "record"}]
        /\ unit' \in [Process -> SUBSET Op]
        /\ rows' \in [Process -> SUBSET Op]
        /\ unsent' \in [Process -> SUBSET (Op \ Signal)]
        /\ ok' \in [Process -> SUBSET (Op \ Signal)]
        /\ answer' \in [Process -> {"none", "asked", "present", "error", "paused"}]
        /\ late' \in [Process -> SUBSET Op]
        /\ pc'[d] = to /\ rows'[d] = {} /\ ok'[d] = {}
        /\ \A e \in Process \ {d} : /\ pc'[e] = pc[e] /\ rows'[e] = rows[e] /\ ok'[e] = ok[e]
                                    /\ answer'[e] = answer[e] /\ late'[e] = late[e]
    BY <1>0, BeginEffect
  <1>2. TypeOK'
    BY <1>0, <1>1 DEF TypeOK
  <1>3. Sound(op)'
    BY <1>0 DEF Sound
  <1>4. Leased'
    BY <1>0, <1>1 DEF Leased
  <1>5. OkAccepted'
    BY <1>0, <1>1 DEF OkAccepted
  <1>6. ZoneKnown'
    BY <1>0, <1>1 DEF ZoneKnown
  <1>7. ZoneFirst'
    BY <1>0, <1>1 DEF ZoneFirst
  <1> QED BY <1>2, <1>3, <1>4, <1>5, <1>6, <1>7 DEF IInv

\* A sweep begins.
LEMMA SweepStep ==
    ASSUME ConstantsAssumption, IInv, NEW d \in Process, Sweep(d)
    PROVE  IInv'
  <1> DEFINE to == IF marker = "due" THEN "zone" ELSE "sweep"
  <1>1. Begin(d, to, {}) /\ UNCHANGED <<queued, op, marker, enabled, zoneAt, served, claims, accepted, mishaps>>
    BY DEF Sweep, db, provider
  <1>2. to \in {"idle", "sweep", "zone"}
    OBVIOUS
  <1>3. mishaps' \in 0 .. MaxMishaps
    BY <1>1 DEF IInv, TypeOK
  <1> HIDE DEF to
  <1> QED BY <1>1, <1>2, <1>3, BeginStep

\* A dispatch dies.
LEMMA CrashStep ==
    ASSUME ConstantsAssumption, IInv, NEW d \in Process, Crash(d)
    PROVE  IInv'
  <1>1. Begin(d, "idle", {}) /\ UNCHANGED <<queued, op, marker, enabled, zoneAt, served, claims, accepted>>
    BY DEF Crash, db, provider
  <1>2. mishaps' \in 0 .. MaxMishaps
    BY DEF IInv, TypeOK, Crash, ConstantsAssumption
  <1> QED BY <1>1, <1>2, BeginStep

\* The steps around the zone leave the table and the claims alone.
LEMMA ZoneFrame ==
    ASSUME IInv, NEW d \in Process, NEW to, pc' = [pc EXCEPT ![d] = to], pc[d] # "idle",
           UNCHANGED <<queued, op, rows, ok, late, claims, accepted>>
    PROVE  Sound(op)' /\ Leased' /\ OkAccepted'
  <1>0. TypeOK /\ Sound(op) /\ Leased /\ OkAccepted
    BY DEF IInv
  <1>1. Sound(op)'
    BY <1>0 DEF Sound
  <1>2. \A e \in Process : pc'[e] # "idle" => pc[e] # "idle"
    BY <1>0 DEF TypeOK
  <1>3. Leased'
    BY <1>0, <1>2 DEF Leased
  <1>4. OkAccepted'
    BY <1>0 DEF OkAccepted
  <1> QED BY <1>1, <1>3, <1>4

\* Rows go on without a create only if the marker is clear.
LEMMA ReadZoneStep ==
    ASSUME ConstantsAssumption, IInv, NEW d \in Process, ReadZone(d)
    PROVE  IInv'
  <1> DEFINE ans == IF marker \notin Outstanding THEN "none"
                    ELSE IF enabled THEN "asked" ELSE "paused"
             to == CASE ans = "none" -> AfterZone(d, ans)
                     [] ans = "asked" -> "create"
                     [] ans = "paused" -> "mark"
  <1>0. TypeOK /\ ZoneKnown /\ ZoneFirst
    BY DEF IInv
  <1>1. /\ pc[d] = "zone"
        /\ answer' = [answer EXCEPT ![d] = ans]
        /\ pc' = [pc EXCEPT ![d] = to]
        /\ UNCHANGED <<queued, op, marker, enabled, zoneAt, served, unit, rows, unsent, ok, late,
                       claims, accepted, mishaps>>
    BY DEF ReadZone, db, provider
  <1>2. ans \in {"none", "asked", "paused"}
    OBVIOUS
  <1>3. to \in {"record", "send", "claim", "sweep", "create", "mark"}
    BY DEF AfterZone
  <1>4. to = "send" => zoneAt
    <2>1. to = "send" => ans = "none" /\ rows[d] # {}
      BY DEF AfterZone
    <2>2. ans = "none" => marker \in {"unborn", "clear"}
      BY <1>0 DEF TypeOK, Outstanding
    <2>3. rows[d] # {} => marker # "unborn"
      BY <1>0 DEF ZoneKnown
    <2> QED BY <2>1, <2>2, <2>3, <1>0 DEF ZoneKnown
  <1>9. to = "mark" => ans = "paused"
    BY DEF AfterZone
  <1> HIDE DEF ans, to
  <1>5. Sound(op)' /\ Leased' /\ OkAccepted'
    BY <1>1, ZoneFrame
  <1>6. TypeOK'
    BY <1>0, <1>1, <1>2, <1>3 DEF TypeOK
  <1>7. ZoneKnown'
    <2>1. \A e \in Process : pc'[e] = "mark" => zoneAt' \/ answer'[e] \in {"error", "paused"}
      <3> SUFFICES ASSUME NEW e \in Process, pc'[e] = "mark"
                   PROVE  zoneAt' \/ answer'[e] \in {"error", "paused"}
        OBVIOUS
      <3>1. CASE e = d
        BY <3>1, <1>0, <1>1, <1>9 DEF TypeOK
      <3>2. CASE e # d
        BY <3>2, <1>0, <1>1 DEF TypeOK, ZoneKnown
      <3> QED BY <3>1, <3>2
    <2> QED BY <2>1, <1>0, <1>1 DEF ZoneKnown
  <1>8. ZoneFirst'
    <2> SUFFICES ASSUME NEW e \in Process, pc'[e] = "send" PROVE zoneAt' \/ answer'[e] = "paused"
      BY DEF ZoneFirst
    <2>1. CASE e = d
      <3>1. to = "send"
        BY <2>1, <1>0, <1>1 DEF TypeOK
      <3> QED BY <3>1, <1>1, <1>4
    <2>2. CASE e # d
      BY <2>2, <1>0, <1>1 DEF TypeOK, ZoneFirst
    <2> QED BY <2>1, <2>2
  <1> QED BY <1>5, <1>6, <1>7, <1>8 DEF IInv

\* The provider answers the create: it has the zone if it says so.
LEMMA CreateStep ==
    ASSUME ConstantsAssumption, IInv, NEW d \in Process, NEW ans \in {"present", "error"},
           pc[d] = "create", zoneAt' \in {zoneAt, TRUE}, ans = "present" => zoneAt',
           answer' = [answer EXCEPT ![d] = ans], pc' = [pc EXCEPT ![d] = "mark"],
           UNCHANGED <<queued, op, marker, enabled, served, unit, rows, unsent, ok, late,
                       claims, accepted, mishaps>>
    PROVE  IInv'
  <1>0. TypeOK /\ ZoneKnown /\ ZoneFirst
    BY DEF IInv
  <1>1. Sound(op)' /\ Leased' /\ OkAccepted'
    BY ZoneFrame
  <1>2. zoneAt => zoneAt'
    OBVIOUS
  <1>3. zoneAt' \in BOOLEAN
    BY <1>0 DEF TypeOK
  <1>4. TypeOK'
    BY <1>0, <1>3 DEF TypeOK
  <1>5. ASSUME NEW e \in Process
        PROVE  /\ pc'[e] = IF e = d THEN "mark" ELSE pc[e]
               /\ answer'[e] = IF e = d THEN ans ELSE answer[e]
    BY <1>0 DEF TypeOK
  <1>6. ZoneKnown'
    <2>1. \A e \in Process : pc'[e] = "mark" => zoneAt' \/ answer'[e] \in {"error", "paused"}
      BY <1>0, <1>2, <1>5 DEF ZoneKnown
    <2> QED BY <2>1, <1>0, <1>2 DEF ZoneKnown
  <1>7. ZoneFirst'
    BY <1>0, <1>2, <1>5 DEF ZoneFirst
  <1> QED BY <1>1, <1>4, <1>6, <1>7 DEF IInv

\* Both answers of the provider to a create.
LEMMA ZoneCallStep ==
    ASSUME ConstantsAssumption, IInv, NEW d \in Process, ZoneCreated(d) \/ ZoneFails(d)
    PROVE  IInv'
  <1>1. CASE ZoneCreated(d)
    <2>1. /\ pc[d] = "create" /\ zoneAt' = TRUE
          /\ answer' = [answer EXCEPT ![d] = "present"] /\ pc' = [pc EXCEPT ![d] = "mark"]
          /\ UNCHANGED <<queued, op, marker, enabled, served, unit, rows, unsent, ok, late,
                         claims, accepted, mishaps>>
      BY <1>1 DEF ZoneCreated, db
    <2> QED BY <2>1, CreateStep
  <1>2. CASE ZoneFails(d)
    <2>1. /\ pc[d] = "create" /\ zoneAt' \in {zoneAt, TRUE}
          /\ answer' = [answer EXCEPT ![d] = "error"] /\ pc' = [pc EXCEPT ![d] = "mark"]
          /\ UNCHANGED <<queued, op, marker, enabled, served, unit, rows, unsent, ok, late,
                         claims, accepted, mishaps>>
      BY <1>2 DEF ZoneFails, db
    <2> QED BY <2>1, CreateStep
  <1> QED BY <1>1, <1>2

\* The marker is cleared only after a create that answered.
LEMMA MarkStep ==
    ASSUME ConstantsAssumption, IInv, NEW d \in Process, Mark(d)
    PROVE  IInv'
  <1> DEFINE to == AfterZone(d, answer[d])
  <1>0. TypeOK /\ ZoneKnown /\ ZoneFirst
    BY DEF IInv
  <1>1. /\ pc[d] = "mark"
        /\ marker' = IF marker \in Outstanding
                     THEN (IF answer[d] = "present" THEN "clear" ELSE "waiting") ELSE marker
        /\ pc' = [pc EXCEPT ![d] = to]
        /\ UNCHANGED <<queued, op, enabled, zoneAt, served, unit, rows, unsent, ok, answer, late,
                       claims, accepted, mishaps>>
    BY DEF Mark, provider, work
  <1>2. to \in {"record", "send", "claim", "sweep"} /\ (to = "send" => answer[d] # "error")
    BY DEF AfterZone
  <1> HIDE DEF to
  <1>3. Sound(op)' /\ Leased' /\ OkAccepted'
    BY <1>1, ZoneFrame
  <1>4. marker' \in {"unborn", "clear"} \cup Outstanding /\ (marker' = "unborn" => marker = "unborn")
        /\ (marker' = "clear" => marker = "clear" \/ answer[d] = "present")
    BY <1>0, <1>1 DEF TypeOK, Outstanding
  <1>5. TypeOK'
    BY <1>0, <1>1, <1>2, <1>4 DEF TypeOK
  <1>6. ASSUME NEW e \in Process PROVE pc'[e] = IF e = d THEN to ELSE pc[e]
    BY <1>0, <1>1 DEF TypeOK
  <1>7. ZoneKnown'
    <2>1. \A e \in Process : pc'[e] = "mark" => zoneAt' \/ answer'[e] \in {"error", "paused"}
      BY <1>0, <1>1, <1>2, <1>6 DEF ZoneKnown
    <2>2. marker' = "clear" => zoneAt'
      BY <1>0, <1>1, <1>4 DEF ZoneKnown
    <2> QED BY <2>1, <2>2, <1>0, <1>1, <1>4 DEF ZoneKnown
  <1>8. ZoneFirst'
    <2> SUFFICES ASSUME NEW e \in Process, pc'[e] = "send" PROVE zoneAt \/ answer[e] = "paused"
      BY <1>1 DEF ZoneFirst
    <2>1. CASE e = d
      BY <2>1, <1>0, <1>1, <1>2, <1>6 DEF ZoneKnown
    <2>2. CASE e # d
      BY <2>2, <1>0, <1>6 DEF ZoneFirst
    <2> QED BY <2>1, <2>2
  <1> QED BY <1>3, <1>5, <1>7, <1>8 DEF IInv

\* A call to the provider changes no row; what it accepts is remembered.
LEMMA SendStep ==
    ASSUME ConstantsAssumption, IInv, NEW d \in Process, NEW o \in Op,
           SendOk(d, o) \/ SendFails(d, o)
    PROVE  IInv'
  <1>0. TypeOK /\ Sound(op) /\ Leased /\ OkAccepted /\ ZoneKnown /\ ZoneFirst
    BY DEF IInv
  <1>1. /\ pc[d] = "send" /\ o \in unsent[d]
        /\ unsent' = [unsent EXCEPT ![d] = @ \ {o}]
        /\ pc' = [pc EXCEPT ![d] = IF unsent[d] = {o} THEN "record" ELSE "send"]
        /\ UNCHANGED <<queued, op, marker, enabled, zoneAt, unit, rows, answer, late, claims, mishaps>>
    BY DEF SendOk, SendFails, Sent, db
  <1>2. o \in Op \ Signal
    BY <1>0, <1>1 DEF TypeOK
  <1>3. /\ ok' \in [Process -> SUBSET (Op \ Signal)]
        /\ accepted' \in SUBSET (Op \ Signal)
        /\ accepted \subseteq accepted'
        /\ \A e \in Process : ok'[e] \subseteq accepted'
        /\ served' \in {served, o}
    <2>1. CASE SendOk(d, o)
      BY <2>1, <1>0, <1>2 DEF SendOk, TypeOK, OkAccepted
    <2>2. CASE SendFails(d, o)
      BY <2>2, <1>0, <1>2 DEF SendFails, TypeOK, OkAccepted
    <2> QED BY <2>1, <2>2
  <1>4. /\ pc' \in [Process -> {"idle", "claim", "sweep", "zone", "create", "mark", "send", "record"}]
        /\ pc'[d] \in {"send", "record"}
        /\ \A e \in Process \ {d} : pc'[e] = pc[e]
    BY <1>0, <1>1 DEF TypeOK
  <1>5. served' \in 0 .. MaxOps
    BY <1>0, <1>3 DEF TypeOK, Op, ConstantsAssumption
  <1>6. TypeOK'
    BY <1>0, <1>1, <1>3, <1>4, <1>5 DEF TypeOK
  <1>7. Sound(op)'
    BY <1>0, <1>1, <1>3 DEF Sound
  <1>8. Leased'
    <2>1. \A e \in Process : pc'[e] # "idle" => pc[e] # "idle"
      BY <1>1, <1>4
    <2> QED BY <2>1, <1>0, <1>1 DEF Leased
  <1>9. OkAccepted'
    BY <1>3 DEF OkAccepted
  <1>10. ZoneKnown'
    BY <1>0, <1>1, <1>4 DEF ZoneKnown
  <1>11. ZoneFirst'
    BY <1>0, <1>1, <1>4 DEF ZoneFirst
  <1> QED BY <1>6, <1>7, <1>8, <1>9, <1>10, <1>11 DEF IInv

\* The outcome is written on the rows that still carry the claim.
LEMMA RecordStep ==
    ASSUME ConstantsAssumption, IInv, NEW d \in Process, Record(d)
    PROVE  IInv'
  <1> DEFINE t == [o \in Op |->
                    IF o \notin Own(d) THEN op[o]
                    ELSE IF o \in Signal THEN Written("failed", op[o].attempts, None)
                    ELSE IF o \in Landed(d) THEN Written("applied", op[o].attempts + 1, None)
                    ELSE op[o]]
             F == Own(d) \ (Landed(d) \cup Signal)
  <1>0. TypeOK /\ Sound(op) /\ Leased /\ OkAccepted /\ ZoneKnown /\ ZoneFirst
    BY DEF IInv
  <1>1. /\ pc[d] = "record" /\ op' = FailAttempts(t, F) /\ Begin(d, "idle", {})
        /\ UNCHANGED <<queued, marker, enabled, zoneAt, served, claims, accepted, mishaps>>
    BY DEF Record, provider
  <1>2. /\ Own(d) \subseteq Op
        /\ \A o \in Own(d) : op[o].state = "in_flight" /\ op[o].claim = d
        /\ ok[d] \subseteq accepted
    BY <1>0 DEF Own, TypeOK, OkAccepted
  <1>3. ASSUME NEW o \in Op
        PROVE  op[o] \in Row /\ op[o].attempts \in Nat /\ MAX_OP_ATTEMPTS \in Nat
               /\ op[o].attempts \in 0 .. MAX_OP_ATTEMPTS
    <2>1. op[o] \in Row
      BY <1>0 DEF TypeOK
    <2> QED BY <2>1 DEF Row, ConstantsAssumption
  <1>4. ASSUME NEW o \in Op, o \notin Own(d) PROVE t[o] = op[o]
    BY <1>4
  <1>5. ASSUME NEW o \in Op, o \in F PROVE t[o] = op[o] /\ t[o].state = "in_flight"
    BY <1>2, <1>5
  <1>6. ASSUME NEW o \in Op, o \in Own(d), o \notin F
        PROVE  /\ t[o] \in Row
               /\ t[o].state \in {"failed", "applied"}
               /\ t[o].state = "failed" => o \in Signal
               /\ t[o].state = "applied" => o \in accepted
               /\ o \notin Signal => t[o].attempts = op[o].attempts + 1 /\ t[o].state = "applied"
    <2>1. op[o].attempts < MAX_OP_ATTEMPTS
      BY <1>0, <1>2, <1>6 DEF Sound
    <2>2. CASE o \in Signal
      <3>1. t[o] = Written("failed", op[o].attempts, None)
        BY <2>2, <1>6
      <3> QED BY <2>2, <3>1, <1>3 DEF Written, Row
    <2>3. CASE o \notin Signal
      <3>1. t[o] = Written("applied", op[o].attempts + 1, None) /\ o \in ok[d]
        BY <2>3, <1>6 DEF Landed
      <3>2. op[o].attempts + 1 \in 0 .. MAX_OP_ATTEMPTS
        BY <2>1, <1>3
      <3> QED BY <2>3, <3>1, <3>2, <1>2 DEF Written, Row
    <2> QED BY <2>2, <2>3
  <1>7. DOMAIN t = Op /\ t = [o \in Op |-> t[o]]
    OBVIOUS
  <1> HIDE DEF t, F
  <1>8. t \in [Op -> Row]
    <2>1. ASSUME NEW o \in Op PROVE t[o] \in Row
      BY <1>3, <1>4, <1>5, <1>6
    <2> QED BY <2>1, <1>7
  <1>9. Sound(t)
    <2> SUFFICES ASSUME NEW o \in Op
                 PROVE  /\ t[o].state \in {"pending", "in_flight"} => t[o].attempts < MAX_OP_ATTEMPTS
                        /\ o > queued => t[o].state = "none" /\ t[o].attempts = 0 /\ claims[o] = 0
                        /\ o \notin Signal =>
                              t[o].attempts + (IF t[o].state = "in_flight" THEN 1 ELSE 0) = claims[o]
                        /\ o \notin Signal /\ t[o].state = "failed" => t[o].attempts = MAX_OP_ATTEMPTS
                        /\ t[o].state = "applied" => o \in accepted
      BY DEF Sound
    <2>1. CASE o \notin Own(d) \/ o \in F
      BY <2>1, <1>0, <1>4, <1>5 DEF Sound
    <2>2. CASE o \in Own(d) /\ o \notin F
      <3>1. op[o].state = "in_flight" /\ ~(o > queued)
        BY <2>2, <1>0, <1>2 DEF Sound
      <3>2. o \notin Signal => op[o].attempts + 1 = claims[o]
        BY <3>1, <1>0 DEF Sound
      <3>3. o \notin Signal => t[o].attempts + 0 = claims[o]
        BY <2>2, <3>2, <1>3, <1>6
      <3> QED BY <2>2, <3>1, <3>3, <1>6
    <2> QED BY <2>1, <2>2
  <1>10. F \in SUBSET Op /\ \A o \in F : t[o].state = "in_flight"
    BY <1>2, <1>5 DEF F
  <1> DEFINE u == FailAttempts(t, F)
  <1>u. u \in [Op -> Row] /\ Sound(u) /\ \A o \in Op \ F : u[o] = t[o]
    BY <1>0, <1>8, <1>9, <1>10, FailAttemptsSound
  <1>v. op' = u
    BY <1>1
  <1> HIDE DEF u
  <1>11. op' \in [Op -> Row] /\ \A o \in Op \ F : op'[o] = t[o]
    BY <1>u, <1>v
  <1>12. Sound(op)'
    BY <1>1, <1>u, <1>v DEF Sound
  <1>13. /\ pc' \in [Process -> {"idle", "claim", "sweep", "zone", "create", "mark", "send", "record"}]
         /\ unit' \in [Process -> SUBSET Op]
         /\ rows' \in [Process -> SUBSET Op]
         /\ unsent' \in [Process -> SUBSET (Op \ Signal)]
         /\ ok' \in [Process -> SUBSET (Op \ Signal)]
         /\ answer' \in [Process -> {"none", "asked", "present", "error", "paused"}]
         /\ late' \in [Process -> SUBSET Op]
         /\ pc'[d] = "idle" /\ rows'[d] = {} /\ ok'[d] = {}
         /\ \A e \in Process \ {d} : /\ pc'[e] = pc[e] /\ rows'[e] = rows[e] /\ ok'[e] = ok[e]
                                     /\ answer'[e] = answer[e] /\ late'[e] = late[e]
    BY <1>0, <1>1, BeginEffect
  <1>14. TypeOK'
    BY <1>0, <1>1, <1>11, <1>13 DEF TypeOK
  <1>15. Leased'
    <2> SUFFICES ASSUME NEW e \in Process, pc'[e] # "idle", NEW o \in rows'[e] \ late'[e]
                 PROVE  op'[o].state = "in_flight" /\ op'[o].claim = e /\ ~op'[o].due
      BY DEF Leased
    <2>1. e # d
      BY <1>13
    <2>2. o \in Op /\ op[o].state = "in_flight" /\ op[o].claim = e /\ ~op[o].due
      BY <2>1, <1>0, <1>13 DEF Leased, TypeOK
    <2>3. o \notin Own(d)
      BY <2>1, <2>2, <1>2
    <2>4. op'[o] = op[o]
      BY <2>2, <2>3, <1>4, <1>11 DEF F
    <2> QED BY <2>2, <2>4
  <1>16. OkAccepted'
    BY <1>0, <1>1, <1>13 DEF OkAccepted
  <1>17. ZoneKnown'
    BY <1>0, <1>1, <1>13 DEF ZoneKnown
  <1>18. ZoneFirst'
    BY <1>0, <1>1, <1>13 DEF ZoneFirst
  <1> QED BY <1>12, <1>14, <1>15, <1>16, <1>17, <1>18 DEF IInv

\* Time: a lease that runs out under a running dispatch makes its row late.
LEMMA ElapseStep ==
    ASSUME ConstantsAssumption, IInv, NEW o \in Op, Elapse(o)
    PROVE  IInv'
  <1> DEFINE r == [state |-> op[o].state, attempts |-> op[o].attempts,
                   due |-> TRUE, claim |-> op[o].claim]
  <1>0. TypeOK /\ Sound(op) /\ Leased /\ OkAccepted /\ ZoneKnown /\ ZoneFirst
    BY DEF IInv
  <1>1. /\ op[o].state \in {"pending", "in_flight"}
        /\ op' = [op EXCEPT ![o] = r]
        /\ late' = [d \in Process |-> IF op[o].state = "in_flight" /\ o \in rows[d]
                                      THEN late[d] \cup {o} ELSE late[d]]
        /\ UNCHANGED <<queued, marker, enabled, zoneAt, served, pc, unit, rows, unsent, ok, answer,
                       claims, accepted, mishaps>>
    BY DEF Elapse, provider, work
  <1>2. op[o] \in Row
    BY <1>0 DEF TypeOK
  <1>3. r \in Row
    BY <1>2 DEF Row
  <1>4. r.state = op[o].state /\ r.attempts = op[o].attempts
    OBVIOUS
  <1> HIDE DEF r
  <1>5. op' \in [Op -> Row] /\ op'[o] = r /\ \A p \in Op \ {o} : op'[p] = op[p]
    BY <1>0, <1>1, <1>3 DEF TypeOK
  <1>6. late' \in [Process -> SUBSET Op]
    BY <1>0, <1>1 DEF TypeOK
  <1>7. TypeOK'
    BY <1>0, <1>1, <1>5, <1>6 DEF TypeOK
  <1>8. \A p \in Op : op'[p].state = op[p].state /\ op'[p].attempts = op[p].attempts
    BY <1>4, <1>5
  <1>9. Sound(op)'
    BY <1>0, <1>1, <1>8 DEF Sound
  <1>10. Leased'
    <2> SUFFICES ASSUME NEW e \in Process, pc'[e] # "idle", NEW p \in rows'[e] \ late'[e]
                 PROVE  op'[p].state = "in_flight" /\ op'[p].claim = e /\ ~op'[p].due
      BY DEF Leased
    <2>1. p \in rows[e] \ late[e] /\ p \in Op
      BY <1>0, <1>1 DEF TypeOK
    <2>2. op[p].state = "in_flight" /\ op[p].claim = e /\ ~op[p].due
      BY <2>1, <1>0, <1>1 DEF Leased
    <2>3. p # o
      BY <2>1, <2>2, <1>1
    <2> QED BY <2>1, <2>2, <2>3, <1>5
  <1>11. OkAccepted' /\ ZoneFirst' /\ ZoneKnown'
    BY <1>0, <1>1 DEF OkAccepted, ZoneFirst, ZoneKnown
  <1> QED BY <1>7, <1>9, <1>10, <1>11 DEF IInv

\* The marker's retry time passes; the server is paused or resumed.
LEMMA OutsideStep ==
    ASSUME ConstantsAssumption, IInv, MarkerElapses \/ Pause \/ Resume
    PROVE  IInv'
  <1>0. TypeOK /\ Sound(op) /\ Leased /\ OkAccepted /\ ZoneKnown /\ ZoneFirst
    BY DEF IInv
  <1>1. /\ marker' = marker \/ (marker = "waiting" /\ marker' = "due")
        /\ enabled' \in BOOLEAN /\ mishaps' \in 0 .. MaxMishaps
        /\ UNCHANGED <<queued, op, zoneAt, served, pc, unit, rows, unsent, ok, answer, late,
                       claims, accepted>>
    <2>0. enabled \in BOOLEAN /\ mishaps \in 0 .. MaxMishaps /\ MaxMishaps \in Nat
      BY <1>0 DEF TypeOK, ConstantsAssumption
    <2>1. CASE MarkerElapses
      BY <2>0, <2>1 DEF MarkerElapses, provider, work
    <2>2. CASE Pause
      <3>1. mishaps' = mishaps - 1 /\ mishaps > 0
        BY <2>2 DEF Pause
      <3>2. mishaps' \in 0 .. MaxMishaps
        BY <2>0, <3>1
      <3> QED BY <2>2, <3>2 DEF Pause, provider, work
    <2>3. CASE Resume
      BY <2>0, <2>3 DEF Resume, provider, work
    <2> QED BY <2>1, <2>2, <2>3
  <1>2. TypeOK'
    BY <1>0, <1>1 DEF TypeOK, Outstanding
  <1>3. Sound(op)' /\ Leased' /\ OkAccepted' /\ ZoneFirst'
    BY <1>0, <1>1 DEF Sound, Leased, OkAccepted, ZoneFirst
  <1>4. ZoneKnown'
    BY <1>0, <1>1 DEF ZoneKnown
  <1> QED BY <1>2, <1>3, <1>4 DEF IInv

-----------------------------------------------------------------------------
(* The invariant.                                                          *)

\* The invariant holds at the start.
LEMMA InitIInv ==
    ASSUME ConstantsAssumption, Init
    PROVE  IInv
  <1>1. Written("none", 0, None) \in Row /\ Written("none", 0, None).state = "none"
        /\ Written("none", 0, None).attempts = 0
    BY DEF Written, Row, ConstantsAssumption
  <1>2. op = [o \in Op |-> Written("none", 0, None)]
    BY DEF Init
  <1>3. op \in [Op -> Row] /\ \A o \in Op : op[o].state = "none" /\ op[o].attempts = 0
    BY <1>1, <1>2
  <1>4. zoneAt \in BOOLEAN /\ (marker = "clear" => zoneAt)
    BY DEF Init
  <1>5. TypeOK
    BY <1>3, <1>4 DEF Init, TypeOK, Outstanding, ConstantsAssumption
  <1>6. Sound(op)
    BY <1>3 DEF Init, Sound
  <1>7. Leased /\ OkAccepted /\ ZoneKnown /\ ZoneFirst
    BY <1>4 DEF Init, Leased, OkAccepted, ZoneKnown, ZoneFirst
  <1> QED BY <1>5, <1>6, <1>7 DEF IInv

\* Every step preserves it.
LEMMA NextIInv ==
    ASSUME ConstantsAssumption, IInv, [Next]_vars
    PROVE  IInv'
  <1>1. ASSUME NEW d \in Writer, NEW n \in 1 .. MaxTxnOps, Commit(d, n) PROVE IInv'
    BY <1>1, CommitStep DEF Process
  <1>2. ASSUME NEW d \in Sweeper, Sweep(d) PROVE IInv'
    BY <1>2, SweepStep DEF Process
  <1>3. ASSUME NEW d \in Process, InlineClaim(d) \/ SweepClaim(d) PROVE IInv'
    BY <1>3, InlineClaimStep, SweepClaimStep
  <1>4. ASSUME NEW d \in Process, ReadZone(d) \/ ZoneCreated(d) \/ ZoneFails(d) \/ Mark(d)
        PROVE  IInv'
    BY <1>4, ReadZoneStep, ZoneCallStep, MarkStep
  <1>5. ASSUME NEW d \in Process, NEW o \in Op, SendOk(d, o) \/ SendFails(d, o) PROVE IInv'
    BY <1>5, SendStep
  <1>6. ASSUME NEW d \in Process, Record(d) \/ Crash(d) PROVE IInv'
    BY <1>6, RecordStep, CrashStep
  <1>7. ASSUME NEW o \in Op, Elapse(o) PROVE IInv'
    BY <1>7, ElapseStep
  <1>8. CASE MarkerElapses \/ Pause \/ Resume
    BY <1>8, OutsideStep
  <1>9. CASE UNCHANGED vars
    <2>1. UNCHANGED <<queued, op, marker, enabled, zoneAt, served, pc, unit, rows, unsent, ok,
                      answer, late, claims, accepted, mishaps>>
      BY <1>9 DEF vars, db, provider, work
    <2>2. TypeOK' /\ Sound(op)'
      BY <2>1 DEF IInv, TypeOK, Sound
    <2>3. Leased' /\ OkAccepted' /\ ZoneKnown' /\ ZoneFirst'
      BY <2>1 DEF IInv, Leased, OkAccepted, ZoneKnown, ZoneFirst
    <2> QED BY <2>2, <2>3 DEF IInv
  <1> QED BY <1>1, <1>2, <1>3, <1>4, <1>5, <1>6, <1>7, <1>8, <1>9 DEF Next

\* So it always holds.
LEMMA Invariance == Spec => []IInv
  <1>1. Init => IInv
    BY InitIInv, ConstantsAssumption
  <1>2. IInv /\ [Next]_vars => IInv'
    BY NextIInv, ConstantsAssumption
  <1> QED BY <1>1, <1>2, PTL DEF Spec

\* Every variable keeps its type; no op is charged more than its budget.
THEOREM TypeCorrect == Spec => []TypeOK
  <1>1. IInv => TypeOK
    BY DEF IInv
  <1> QED BY <1>1, Invariance, PTL

\* A row a running dispatch claimed is its own until the lease has run out.
THEOREM ClaimsExclusive == Spec => []LeaseExclusive
  <1>1. IInv => LeaseExclusive
    BY DEF IInv, Leased, LeaseExclusive
  <1> QED BY <1>1, Invariance, PTL

\* Every claim is charged to the op's budget exactly once.
THEOREM AttemptsCharged == Spec => []BudgetHonest
  <1>1. IInv => BudgetHonest
    <2> SUFFICES ASSUME IInv, NEW o \in Op \ Signal
                 PROVE  /\ op[o].attempts + (IF op[o].state = "in_flight" THEN 1 ELSE 0) = claims[o]
                        /\ op[o].state = "failed" => claims[o] = MAX_OP_ATTEMPTS
      BY DEF BudgetHonest
    <2>1. op[o].attempts + (IF op[o].state = "in_flight" THEN 1 ELSE 0) = claims[o]
      BY DEF IInv, Sound
    <2>2. op[o].state = "failed" => op[o].attempts = MAX_OP_ATTEMPTS
      BY DEF IInv, Sound
    <2>3. MAX_OP_ATTEMPTS \in Nat
      BY ConstantsAssumption DEF ConstantsAssumption
    <2> QED BY <2>1, <2>2, <2>3
  <1> QED BY <1>1, Invariance, PTL

\* An op recorded as applied was accepted by the provider.
THEOREM AppliedAccepted == Spec => []AppliedIsTrue
  <1>1. IInv => AppliedIsTrue
    BY DEF IInv, Sound, AppliedIsTrue
  <1> QED BY <1>1, Invariance, PTL

\* Rows are sent to a provider that holds their zone, unless it was paused.
THEOREM ZoneBeforeRows == Spec => []ZoneFirst
  <1>1. IInv => ZoneFirst
    BY DEF IInv
  <1> QED BY <1>1, Invariance, PTL
=============================================================================
