--------------------------- MODULE DNSBundleProofs ---------------------------
(***************************************************************************)
(* Proofs about DNSBundle.                                                 *)
(*                                                                         *)
(* Whoever renders beside whom, a bundle that is served as current has     *)
(* read every committed change (CurrentIsAlwaysComplete).  That the agent  *)
(* is never given a body older than what it has, and that no record it     *)
(* serves is dropped, needs more: renders of one server do not overlap     *)
(* (OneRender); and so does that an op retired under views is in the       *)
(* bundle the agents are served.                                           *)
(***************************************************************************)
EXTENDS DNSBundle, FiniteSetTheorems, TLAPS

-----------------------------------------------------------------------------
(* The inductive invariant of the store.                                   *)

\* The three reads of a render are taken in this order.
RenderOK ==
    \A r \in Renderer :
        LET x == render[r]
        IN  /\ x.phase # "idle" => x.w =< committed
            /\ x.phase \in {"gated", "read"} => x.w =< x.snap /\ x.snap =< committed
            /\ x.phase = "read" => x.snap =< x.body /\ x.body =< committed

\* A stored body has read at least what it is gated at and claims, and there
\* is one row per watermark.
RowsOK ==
    /\ \A x \in rows : /\ x.w =< x.snap /\ x.snap =< x.body
                       /\ x.body =< committed
    /\ \A x, y \in rows : x.w = y.w => x = y
    /\ watermark = None => rows = {}

\* The bundle the server row points at is never pruned, nor is there a newer
\* one it does not point at: a slow render that stores late neither moves the
\* watermark back nor pushes the served row out.
ServedIsNewest ==
    watermark # None =>
        /\ \E x \in rows : x.w = watermark
        /\ \A x \in rows : x.w =< watermark

\* An op that is still to be tried has an attempt left.
BudgetOK == \A n \in Write :
    opState[n] \notin {"applied", "failed"} => attempts[n] < MAX_OP_ATTEMPTS

StoreInv == TypeOK /\ BudgetOK /\ RenderOK /\ RowsOK /\ ServedIsNewest

\* Prune drops rows only, and never the one with the largest watermark.
LEMMA PruneKeepsNewest ==
    ASSUME NEW R, \A x \in R : x.w \in Int,
           NEW x \in R, \A y \in R : y.w =< x.w
    PROVE  Prune(R) \subseteq R /\ x \in Prune(R)
<1>1. {y \in R : y.w > x.w} = {}
  OBVIOUS
<1>2. Cardinality({y \in R : y.w > x.w}) = 0
  BY <1>1, FS_EmptySet
<1>3. 0 < KeepVersions
  BY BundleAssumption
<1> QED
  BY <1>2, <1>3 DEF Prune

\* The initial state satisfies the store's invariant.
LEMMA StoreInvInit == Init => StoreInv
<1> SUFFICES ASSUME Init PROVE StoreInv
  OBVIOUS
<1> USE BundleAssumption
<1>1. 0 \in Version
  BY DEF Version
<1>2. Idle \in RenderState /\ NoPoll \in PollState
  BY <1>1 DEF Idle, RenderState, NoPoll, PollState
<1>3. TypeOK
  <2>1. /\ committed \in Version /\ restarts \in 0 .. MaxRestarts
        /\ watermark \in Version \cup {None}
        /\ held \in Version \cup {None} /\ rendered \in Version \cup {None}
    BY <1>1 DEF Init
  <2>2. /\ kind \in [Write -> {"none", "record", "structural"}]
        /\ opState \in [Write -> OpState] /\ views \in BOOLEAN
        /\ attempts \in [Write -> 0 .. MAX_OP_ATTEMPTS]
        /\ render \in [Renderer -> RenderState] /\ poll \in PollState
    BY <1>2 DEF Init, OpState
  <2>3. /\ rows \in SUBSET Bundle /\ fetched \in BOOLEAN
        /\ inbox \in SUBSET Write /\ live \in SUBSET Write
    BY DEF Init
  <2> QED
    BY <2>1, <2>2, <2>3 DEF TypeOK
<1>4. RenderOK
  BY DEF RenderOK, Init, Idle
<1> QED
  BY <1>3, <1>4 DEF StoreInv, BudgetOK, RowsOK, ServedIsNewest, Init

\* A failed attempt stays within the op's budget.
LEMMA FailAttemptStep ==
    ASSUME TypeOK, BudgetOK, NEW n \in Write, opState[n] \notin {"applied", "failed"},
           FailAttempt(n)
    PROVE  /\ opState' \in [Write -> OpState]
           /\ attempts' \in [Write -> 0 .. MAX_OP_ATTEMPTS]
           /\ BudgetOK'
           /\ opState'[n] \in {"pending", "failed"}
           /\ \A m \in Write : m # n => opState'[m] = opState[m]
<1> USE BundleAssumption
<1>1. /\ opState \in [Write -> OpState] /\ attempts \in [Write -> 0 .. MAX_OP_ATTEMPTS]
      /\ attempts[n] < MAX_OP_ATTEMPTS
  BY DEF TypeOK, BudgetOK
<1> QED
  BY <1>1 DEF FailAttempt, BudgetOK, OpState

\* A step keeps the types and the budgets.
LEMMA TypeStep ==
    TypeOK /\ BudgetOK /\ ServedIsNewest /\ [Next]_vars => TypeOK' /\ BudgetOK'
<1> SUFFICES ASSUME TypeOK, BudgetOK, ServedIsNewest, [Next]_vars
             PROVE  TypeOK' /\ BudgetOK'
  OBVIOUS
<1> USE BundleAssumption
<1>0. /\ opState \in [Write -> OpState] /\ attempts \in [Write -> 0 .. MAX_OP_ATTEMPTS]
      /\ views \in BOOLEAN
      /\ UNCHANGED opVars => BudgetOK'
  BY DEF TypeOK, BudgetOK, opVars
<1>1. Idle \in RenderState /\ NoPoll \in PollState
  BY DEF Idle, RenderState, NoPoll, PollState, Version
<1>1a. \A b \in Version \cup {None} : RecordsIn(b) \in SUBSET Write
  BY DEF RecordsIn, Version, Write, None
<1>2. CASE \E k \in {"record", "structural"} : Commit(k)
  <2>1. PICK k \in {"record", "structural"} : Commit(k)
    BY <1>2
  <2>2. committed + 1 \in Write /\ committed' \in Version
    BY <2>1 DEF Commit, TypeOK, Version, Write
  <2>3. /\ kind' \in [Write -> {"none", "record", "structural"}]
        /\ opState' \in [Write -> OpState]
        /\ attempts' \in [Write -> 0 .. MAX_OP_ATTEMPTS]
    BY <1>0, <2>1, <2>2 DEF Commit, TypeOK, OpState
  <2>4. BudgetOK'
    BY <1>0, <2>1, <2>2 DEF Commit, BudgetOK
  <2> QED
    BY <2>1, <2>2, <2>3, <2>4 DEF TypeOK, Commit, agentVars
<1>3. CASE \E r \in Renderer : RenderStart(r)
  <2>1. PICK r \in Renderer : RenderStart(r)
    BY <1>3
  <2>2. [Idle EXCEPT !.phase = "marked", !.w = committed] \in RenderState
    <3>1. committed \in Version
      BY DEF TypeOK
    <3> QED
      BY <1>1, <3>1 DEF RenderState
  <2> QED
    BY <1>0, <2>1, <2>2 DEF TypeOK, RenderStart, agentVars, opVars
<1>4. CASE \E r \in Renderer : RenderSnapshot(r)
  <2>1. PICK r \in Renderer : RenderSnapshot(r)
    BY <1>4
  <2>2. render[r] \in RenderState /\ committed \in Version
    BY DEF TypeOK
  <2>3. [render[r] EXCEPT !.phase = "gated", !.snap = committed] \in RenderState
    BY <2>2 DEF RenderState
  <2>4. render' = [render EXCEPT ![r] =
                     [render[r] EXCEPT !.phase = "gated", !.snap = committed]]
    BY <2>1 DEF RenderSnapshot, TypeOK
  <2>5. render' \in [Renderer -> RenderState]
    BY <2>3, <2>4 DEF TypeOK
  <2> QED
    BY <1>0, <2>1, <2>5 DEF TypeOK, RenderSnapshot, agentVars, opVars
<1>5. CASE \E r \in Renderer : RenderBody(r)
  <2>1. PICK r \in Renderer : RenderBody(r)
    BY <1>5
  <2>2. render[r] \in RenderState /\ committed \in Version
    BY DEF TypeOK
  <2>3. [render[r] EXCEPT !.phase = "read", !.body = committed] \in RenderState
    BY <2>2 DEF RenderState
  <2>4. render' = [render EXCEPT ![r] =
                     [render[r] EXCEPT !.phase = "read", !.body = committed]]
    BY <2>1 DEF RenderBody, TypeOK
  <2>5. render' \in [Renderer -> RenderState]
    BY <2>3, <2>4 DEF TypeOK
  <2> QED
    BY <1>0, <2>1, <2>5 DEF TypeOK, RenderBody, agentVars, opVars
<1>6. CASE \E r \in Renderer : RenderStore(r)
  <2>1. PICK r \in Renderer : RenderStore(r)
    BY <1>6
  <2> DEFINE new == [w |-> render[r].w, snap |-> render[r].snap,
                     body |-> render[r].body]
  <2>2. new \in Bundle /\ new.w \in Version
    BY <2>1 DEF TypeOK, Bundle, RenderState
  <2>3. opState' \in [Write -> OpState]
    BY <1>0, <2>1 DEF RenderStore, Retired, OpState
  <2>3a. BudgetOK'
    BY <1>0, <2>1 DEF RenderStore, Retired, BudgetOK
  <2>4. rows' \in SUBSET Bundle /\ watermark' \in Version \cup {None}
    BY <2>1, <2>2 DEF TypeOK, RenderStore, Prune
  <2>5. render' \in [Renderer -> RenderState]
    BY <1>1, <2>1 DEF TypeOK, RenderStore
  <2> QED
    BY <2>1, <2>3, <2>3a, <2>4, <2>5 DEF TypeOK, RenderStore, agentVars
<1>7. CASE \E r \in Renderer : RenderFail(r)
  BY <1>0, <1>1, <1>7 DEF TypeOK, RenderFail, agentVars, opVars
<1>8. CASE PollRead
  <2>1. Served \in rows
    BY <1>8 DEF PollRead, ServedIsNewest, Served
  <2>2. Served \in Bundle
    BY <2>1 DEF TypeOK
  <2>3. poll' \in PollState
    BY <1>8, <2>2 DEF PollRead, PollState, Bundle
  <2> QED
    BY <1>0, <1>8, <2>3 DEF TypeOK, PollRead, agentVars, opVars
<1>9. CASE \E d \in BOOLEAN : PollServe(d)
  <2>1. PICK d \in BOOLEAN : PollServe(d)
    BY <1>9
  <2>2. opState' \in [Write -> OpState] /\ BudgetOK'
    BY <1>0, <2>1 DEF PollServe, PollPage, OpState, BudgetOK
  <2> QED
    BY <1>1, <2>1, <2>2 DEF TypeOK, PollServe, PollPage, PollState
<1>10. CASE PollAgain
  BY <1>0, <1>1, <1>10 DEF TypeOK, PollAgain, agentVars, opVars
<1>11. CASE AgentReload
  <2>1. /\ rendered' \in Version \cup {None} /\ live' \in SUBSET Write
        /\ fetched' \in BOOLEAN
    BY <1>1a, <1>11 DEF TypeOK, AgentReload
  <2> QED
    BY <1>0, <1>11, <2>1 DEF TypeOK, AgentReload, opVars
<1>12. CASE \E ok \in BOOLEAN : AgentApplyOp(ok)
  <2>1. PICK ok \in BOOLEAN : AgentApplyOp(ok)
    BY <1>12
  <2>2. PICK n \in inbox :
          \/ /\ opState' = [opState EXCEPT ![n] = "applied"]
             /\ attempts' = [attempts EXCEPT ![n] =
                               IF opState[n] = "in_flight" THEN @ + 1 ELSE @]
          \/ IF opState[n] = "in_flight" THEN FailAttempt(n) ELSE UNCHANGED opVars
    BY <2>1 DEF AgentApplyOp
  <2>3. n \in Write
    BY DEF TypeOK
  <2>4. /\ opState' \in [Write -> OpState] /\ BudgetOK'
        /\ attempts' \in [Write -> 0 .. MAX_OP_ATTEMPTS]
    <3>1. CASE /\ opState' = [opState EXCEPT ![n] = "applied"]
               /\ attempts' = [attempts EXCEPT ![n] =
                               IF opState[n] = "in_flight" THEN @ + 1 ELSE @]
      BY <1>0, <2>3, <3>1 DEF OpState, BudgetOK
    <3>2. CASE opState[n] = "in_flight" /\ FailAttempt(n)
      BY <2>3, <3>2, FailAttemptStep
    <3>3. CASE UNCHANGED opVars
      BY <1>0, <3>3 DEF opVars
    <3> QED
      BY <2>2, <3>1, <3>2, <3>3
  <2>5. live' \in SUBSET Write /\ inbox' \in SUBSET Write
    BY <2>1 DEF AgentApplyOp, TypeOK
  <2> QED
    BY <2>1, <2>4, <2>5 DEF TypeOK, AgentApplyOp
<1>13. CASE \E n \in Write : OpReturned(n)
  <2>1. PICK n \in Write : OpReturned(n)
    BY <1>13
  <2>2. /\ opState' \in [Write -> OpState] /\ BudgetOK'
        /\ attempts' \in [Write -> 0 .. MAX_OP_ATTEMPTS]
    BY <2>1, FailAttemptStep DEF OpReturned
  <2> QED
    BY <2>1, <2>2 DEF TypeOK, OpReturned, agentVars
<1>14. CASE AgentRestart
  <2>1. live' \in SUBSET Write /\ restarts' \in 0 .. MaxRestarts
    BY <1>1a, <1>14 DEF TypeOK, AgentRestart
  <2> QED
    BY <1>0, <1>1, <1>14, <2>1 DEF TypeOK, AgentRestart, opVars
<1>15. CASE UNCHANGED vars
  BY <1>0, <1>15 DEF TypeOK, vars, agentVars, opVars
<1> QED
  BY <1>2, <1>3, <1>4, <1>5, <1>6, <1>7, <1>8, <1>9, <1>10, <1>11, <1>12,
     <1>13, <1>14, <1>15 DEF Next

\* A step keeps the order of every render's reads.
LEMMA RenderStep == StoreInv /\ [Next]_vars => RenderOK'
<1> SUFFICES ASSUME StoreInv, [Next]_vars PROVE RenderOK'
  OBVIOUS
<1> USE BundleAssumption
<1>1. /\ committed \in Int /\ committed' \in Int /\ committed =< committed'
      /\ render \in [Renderer -> RenderState]
  <2>1. committed' = committed \/ committed' = committed + 1
    BY DEF Next, vars, agentVars, Commit, RenderStart, RenderSnapshot,
           RenderBody, RenderStore, RenderFail, PollRead, PollServe, PollAgain,
           AgentReload, AgentApplyOp, OpReturned, AgentRestart
  <2> QED
    BY <2>1 DEF StoreInv, TypeOK, Version
<1>2. \A r \in Renderer : /\ render[r] \in RenderState
                          /\ render[r].w \in Int /\ render[r].snap \in Int
                          /\ render[r].body \in Int
  BY <1>1 DEF RenderState, Version
<1>3. CASE UNCHANGED render
  BY <1>1, <1>2, <1>3 DEF StoreInv, RenderOK
<1>4. CASE \E r \in Renderer : RenderStart(r)
  BY <1>1, <1>2, <1>4 DEF StoreInv, RenderOK, RenderStart, Idle
<1>5. CASE \E r \in Renderer : RenderSnapshot(r)
  BY <1>1, <1>2, <1>5 DEF StoreInv, RenderOK, RenderSnapshot, RenderState
<1>6. CASE \E r \in Renderer : RenderBody(r)
  BY <1>1, <1>2, <1>6 DEF StoreInv, RenderOK, RenderBody, RenderState
<1>7. CASE \E r \in Renderer : RenderStore(r) \/ RenderFail(r)
  BY <1>1, <1>2, <1>7 DEF StoreInv, RenderOK, RenderStore, RenderFail, Idle
<1> QED
  BY <1>3, <1>4, <1>5, <1>6, <1>7
     DEF Next, vars, Commit, PollRead, PollServe, PollAgain, AgentReload,
         AgentApplyOp, OpReturned, AgentRestart

\* What one RenderStore does to the table: nothing, or the new row goes in,
\* older ones may go out, and the watermark is the largest of the table.
LEMMA StoreStep ==
    ASSUME StoreInv, NEW r \in Renderer, RenderStore(r)
    PROVE  LET new == [w |-> render[r].w, snap |-> render[r].snap,
                       body |-> render[r].body]
           IN  \/ rows' = rows /\ watermark' = watermark
               \/ /\ \A x \in rows : x.w # new.w
                  /\ rows' \subseteq rows \cup {new}
                  /\ watermark # None /\ watermark > new.w
                  /\ watermark' = watermark
                  /\ \A x \in rows : x.w = watermark => x \in rows'
               \/ /\ \A x \in rows : x.w < new.w
                  /\ rows' \subseteq rows \cup {new}
                  /\ new \in rows' /\ watermark' = new.w
<1> DEFINE new == [w |-> render[r].w, snap |-> render[r].snap,
                   body |-> render[r].body]
           R == rows \cup {new}
           lost == \E x \in rows : x.w = new.w
<1> USE BundleAssumption
<1>1. /\ new.w \in Int /\ \A x \in rows : x.w \in Int
      /\ watermark \in Int
  BY DEF StoreInv, TypeOK, Bundle, RenderState, Version, None
<1>2. CASE lost
  BY <1>2 DEF RenderStore
<1>3. CASE ~ lost
  <2>1. /\ rows' = Prune(R)
        /\ watermark' = IF watermark = None \/ watermark =< new.w
                        THEN new.w ELSE watermark
    BY <1>3 DEF RenderStore
  <2>2. \A x \in R : x.w \in Int
    BY <1>1
  <2>3. rows' \subseteq R
    BY <2>1 DEF Prune
  <2>4. CASE watermark = None \/ watermark =< new.w
    <3>1. \A x \in rows : x.w < new.w
      BY <1>1, <1>3, <2>4 DEF StoreInv, RowsOK, ServedIsNewest
    <3>2. \A x \in R : x.w =< new.w
      BY <1>1, <3>1
    <3>3. new \in Prune(R)
      BY <2>2, <3>2, PruneKeepsNewest
    <3> QED
      BY <2>1, <2>3, <2>4, <3>1, <3>3
  <2>5. CASE ~ (watermark = None \/ watermark =< new.w)
    <3>1. watermark > new.w
      BY <1>1, <2>5
    <3>2. ASSUME NEW x \in rows, x.w = watermark PROVE x \in Prune(R)
      <4>1. \A y \in R : y.w =< x.w
        BY <1>1, <2>5, <3>1, <3>2 DEF StoreInv, ServedIsNewest
      <4> QED
        BY <2>2, <4>1, PruneKeepsNewest
    <3> QED
      BY <1>3, <2>1, <2>3, <2>5, <3>1, <3>2
  <2> QED
    BY <2>4, <2>5
<1> QED
  BY <1>2, <1>3

\* A step keeps what is known of the stored rows and of the served one.
LEMMA RowsStep == StoreInv /\ [Next]_vars => RowsOK' /\ ServedIsNewest'
<1> SUFFICES ASSUME StoreInv, [Next]_vars PROVE RowsOK' /\ ServedIsNewest'
  OBVIOUS
<1> USE BundleAssumption
<1>1. /\ committed \in Int /\ committed' \in Int /\ committed =< committed'
      /\ \A x \in rows : x.w \in Int /\ x.snap \in Int /\ x.body \in Int
  <2>1. committed' = committed \/ committed' = committed + 1
    BY DEF Next, vars, agentVars, Commit, RenderStart, RenderSnapshot,
           RenderBody, RenderStore, RenderFail, PollRead, PollServe, PollAgain,
           AgentReload, AgentApplyOp, OpReturned, AgentRestart
  <2> QED
    BY <2>1 DEF StoreInv, TypeOK, Version, Bundle
<1>2. CASE UNCHANGED <<rows, watermark>>
  BY <1>1, <1>2 DEF StoreInv, RowsOK, ServedIsNewest
<1>3. CASE \E r \in Renderer : RenderStore(r)
  <2>1. PICK r \in Renderer : RenderStore(r)
    BY <1>3
  <2> DEFINE new == [w |-> render[r].w, snap |-> render[r].snap,
                     body |-> render[r].body]
  <2>2. /\ new.w =< new.snap /\ new.snap =< new.body /\ new.body =< committed
        /\ new.w \in Int /\ new.w # None /\ new.snap \in Int /\ new.body \in Int
    BY <2>1 DEF StoreInv, TypeOK, RenderOK, RenderStore, RenderState, Version,
                None
  <2>3. watermark \in Int /\ committed' = committed
    BY <2>1 DEF StoreInv, TypeOK, Version, None, RenderStore
  <2>4. \/ rows' = rows /\ watermark' = watermark
        \/ /\ \A x \in rows : x.w # new.w
           /\ rows' \subseteq rows \cup {new}
           /\ watermark # None /\ watermark > new.w
           /\ watermark' = watermark
           /\ \A x \in rows : x.w = watermark => x \in rows'
        \/ /\ \A x \in rows : x.w < new.w
           /\ rows' \subseteq rows \cup {new}
           /\ new \in rows' /\ watermark' = new.w
    BY <2>1, StoreStep
  <2> HIDE DEF new
  <2> QED
    BY <1>1, <2>2, <2>3, <2>4 DEF StoreInv, RowsOK, ServedIsNewest
<1> QED
  BY <1>2, <1>3
     DEF Next, vars, Commit, RenderStart, RenderSnapshot, RenderBody,
         RenderFail, PollRead, PollServe, PollAgain, AgentReload,
         AgentApplyOp, OpReturned, AgentRestart

\* The store's invariant holds in every state, for any set of renderers.
THEOREM StoreInvariance == Spec => []StoreInv
<1>1. StoreInv /\ [Next]_vars => StoreInv'
  BY TypeStep, RenderStep, RowsStep DEF StoreInv
<1> QED
  BY <1>1, StoreInvInit, PTL DEF Spec

\* Every variable keeps its type.
THEOREM BundleTypeCorrect == Spec => []TypeOK
<1>1. StoreInv => TypeOK
  BY DEF StoreInv
<1> QED
  BY <1>1, StoreInvariance, PTL

\* agent_bundle_store.store and prune, under any number of concurrent
\* renders: the row the server row points at exists and is the newest.
THEOREM ServedIsAlwaysNewest == Spec => []ServedIsNewest
<1>1. StoreInv => ServedIsNewest
  BY DEF StoreInv
<1> QED
  BY <1>1, StoreInvariance, PTL

\* agent_bundle_render's ordering of its reads, under any number of
\* concurrent renders: no stale bundle is ever current.
THEOREM CurrentIsAlwaysComplete == Spec => []CurrentIsComplete
<1>1. StoreInv => CurrentIsComplete
  BY BundleAssumption
     DEF StoreInv, CurrentIsComplete, IsCurrent, ServedIsNewest, RowsOK, TypeOK,
         Bundle, Version, None
<1> QED
  BY <1>1, StoreInvariance, PTL

-----------------------------------------------------------------------------
(* One render at a time: what the agent is given.                          *)

\* The per-server lock is held by one render, and the api does not render.
OneRender == \A r, s \in Renderer : r = s

\* The bundle at the watermark has read the first b changes.
Reached(b) == \E x \in rows : x.w = watermark /\ b =< x.body

\* A render under way began after every stored body was read.
InTurn == \A r \in Renderer : \A x \in rows :
            render[r].phase # "idle" => x.body =< render[r].w

\* The bodies in the poll's and the agent's hands come from the store, in order.
Handed ==
    /\ poll.open => /\ poll.snap =< poll.body /\ held =< poll.body
                    /\ Reached(poll.body)
    /\ held # None => Reached(held)

\* What the agent has of single records is in the body it holds.
Records ==
    /\ \A n \in inbox \cup live : n =< held /\ kind[n] = "record"
    /\ \A n \in Write : opState[n] # "none" => kind[n] = "record"
    /\ \A n \in Write : n > committed => kind[n] = "none"

\* An op the agent has in hand has not been given up.
InHand == \A n \in inbox : opState[n] # "failed"

AgentInv == StoreInv /\ InTurn /\ Handed /\ Records /\ InHand /\ HeldCoversApplied

\* The initial state satisfies the agent's invariant.
LEMMA AgentInvInit == Init => AgentInv
<1> SUFFICES ASSUME Init PROVE AgentInv
  OBVIOUS
<1>1. InTurn /\ Handed
  BY DEF Init, InTurn, Handed, NoPoll
<1>2. Records /\ InHand /\ HeldCoversApplied
  BY DEF Init, Records, InHand, HeldCoversApplied
<1> QED
  BY <1>1, <1>2, StoreInvInit DEF AgentInv

\* The bundle at the watermark never loses a change, and every stored body
\* stays behind the sequence of a render under way.
LEMMA ReachedStep ==
    ASSUME OneRender, AgentInv, [Next]_vars
    PROVE  InTurn' /\ \A b \in Int : Reached(b) => Reached(b)'
<1> USE BundleAssumption
<1>1. /\ committed \in Int
      /\ \A x \in rows : x.w \in Int /\ x.body \in Int /\ x.body =< committed
      /\ render \in [Renderer -> RenderState]
      /\ \A r \in Renderer : render[r].w \in Int
  BY DEF AgentInv, StoreInv, RowsOK, TypeOK, Version, Bundle, RenderState
<1>2. CASE UNCHANGED <<rows, watermark, render>>
  BY <1>2 DEF AgentInv, InTurn, Reached
<1>3. CASE \E r \in Renderer : RenderStart(r)
  BY <1>1, <1>3 DEF AgentInv, InTurn, Reached, RenderStart, Idle
<1>4. CASE \E r \in Renderer : RenderSnapshot(r) \/ RenderBody(r)
  BY <1>1, <1>4 DEF AgentInv, InTurn, Reached, RenderSnapshot, RenderBody,
                    RenderState
<1>5. CASE \E r \in Renderer : RenderFail(r)
  BY <1>1, <1>5 DEF AgentInv, InTurn, Reached, RenderFail, Idle
<1>6. CASE \E r \in Renderer : RenderStore(r)
  <2>1. PICK r \in Renderer : RenderStore(r)
    BY <1>6
  <2>2. \A s \in Renderer : render'[s].phase = "idle"
    BY <1>1, <2>1 DEF RenderStore, Idle, OneRender
  <2> DEFINE new == [w |-> render[r].w, snap |-> render[r].snap,
                     body |-> render[r].body]
  <2>3. /\ new.w =< new.body /\ new.w \in Int /\ new.body \in Int
        /\ \A x \in rows : x.body =< new.w
    BY <2>1 DEF AgentInv, InTurn, StoreInv, RenderOK, RenderStore, TypeOK,
                RenderState, Version
  <2>4. \/ rows' = rows /\ watermark' = watermark
        \/ /\ watermark' = watermark
           /\ \A x \in rows : x.w = watermark => x \in rows'
        \/ new \in rows' /\ watermark' = new.w
    BY <2>1, StoreStep DEF AgentInv
  <2>5. ASSUME NEW b \in Int, Reached(b) PROVE Reached(b)'
    <3>1. PICK x \in rows : x.w = watermark /\ b =< x.body
      BY <2>5 DEF Reached
    <3>2. b =< new.body
      BY <1>1, <2>3, <3>1
    <3> HIDE DEF new
    <3> QED
      BY <2>4, <3>1, <3>2 DEF Reached
  <2> QED
    BY <2>2, <2>5 DEF InTurn
<1> QED
  BY <1>2, <1>3, <1>4, <1>5, <1>6
     DEF Next, vars, Commit, PollRead, PollServe, PollAgain, AgentReload,
         AgentApplyOp, OpReturned, AgentRestart

\* Whether the group uses views does not change.
LEMMA ViewsFixed == [Next]_vars => views' = views
  BY DEF Next, vars, Commit, RenderStart, RenderSnapshot, RenderBody, RenderStore,
         RenderFail, PollRead, PollServe, PollAgain, AgentReload, AgentApplyOp,
         OpReturned, AgentRestart

\* A step keeps the agent's invariant, and moves the held body and the served
\* records forward only.
LEMMA AgentStep ==
    ASSUME OneRender, AgentInv, [Next]_vars
    PROVE  /\ Handed' /\ Records' /\ HeldCoversApplied'
           /\ held' >= held /\ live \subseteq live'
<1> USE BundleAssumption
<1>1. /\ committed \in Int /\ held \in Int /\ poll.body \in Int
      /\ poll.snap \in Int /\ \A n \in Write : n \in Int
      /\ inbox \subseteq Write /\ live \subseteq Write
      /\ kind \in [Write -> {"none", "record", "structural"}]
      /\ opState \in [Write -> OpState]
      /\ views \in BOOLEAN /\ views' = views
      /\ TypeOK /\ BudgetOK
  BY ViewsFixed DEF AgentInv, StoreInv, TypeOK, Version, Write, None, PollState
<1>2. \A b \in Int : Reached(b) => Reached(b)'
  BY ReachedStep
<1>3. CASE \E k \in {"record", "structural"} : Commit(k)
  <2>1. PICK k \in {"record", "structural"} : Commit(k)
    BY <1>3
  <2>2. UNCHANGED <<held, live, inbox, poll>>
    BY <2>1 DEF Commit, agentVars
  <2>3. committed + 1 \in Write
    BY <2>1 DEF Commit, Write, AgentInv, StoreInv, TypeOK, Version
  <2>4. kind[committed + 1] = "none"
    BY <1>1, <2>3 DEF AgentInv, Records
  <2>5. \A n \in Write : n # committed + 1 =>
                              kind'[n] = kind[n] /\ opState'[n] = opState[n]
    BY <1>1, <2>1 DEF Commit
  <2>6. /\ kind'[committed + 1] = k
        /\ opState'[committed + 1] = IF k = "record" THEN "pending" ELSE "none"
    BY <1>1, <2>1, <2>3 DEF Commit
  <2>7. \A n \in inbox \cup live : n # committed + 1
    BY <2>4 DEF AgentInv, Records
  <2>8. Records'
    <3>1. \A n \in inbox \cup live : n =< held /\ kind'[n] = "record"
      BY <1>1, <2>5, <2>7 DEF AgentInv, Records
    <3>2. \A n \in Write : opState'[n] # "none" => kind'[n] = "record"
      BY <2>5, <2>6 DEF AgentInv, Records
    <3>3. \A n \in Write : n > committed + 1 => kind'[n] = "none"
      BY <1>1, <2>5 DEF AgentInv, Records
    <3> QED
      BY <2>1, <2>2, <3>1, <3>2, <3>3 DEF Records, Commit
  <2>9. HeldCoversApplied'
    BY <1>1, <2>2, <2>5, <2>6 DEF AgentInv, HeldCoversApplied
  <2> QED
    BY <1>1, <1>2, <2>2, <2>8, <2>9 DEF AgentInv, Handed
<1>4. CASE \E r \in Renderer : \/ RenderStart(r) \/ RenderSnapshot(r)
                               \/ RenderBody(r) \/ RenderFail(r)
  BY <1>1, <1>2, <1>4 DEF AgentInv, Handed, Records, HeldCoversApplied, agentVars, opVars,
                    RenderStart, RenderSnapshot, RenderBody, RenderFail
<1>5. CASE \E r \in Renderer : RenderStore(r)
  <2>1. UNCHANGED <<committed, kind, poll, agentVars>>
    BY <1>5 DEF RenderStore
  <2>2. PICK s : opState' = Retired(s)
    BY <1>5 DEF RenderStore
  <2>3. \A n \in Write : /\ opState'[n] # "none" => opState[n] # "none"
                         /\ ~ views => opState'[n] = opState[n]
    BY <1>1, <2>2 DEF Retired
  <2>3a. /\ held' = held /\ live' = live /\ inbox' = inbox
         /\ kind' = kind /\ committed' = committed
    BY <2>1 DEF agentVars
  <2>4. Records'
    <3>1. \A n \in Write : opState'[n] # "none" => kind[n] = "record"
      BY <2>3 DEF AgentInv, Records
    <3> QED
      BY <2>3a, <3>1 DEF AgentInv, Records
  <2>5. HeldCoversApplied'
    <3>1. CASE views
      BY <1>1, <3>1 DEF HeldCoversApplied
    <3>2. CASE ~ views
      <4>1. \A n \in Write : opState'[n] = "applied" => n =< held
        BY <2>3, <3>2 DEF AgentInv, HeldCoversApplied
      <4> QED
        BY <1>1, <2>3a, <4>1 DEF HeldCoversApplied
    <3> QED
      BY <3>1, <3>2
  <2>6. Handed'
    BY <1>1, <1>2, <2>1 DEF AgentInv, Handed, agentVars
  <2> QED
    BY <1>1, <2>1, <2>4, <2>5, <2>6 DEF agentVars
<1>6. CASE PollRead
  <2>1. Served \in rows /\ Served.w = watermark
    BY <1>6 DEF PollRead, AgentInv, StoreInv, ServedIsNewest, Served
  <2>2. Served.snap =< Served.body /\ Served.body \in Int
    BY <2>1 DEF AgentInv, StoreInv, RowsOK, TypeOK, Bundle, Version
  <2>3. Reached(Served.body)
    BY <2>1, <2>2 DEF Reached
  <2>4. held =< Served.body
    <3>1. CASE held = None
      <4>1. 0 =< Served.body
        BY <2>1 DEF AgentInv, StoreInv, TypeOK, Bundle, Version
      <4> QED
        BY <2>2, <3>1, <4>1 DEF None
    <3>2. CASE held # None
      <4>1. PICK x \in rows : x.w = watermark /\ held =< x.body
        BY <3>2 DEF AgentInv, Handed, Reached
      <4>2. x = Served
        BY <2>1, <4>1 DEF AgentInv, StoreInv, RowsOK
      <4> QED
        BY <4>1, <4>2
    <3> QED
      BY <3>1, <3>2
  <2>5. /\ poll'.snap = Served.snap /\ poll'.body = Served.body
        /\ UNCHANGED <<committed, kind, opState, agentVars, rows, watermark>>
    BY <1>6 DEF PollRead, opVars
  <2>6. Handed'
    BY <2>2, <2>3, <2>4, <2>5 DEF AgentInv, Handed, Reached, agentVars
  <2> QED
    BY <1>1, <2>5, <2>6 DEF AgentInv, Records, HeldCoversApplied, agentVars
<1>7. CASE \E d \in BOOLEAN : PollServe(d)
  <2>1. PICK d \in BOOLEAN : PollServe(d)
    BY <1>7
  <2>2. poll.snap =< poll.body /\ held =< poll.body /\ Reached(poll.body)
    BY <2>1 DEF PollServe, AgentInv, Handed
  <2>3. /\ held' = IF d THEN poll.body ELSE held
        /\ inbox' = IF d THEN PollPage ELSE inbox
        /\ ~ poll'.open
        /\ UNCHANGED <<committed, kind, rows, watermark, live>>
        /\ opState' = [n \in Write |-> IF n \in PollPage THEN "in_flight"
                                       ELSE opState[n]]
    BY <2>1 DEF PollServe, NoPoll
  <2>4. \A n \in PollPage : /\ n \in Write /\ opState[n] = "pending"
                            /\ n =< poll.snap
    BY DEF PollPage, CoveredBy
  <2>5. held' >= held /\ held' \in Int
    BY <1>1, <2>2, <2>3
  <2>6. Handed'
    BY <1>1, <1>2, <2>2, <2>3 DEF AgentInv, Handed
  <2>7. Records'
    <3>1. \A n \in inbox' : n =< held' /\ kind[n] = "record"
      BY <1>1, <2>2, <2>3, <2>4 DEF AgentInv, Records
    <3>2. \A n \in live : n =< held' /\ kind[n] = "record"
      BY <1>1, <2>5 DEF AgentInv, Records
    <3>3. \A n \in Write : opState'[n] # "none" => kind[n] = "record"
      BY <2>3, <2>4 DEF AgentInv, Records
    <3> QED
      BY <2>3, <3>1, <3>2, <3>3 DEF AgentInv, Records
  <2>8. HeldCoversApplied'
    BY <1>1, <2>3, <2>5 DEF AgentInv, HeldCoversApplied
  <2> QED
    BY <2>3, <2>5, <2>6, <2>7, <2>8
<1>8. CASE PollAgain
  BY <1>1, <1>2, <1>8 DEF AgentInv, Handed, Records, HeldCoversApplied, agentVars, opVars,
                    PollAgain, NoPoll
<1>9. CASE AgentReload
  <2>1. UNCHANGED <<committed, kind, opState, held, inbox, poll>>
    BY <1>9 DEF AgentReload, opVars
  <2>2. live' = live \/ live' = RecordsIn(held)
    BY <1>9 DEF AgentReload
  <2>3. live \subseteq RecordsIn(held)
    BY <1>1 DEF AgentInv, Records, RecordsIn, Write
  <2>4. \A n \in live' : n =< held /\ kind[n] = "record"
    BY <1>1, <2>2 DEF AgentInv, Records, RecordsIn
  <2> QED
    BY <1>1, <1>2, <2>1, <2>2, <2>3, <2>4
       DEF AgentInv, Handed, Records, HeldCoversApplied
<1>10. CASE \E ok \in BOOLEAN : AgentApplyOp(ok)
  <2>1. PICK ok \in BOOLEAN : AgentApplyOp(ok)
    BY <1>10
  <2>2. PICK n \in inbox :
          /\ inbox' = inbox \ {n}
          /\ \/ /\ live' = live \cup {n}
                /\ opState' = [opState EXCEPT ![n] = "applied"]
             \/ /\ live' = live
                /\ IF opState[n] = "in_flight" THEN FailAttempt(n) ELSE UNCHANGED opVars
    BY <2>1 DEF AgentApplyOp
  <2>3. UNCHANGED <<committed, kind, held, poll>>
    BY <2>1 DEF AgentApplyOp
  <2>4. n \in Write /\ n =< held /\ kind[n] = "record"
    BY <1>1 DEF AgentInv, Records
  <2>5. \A m \in Write : m # n => opState'[m] = opState[m]
    <3>1. CASE opState[n] = "in_flight" /\ FailAttempt(n)
      BY <1>1, <2>4, <3>1, FailAttemptStep
    <3> QED
      BY <1>1, <2>2, <3>1 DEF opVars
  <2>6. Records' /\ live \subseteq live'
    BY <2>2, <2>3, <2>4, <2>5 DEF AgentInv, Records
  <2>7. HeldCoversApplied'
    BY <1>1, <2>3, <2>4, <2>5 DEF AgentInv, HeldCoversApplied
  <2> QED
    BY <1>1, <1>2, <2>3, <2>6, <2>7 DEF AgentInv, Handed
<1>11. CASE \E n \in Write : OpReturned(n)
  <2>1. PICK n \in Write : OpReturned(n)
    BY <1>11
  <2>2. UNCHANGED <<committed, kind, poll, agentVars>>
    BY <2>1 DEF OpReturned
  <2>3. opState[n] = "in_flight" /\ opState'[n] \in {"pending", "failed"}
    BY <1>1, <2>1, FailAttemptStep DEF OpReturned
  <2>4. \A m \in Write : m # n => opState'[m] = opState[m]
    BY <1>1, <2>1, FailAttemptStep DEF OpReturned
  <2>5. Records' /\ HeldCoversApplied'
    BY <1>1, <2>2, <2>3, <2>4 DEF AgentInv, Records, HeldCoversApplied, agentVars
  <2> QED
    BY <1>1, <1>2, <2>2, <2>5 DEF AgentInv, Handed, agentVars
<1>12. CASE AgentRestart
  <2>1. /\ UNCHANGED <<committed, kind, opState, held>>
        /\ inbox' = {} /\ ~ poll'.open /\ live' = RecordsIn(held)
    BY <1>12 DEF AgentRestart, NoPoll, opVars
  <2>2. live \subseteq RecordsIn(held)
    BY <1>1 DEF AgentInv, Records, RecordsIn, Write
  <2>3. \A n \in live' : n =< held /\ kind[n] = "record"
    BY <1>1, <2>1 DEF RecordsIn
  <2> QED
    BY <1>1, <1>2, <2>1, <2>2, <2>3
       DEF AgentInv, Handed, Records, HeldCoversApplied
<1>13. CASE UNCHANGED vars
  BY <1>1, <1>2, <1>13 DEF AgentInv, Handed, Records, HeldCoversApplied,
                           vars, agentVars, opVars
<1> QED
  BY <1>3, <1>4, <1>5, <1>6, <1>7, <1>8, <1>9, <1>10, <1>11, <1>12, <1>13
     DEF Next

\* At most one op is given up in a step, in a step that does nothing else the
\* promise speaks of, and for good.
LEMMA FailedStep ==
    ASSUME StoreInv, Records, InHand, [Next]_vars
    PROVE  \/ \A n \in Write : opState'[n] = "failed" <=> opState[n] = "failed"
           \/ /\ kind' = kind /\ live' = live
              /\ \E n \in Write : /\ opState[n] = "in_flight" /\ opState'[n] = "failed"
                                  /\ \A m \in Write : m # n => opState'[m] = opState[m]
<1> USE BundleAssumption
<1>1. /\ TypeOK /\ BudgetOK /\ opState \in [Write -> OpState]
      /\ committed \in Nat /\ inbox \subseteq Write
  BY DEF StoreInv, TypeOK, Version
<1>2. CASE opState' = opState
  BY <1>2
<1>3. CASE \E k \in {"record", "structural"} : Commit(k)
  <2>1. committed + 1 \in Write
    BY <1>1, <1>3 DEF Commit, Write
  <2>2. opState[committed + 1] # "failed"
    BY <1>1, <2>1 DEF Records
  <2> QED
    BY <1>1, <1>3, <2>1, <2>2 DEF Commit
<1>4. CASE \E r \in Renderer : RenderStore(r)
  BY <1>1, <1>4 DEF RenderStore, Retired
<1>5. CASE \E d \in BOOLEAN : PollServe(d)
  BY <1>1, <1>5 DEF PollServe, PollPage
<1>6. ASSUME NEW n \in Write, opState[n] = "in_flight", FailAttempt(n), kind' = kind,
             live' = live
      PROVE  \/ \A m \in Write : opState'[m] = "failed" <=> opState[m] = "failed"
             \/ /\ opState'[n] = "failed"
                /\ \A m \in Write : m # n => opState'[m] = opState[m]
  <2>1. /\ opState'[n] \in {"pending", "failed"}
        /\ \A m \in Write : m # n => opState'[m] = opState[m]
    BY <1>1, <1>6, FailAttemptStep
  <2> QED
    BY <1>6, <2>1
<1>7. CASE \E ok \in BOOLEAN : AgentApplyOp(ok)
  <2>1. PICK ok \in BOOLEAN : AgentApplyOp(ok)
    BY <1>7
  <2>2. PICK n \in inbox :
          \/ opState' = [opState EXCEPT ![n] = "applied"]
          \/ /\ live' = live
             /\ IF opState[n] = "in_flight" THEN FailAttempt(n) ELSE UNCHANGED opVars
    BY <2>1 DEF AgentApplyOp
  <2>3. n \in Write /\ opState[n] # "failed" /\ kind' = kind
    BY <1>1, <2>1 DEF InHand, AgentApplyOp
  <2>4. CASE opState' = [opState EXCEPT ![n] = "applied"]
    BY <1>1, <2>3, <2>4
  <2>5. CASE live' = live /\ opState[n] = "in_flight" /\ FailAttempt(n)
    BY <1>6, <2>3, <2>5
  <2> QED
    BY <1>2, <2>2, <2>4, <2>5 DEF opVars
<1>8. CASE \E n \in Write : OpReturned(n)
  BY <1>6, <1>8 DEF OpReturned, agentVars
<1> QED
  BY <1>2, <1>3, <1>4, <1>5, <1>7, <1>8
     DEF Next, vars, opVars, RenderStart, RenderSnapshot, RenderBody, RenderFail,
         PollRead, PollAgain, AgentReload, AgentRestart

\* No op is given up while the agent has it in hand.
LEMMA InHandStep ==
    ASSUME StoreInv, Records, InHand, [Next]_vars
    PROVE  InHand'
<1>1. inbox' \subseteq Write
  BY TypeStep DEF StoreInv, TypeOK
<1>2. ASSUME \A n \in Write : opState'[n] = "failed" => opState[n] = "failed",
             inbox' \subseteq inbox
      PROVE  InHand'
  BY <1>1, <1>2 DEF InHand
<1>3. CASE \E d \in BOOLEAN : PollServe(d)
  BY <1>1, <1>3 DEF InHand, PollServe
<1>4. CASE \E ok \in BOOLEAN : AgentApplyOp(ok)
  <2>1. PICK ok \in BOOLEAN : AgentApplyOp(ok)
    BY <1>4
  <2>2. PICK n \in inbox :
          /\ inbox' = inbox \ {n}
          /\ \/ opState' = [opState EXCEPT ![n] = "applied"]
             \/ IF opState[n] = "in_flight" THEN FailAttempt(n) ELSE UNCHANGED opVars
    BY <2>1 DEF AgentApplyOp
  <2>3. \A m \in Write : m # n => opState'[m] = opState[m]
    <3>1. opState \in [Write -> OpState] /\ n \in Write
      BY DEF StoreInv, TypeOK
    <3> QED
      BY <2>2, <3>1 DEF FailAttempt, opVars
  <2> QED
    BY <1>1, <2>2, <2>3 DEF InHand
<1>5. CASE \E n \in Write : OpReturned(n)
  <2>1. PICK n \in Write : OpReturned(n)
    BY <1>5
  <2>2. /\ n \notin inbox /\ inbox' = inbox
        /\ opState' = [opState EXCEPT ![n] =
                     IF attempts[n] + 1 >= MAX_OP_ATTEMPTS THEN "failed" ELSE "pending"]
    BY <2>1 DEF OpReturned, agentVars, FailAttempt
  <2>3. opState \in [Write -> OpState]
    BY DEF StoreInv, TypeOK
  <2> QED
    BY <1>1, <2>2, <2>3 DEF InHand
<1>6. CASE \E k \in {"record", "structural"} : Commit(k)
  <2>1. opState \in [Write -> OpState] /\ inbox' = inbox
    BY <1>6 DEF StoreInv, TypeOK, Commit, agentVars
  <2>2. \A n \in Write : opState'[n] = "failed" => opState[n] = "failed"
    BY <1>6, <2>1 DEF Commit
  <2> QED
    BY <1>2, <2>1, <2>2
<1>7. CASE \E r \in Renderer : RenderStore(r)
  <2>1. inbox' = inbox
    BY <1>7 DEF RenderStore, agentVars
  <2>2. \A n \in Write : opState'[n] = "failed" => opState[n] = "failed"
    BY <1>7 DEF RenderStore, Retired
  <2> QED
    BY <1>2, <2>1, <2>2
<1>8. CASE opState' = opState /\ (inbox' = inbox \/ inbox' = {})
  BY <1>8 DEF InHand
<1> QED
  BY <1>3, <1>4, <1>5, <1>6, <1>7, <1>8
     DEF Next, vars, opVars, agentVars, RenderStart, RenderSnapshot, RenderBody, RenderFail,
         PollRead, PollAgain, AgentReload, AgentRestart

\* The agent's invariant holds in every state while renders do not overlap.
THEOREM AgentInvariance == ASSUME OneRender PROVE Spec => []AgentInv
<1>1. ASSUME AgentInv, [Next]_vars PROVE AgentInv'
  <2>1. StoreInv'
    BY <1>1, TypeStep, RenderStep, RowsStep DEF AgentInv, StoreInv
  <2> QED
    BY <1>1, <2>1, ReachedStep, AgentStep, InHandStep DEF AgentInv
<1> QED
  BY <1>1, AgentInvInit, PTL DEF Spec

\* The gate of page_pending_ops: while renders of the server do not overlap,
\* every body the agent holds has every op it has applied.
THEOREM HeldAlwaysCovers == ASSUME OneRender PROVE Spec => []HeldCoversApplied
<1>1. AgentInv => HeldCoversApplied
  BY DEF AgentInv
<1> QED
  BY <1>1, AgentInvariance, PTL

\* While renders do not overlap, the agent is never given an older body.
THEOREM HeldNeverGoesBack == ASSUME OneRender PROVE Spec => HeldForward
<1>1. AgentInv /\ [Next]_vars => [held' >= held]_vars
  BY AgentStep
<1> QED
  BY <1>1, AgentInvariance, PTL DEF Spec, HeldForward

\* While renders do not overlap, the system implements RecordDelivery's
\* safety: only committed records are served, and none is ever dropped.
THEOREM ImplementsDelivery == ASSUME OneRender PROVE Spec => DeliversRecords
<1>1. Init => Delivery!DeliveryInit
  BY DEF Init, Delivery!DeliveryInit
<1>2. ASSUME AgentInv, AgentInv', [Next]_vars
      PROVE  [Delivery!DeliveryNext]_(Delivery!deliveryVars)
  <2> DEFINE Rec == {n \in Write : kind[n] = "record"}
             Lost == {n \in Write : opState[n] = "failed"}
  <2>1. live \subseteq live' /\ live' \subseteq Rec'
    <3>1. live' \subseteq Write
      BY <1>2 DEF AgentInv, StoreInv, TypeOK
    <3> QED
      BY <1>2, <3>1, AgentStep DEF AgentInv, Records
  <2>2. Lost' = Lost \/ \E n \in Rec \ Lost : Lost' = Lost \cup {n} /\ live' = live /\ Rec' = Rec
    BY <1>2, FailedStep DEF AgentInv, Records
  <2>3. CASE \E k \in {"record", "structural"} : Commit(k)
    <3>1. PICK k \in {"record", "structural"} : Commit(k)
      BY <2>3
    <3>2. committed + 1 \in Write /\ kind[committed + 1] = "none"
      BY <1>2, <3>1, BundleAssumption
         DEF Commit, Write, AgentInv, StoreInv, TypeOK, Version, Records
    <3>3. Rec' = Rec \cup (IF k = "record" THEN {committed + 1} ELSE {})
      BY <1>2, <3>1, <3>2 DEF Commit, AgentInv, StoreInv, TypeOK
    <3>4. live' = live
      BY <3>1 DEF Commit, agentVars
    <3> HIDE DEF Rec, Lost
    <3>5. [Delivery!DeliveryNext]_(Delivery!deliveryVars)
      BY <2>2, <3>2, <3>3, <3>4
         DEF Delivery!DeliveryNext, Delivery!CommitRecord, Delivery!GiveUp,
             Delivery!deliveryVars, Write, Rec, Lost
    <3> QED
      BY <3>5
  <2>4. CASE UNCHANGED kind
    <3>1. Rec' = Rec
      BY <2>4
    <3> QED
      BY <2>1, <2>2, <3>1
         DEF Delivery!DeliveryNext, Delivery!Serve, Delivery!GiveUp, Delivery!deliveryVars
  <2> QED
    BY <1>2, <2>3, <2>4
       DEF Next, vars, RenderStart, RenderSnapshot, RenderBody, RenderStore,
           RenderFail, PollRead, PollServe, PollAgain, AgentReload,
           AgentApplyOp, OpReturned, AgentRestart
<1> QED
  BY <1>1, <1>2, AgentInvariance, PTL
     DEF Spec, DeliversRecords, Delivery!DeliverySafety

-----------------------------------------------------------------------------
(* Split-horizon: what a render retires, its body carries.                 *)

\* A render under way was needed: it claims more than any stored row does.
Ahead == \A r \in Renderer : \A x \in rows : render[r].phase # "idle" => x.w < render[r].w

\* Under views no op is shipped, and every retired one is in the served bundle.
Carried ==
    views => /\ inbox = {}
             /\ \A n \in Write : opState[n] = "applied" => Reached(n)

\* With one renderer, no row appears between a render's start and its store.
LEMMA AheadStep ==
    ASSUME OneRender, StoreInv, Ahead, [Next]_vars PROVE Ahead'
<1> USE BundleAssumption
<1>1. /\ committed \in Int /\ render \in [Renderer -> RenderState] /\ watermark \in Int
      /\ \A x \in rows : x.w \in Int /\ x.w =< watermark /\ watermark # None
  BY DEF StoreInv, TypeOK, Version, None, Bundle, RowsOK, ServedIsNewest
<1>2. CASE UNCHANGED <<rows, render>>
  BY <1>2 DEF Ahead
<1>3. CASE \E r \in Renderer : RenderStart(r)
  BY <1>1, <1>3 DEF Ahead, RenderStart, IsCurrent, Idle
<1>4. CASE \E r \in Renderer : RenderSnapshot(r) \/ RenderBody(r)
  BY <1>1, <1>4 DEF Ahead, RenderSnapshot, RenderBody, RenderState
<1>5. CASE \E r \in Renderer : RenderFail(r) \/ RenderStore(r)
  BY <1>1, <1>5 DEF Ahead, RenderFail, RenderStore, Idle, OneRender
<1> QED
  BY <1>2, <1>3, <1>4, <1>5
     DEF Next, vars, Commit, PollRead, PollServe, PollAgain, AgentReload,
         AgentApplyOp, OpReturned, AgentRestart

LEMMA CarriedStep ==
    ASSUME OneRender, AgentInv, Ahead, Carried, [Next]_vars PROVE Carried'
<1> SUFFICES ASSUME views
             PROVE  /\ inbox' = {}
                    /\ \A n \in Write : opState'[n] = "applied" => Reached(n)'
  BY ViewsFixed DEF Carried
<1> USE BundleAssumption
<1>1. /\ inbox = {} /\ PollPage = {}
      /\ opState \in [Write -> OpState]
      /\ \A n \in Write : n \in Int
      /\ TypeOK /\ BudgetOK
  BY DEF Carried, PollPage, AgentInv, StoreInv, TypeOK, Write
<1>2. inbox' = {}
  BY <1>1 DEF Next, vars, agentVars, Commit, RenderStart, RenderSnapshot, RenderBody,
              RenderStore, RenderFail, PollRead, PollServe, PollAgain, AgentReload,
              AgentApplyOp, OpReturned, AgentRestart
<1>3. \A n \in Write : opState[n] = "applied" => Reached(n)'
  BY <1>1, ReachedStep DEF Carried
<1>4. CASE \A n \in Write : opState'[n] = "applied" => opState[n] = "applied"
  BY <1>2, <1>3, <1>4
<1>5. CASE \E r \in Renderer : RenderStore(r)
  <2>1. PICK r \in Renderer : RenderStore(r)
    BY <1>5
  <2> DEFINE new == [w |-> render[r].w, snap |-> render[r].snap,
                     body |-> render[r].body]
  <2>2. /\ new.snap =< new.body /\ new.snap \in Int /\ new.body \in Int /\ new.w \in Int
        /\ \A x \in rows : x.w < new.w /\ x.w \in Int
    BY <2>1 DEF AgentInv, StoreInv, RenderOK, RenderStore, TypeOK, RenderState, Version,
                Ahead, Bundle
  <2>3. opState' = Retired(new.snap)
    BY <2>1 DEF RenderStore
  <2>4. rows' = Prune(rows \cup {new}) /\ watermark' = new.w
    <3>1. ~ \E x \in rows : x.w = new.w
      BY <2>2
    <3>2. watermark = None \/ watermark =< new.w
      <4>1. ASSUME watermark # None PROVE watermark =< new.w
        <5>1. PICK x \in rows : x.w = watermark
          BY <4>1 DEF AgentInv, StoreInv, ServedIsNewest
        <5> QED
          BY <2>2, <5>1
      <4> QED
        BY <4>1
    <3> QED
      BY <2>1, <3>1, <3>2 DEF RenderStore
  <2> HIDE DEF new
  <2>5. new \in rows'
    BY <2>2, <2>4, PruneKeepsNewest
  <2>6. ASSUME NEW n \in Write, opState'[n] = "applied" PROVE Reached(n)'
    <3>1. CASE opState[n] = "applied"
      BY <1>3, <3>1
    <3>2. CASE opState[n] # "applied"
      <4>1. n =< new.snap
        BY <2>3, <2>6, <3>2 DEF Retired, CoveredBy
      <4>2. n =< new.body
        BY <1>1, <2>2, <4>1
      <4> QED
        BY <2>4, <2>5, <4>2 DEF Reached
    <3> QED
      BY <3>1, <3>2
  <2> QED
    BY <1>2, <2>6
<1>6. CASE \E k \in {"record", "structural"} : Commit(k)
  BY <1>1, <1>4, <1>6 DEF Commit
<1>7. CASE \E n \in Write : OpReturned(n)
  <2>1. PICK n \in Write : OpReturned(n)
    BY <1>7
  <2>2. /\ opState'[n] \in {"pending", "failed"}
        /\ \A m \in Write : m # n => opState'[m] = opState[m]
    BY <1>1, <2>1, FailAttemptStep DEF OpReturned
  <2> QED
    BY <1>4, <2>2
<1>8. CASE \E d \in BOOLEAN : PollServe(d)
  BY <1>1, <1>4, <1>8 DEF PollServe
<1>9. CASE \E ok \in BOOLEAN : AgentApplyOp(ok)
  BY <1>1, <1>9 DEF AgentApplyOp
<1>10. CASE opState' = opState
  BY <1>4, <1>10
<1> QED
  BY <1>5, <1>6, <1>7, <1>8, <1>9, <1>10
     DEF Next, vars, opVars, RenderStart, RenderSnapshot, RenderBody, RenderFail,
         PollRead, PollAgain, AgentReload, AgentRestart

\* retire_queued_ops: under views, while renders do not overlap, a retired op is in the
\* body the agents are being served.  Two renders break it: the later one can lose its row
\* to the earlier and still commit the retirement of what only its own body carries.
THEOREM RetiredIsAlwaysCarried == ASSUME OneRender PROVE Spec => []RetiredIsCarried
<1>1. Init => Ahead /\ Carried
  BY DEF Init, Ahead, Carried
<1>2. AgentInv /\ Carried => RetiredIsCarried
  <2> SUFFICES ASSUME AgentInv, Carried, views, NEW n \in Write, opState[n] = "applied"
               PROVE  watermark # None /\ n =< Served.body
    BY DEF RetiredIsCarried
  <2>1. PICK x \in rows : x.w = watermark /\ n =< x.body
    BY DEF Carried, Reached
  <2>2. Served \in rows /\ Served.w = watermark
    BY <2>1 DEF Served
  <2>3. x = Served /\ watermark # None
    BY <2>1, <2>2 DEF AgentInv, StoreInv, RowsOK
  <2> QED
    BY <2>1, <2>3
<1>3. AgentInv /\ Ahead /\ Carried /\ [Next]_vars => Ahead' /\ Carried'
  BY AheadStep, CarriedStep DEF AgentInv
<1> QED
  BY <1>1, <1>2, <1>3, AgentInvariance, PTL DEF Spec
=============================================================================
