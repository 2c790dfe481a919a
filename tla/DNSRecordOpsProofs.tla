------------------------- MODULE DNSRecordOpsProofs -------------------------
(***************************************************************************)
(* Proofs about DNSRecordOps, for every number of ops, transactions, agent *)
(* processes and RRsets.                                                   *)
(***************************************************************************)
EXTENDS DNSRecordOps, WellFoundedInduction, NaturalsInduction, TLAPS

\* A set of numbers that lie below a bound and is not empty has a largest
\* member.
LEMMA BoundedMax ==
    ASSUME NEW B \in Nat, NEW S, S \subseteq 0 .. B, S # {}
    PROVE  \E x \in S : \A y \in S : y =< x
<1> DEFINE T == {B - x : x \in S}
<1>1. T \subseteq Nat /\ T # {}
  <2>1. PICK z \in S : TRUE
    OBVIOUS
  <2>2. B - z \in T
    BY <2>1
  <2>3. \A x \in S : B - x \in Nat
    OBVIOUS
  <2> QED
    BY <2>2, <2>3
<1> DEFINE R == OpToRel(<, Nat)
<1>r. \A a, b \in Nat : a < b => <<a, b>> \in R
  <2> SUFFICES ASSUME NEW a \in Nat, NEW b \in Nat, a < b
               PROVE  <<a, b>> \in R
    OBVIOUS
  <2>1. <<a, b>> \in Nat \X Nat
    OBVIOUS
  <2> QED
    BY <2>1 DEF OpToRel
<1>w. IsWellFoundedOn(R, Nat)
  BY NatLessThanWellFounded
<1> HIDE DEF R, T
<1>2. PICK m \in T : \A n \in T : ~ (<<n, m>> \in R)
  BY <1>1, <1>w, WFMin
<1>3. \A n \in T : m =< n
  <2> SUFFICES ASSUME NEW n \in T
               PROVE  m =< n
    OBVIOUS
  <2>1. n \in Nat /\ m \in Nat
    BY <1>1
  <2>2. ~ (<<n, m>> \in R)
    BY <1>2
  <2>3. ~ (n < m)
    BY <1>r, <2>1, <2>2, Zenon
  <2> QED
    BY <2>1, <2>3
<1>4. PICK x \in S : m = B - x
  BY <1>2 DEF T
<1>5. \A y \in S : y =< x
  BY <1>3, <1>4 DEF T
<1> QED
  BY <1>5

\* Of any ops there is a newest one in queue order (transaction start, then
\* seq), so the CHOOSE in Newest always has a witness.
LEMMA NewestExists ==
    ASSUME NEW t \in [Op -> OpRow], NEW S \in SUBSET Op, S # {}
    PROVE  /\ Newest(t, S) \in S
           /\ \A q \in S : q = Newest(t, S) \/ QueuedAfter(t, Newest(t, S), q)
<1> USE ConstantsAssumption
<1>1. PICK c \in {t[p].created : p \in S} :
          \A d \in {t[p].created : p \in S} : d =< c
  <2>1. {t[p].created : p \in S} \subseteq 0 .. MaxTxns
    BY DEF OpRow
  <2>2. {t[p].created : p \in S} # {} /\ MaxTxns \in Nat
    OBVIOUS
  <2> QED
    BY <2>1, <2>2, BoundedMax, Zenon
<1> DEFINE L == {p \in S : t[p].created = c}
<1>2. PICK m \in L : \A q \in L : q =< m
  <2>1. L \subseteq 0 .. MaxOps /\ MaxOps \in Nat
    <3>1. MaxOps \in Nat /\ Op \subseteq 0 .. MaxOps
      BY DEF Op
    <3>2. L \subseteq S
      OBVIOUS
    <3> QED
      BY <3>1, <3>2
  <2>2. PICK p \in S : t[p].created = c
    BY <1>1
  <2>3. L # {}
    BY <2>2
  <2> QED
    BY <2>1, <2>3, BoundedMax, Zenon
<1>3. \A q \in S : q = m \/ QueuedAfter(t, m, q)
  <2> SUFFICES ASSUME NEW q \in S, q # m
               PROVE  QueuedAfter(t, m, q)
    OBVIOUS
  <2>1. t[q].created =< c /\ t[m].created = c
    BY <1>1, <1>2
  <2>2. t[q].created \in Int /\ c \in Int /\ m \in Int /\ q \in Int
    <3>1. \A p \in Op : t[p].created \in 0 .. MaxTxns
      BY DEF OpRow
    <3> QED
      BY <3>1, <2>1 DEF Op
  <2>3. CASE t[q].created = c
    <3>1. q =< m
      BY <1>2, <2>3
    <3> QED
      BY <3>1, <2>1, <2>2, <2>3 DEF QueuedAfter
  <2> QED
    BY <2>1, <2>2, <2>3 DEF QueuedAfter
<1> QED
  BY <1>2, <1>3 DEF Newest

-----------------------------------------------------------------------------
(* The inductive invariant.  RowOK is BudgetHonest for one row, with what   *)
(* makes it inductive and bounds attempts in OpRow: a row that can still be *)
(* charged has budget left.                                                 *)

RowOK(r, s) ==
    /\ r.attempts =< MAX_OP_ATTEMPTS
    /\ r.state = "pending" => r.attempts = s /\ r.attempts < MAX_OP_ATTEMPTS
    /\ r.state = "in_flight" => /\ r.attempts + 1 = s
                                /\ r.attempts < MAX_OP_ATTEMPTS
    /\ r.state = "failed" => r.attempts = MAX_OP_ATTEMPTS /\ s = MAX_OP_ATTEMPTS

\* SupersedeChain for any table.
Linked(t) ==
    \A o \in Op :
        t[o].state = "superseded" =>
            /\ t[o].by \in Op
            /\ t[t[o].by].state # "none"
            /\ SameRRset(t, t[o].by, o)
            /\ QueuedAfter(t, t[o].by, o)

\* What no queue operation changes of a row.
Frame(t, u) ==
    \A o \in Op :
        /\ u[o].key = t[o].key
        /\ u[o].created = t[o].created
        /\ u[o].ver = t[o].ver
        /\ u[o].state = "none" <=> t[o].state = "none"

TableOK(t) ==
    /\ t \in [Op -> OpRow]
    /\ \A o \in Op : RowOK(t[o], ships[o])
    /\ Linked(t)

\* A table step: the new table is good and describes the same ops.
Good(t, u) == TableOK(u) /\ Frame(t, u)

Rows ==
    \A o \in Op :
        /\ op[o].state = "none" <=> o > queued
        /\ op[o].state = "none" => op[o].key = NoKey /\ ships[o] = 0

\* Queue order and RRset versions agree while transactions do not overlap.
Ordered ==
    /\ \A t \in open : t =< begun
    /\ \A o \in Op : /\ op[o].created =< begun
                     /\ op[o].key # NoKey => op[o].ver =< desired[op[o].key]
    /\ ~ Overlap =>
          /\ \A t \in open : t = begun
          /\ \A t \in open, o \in Op : op[o].created < t
          /\ \A o, p \in Op : SameRRset(op, p, o) /\ QueuedAfter(op, p, o)
                               => op[p].ver >= op[o].ver

IInv == TypeOK /\ Rows /\ TableOK(op) /\ Ordered

-----------------------------------------------------------------------------
(* Lemmas about the operations on a table.                                 *)

\* One charged row: well typed, within budget, and linked to a real
\* successor when it is superseded (fail_attempts).
LEMMA FailAttemptRow ==
    ASSUME NEW t \in [Op -> OpRow], NEW o \in Op, NEW s \in Nat,
           t[o].state = "in_flight", RowOK(t[o], s)
    PROVE  /\ FailAttempt(t, o) \in OpRow
           /\ RowOK(FailAttempt(t, o), s)
           /\ FailAttempt(t, o).key = t[o].key
           /\ FailAttempt(t, o).created = t[o].created
           /\ FailAttempt(t, o).ver = t[o].ver
           /\ FailAttempt(t, o).state \in {"superseded", "failed", "pending"}
           /\ FailAttempt(t, o).state = "superseded"
                 => FailAttempt(t, o).by \in Successors(t, o)
<1> USE ConstantsAssumption
<1> DEFINE c == [t[o] EXCEPT !.attempts = @ + 1, !.overdue = FALSE]
<1>1. /\ c \in OpRow /\ c.attempts = t[o].attempts + 1
      /\ c.key = t[o].key /\ c.created = t[o].created /\ c.ver = t[o].ver
  <2>1. t[o] \in OpRow
    OBVIOUS
  <2>2. t[o].attempts + 1 \in 0 .. MAX_OP_ATTEMPTS
    BY <2>1 DEF OpRow, RowOK
  <2> QED
    BY <2>1, <2>2 DEF OpRow
<1>2. /\ c.attempts \in Nat /\ c.attempts = s
      /\ c.attempts =< MAX_OP_ATTEMPTS
  BY <1>1 DEF RowOK, OpRow
<1> HIDE DEF c
<1>3. CASE Successors(t, o) # {}
  <2> DEFINE n == Newest(t, Successors(t, o))
  <2>1. n \in Successors(t, o) /\ n \in Op
    BY <1>3, NewestExists DEF Successors
  <2> HIDE DEF n
  <2>2. FailAttempt(t, o) = Superseded(c, n)
    BY <1>3 DEF FailAttempt, c, n
  <2>3. n \in 0 .. MaxOps
    BY <2>1 DEF Op
  <2>4. /\ Superseded(c, n) \in OpRow
        /\ Superseded(c, n).state = "superseded"
        /\ Superseded(c, n).by = n
        /\ Superseded(c, n).attempts = c.attempts
        /\ Superseded(c, n).key = c.key
        /\ Superseded(c, n).created = c.created
        /\ Superseded(c, n).ver = c.ver
    BY <1>1, <2>3 DEF Superseded, OpRow, OpStates, TerminalStates
  <2> QED
    BY <1>1, <1>2, <2>1, <2>2, <2>4 DEF RowOK
<1>4. CASE Successors(t, o) = {} /\ c.attempts >= MAX_OP_ATTEMPTS
  <2> DEFINE f == [c EXCEPT !.state = "failed", !.backoff = FALSE]
  <2>1. FailAttempt(t, o) = f
    BY <1>4 DEF FailAttempt, c
  <2>2. /\ f \in OpRow /\ f.state = "failed" /\ f.attempts = c.attempts
        /\ f.key = c.key /\ f.created = c.created /\ f.ver = c.ver
    BY <1>1 DEF OpRow, OpStates, TerminalStates
  <2> QED
    BY <1>1, <1>2, <1>4, <2>1, <2>2 DEF RowOK
<1>5. CASE Successors(t, o) = {} /\ ~ (c.attempts >= MAX_OP_ATTEMPTS)
  <2> DEFINE f == [c EXCEPT !.state = "pending", !.backoff = TRUE]
  <2>1. FailAttempt(t, o) = f
    BY <1>5 DEF FailAttempt, c
  <2>2. /\ f \in OpRow /\ f.state = "pending" /\ f.attempts = c.attempts
        /\ f.key = c.key /\ f.created = c.created /\ f.ver = c.ver
    BY <1>1 DEF OpRow, OpStates, QUEUED_OP_STATES
  <2> QED
    BY <1>1, <1>2, <1>5, <2>1, <2>2 DEF RowOK
<1> QED
  BY <1>3, <1>4, <1>5

\* Charging a set of in_flight rows keeps the table good, whichever of the
\* three callers does it.
LEMMA FailAttemptsGood ==
    ASSUME ships \in [Op -> Nat], NEW t, TableOK(t), NEW S \in SUBSET Op,
           \A o \in S : t[o].state = "in_flight"
    PROVE  Good(t, FailAttempts(t, S))
<1> DEFINE u == FailAttempts(t, S)
<1>1. t \in [Op -> OpRow]
  BY DEF TableOK
<1>2. \A o \in Op : u[o] = IF o \in S THEN FailAttempt(t, o) ELSE t[o]
  BY DEF FailAttempts
<1>3. \A o \in S :
        /\ u[o] \in OpRow
        /\ RowOK(u[o], ships[o])
        /\ u[o].key = t[o].key
        /\ u[o].created = t[o].created
        /\ u[o].ver = t[o].ver
        /\ u[o].state \in {"superseded", "failed", "pending"}
        /\ u[o].state = "superseded" => u[o].by \in Successors(t, o)
  BY <1>1, <1>2, FailAttemptRow DEF TableOK
<1>4. u \in [Op -> OpRow]
  <2>1. u = [o \in Op |-> IF o \in S THEN FailAttempt(t, o) ELSE t[o]]
    BY DEF FailAttempts
  <2> QED
    BY <1>1, <1>2, <1>3, <2>1
<1> HIDE DEF u
<1>5. Frame(t, u)
  BY <1>1, <1>2, <1>3 DEF Frame
<1>6. Linked(u)
  <2> SUFFICES ASSUME NEW o \in Op, u[o].state = "superseded"
               PROVE  /\ u[o].by \in Op
                      /\ u[u[o].by].state # "none"
                      /\ SameRRset(u, u[o].by, o)
                      /\ QueuedAfter(u, u[o].by, o)
    BY DEF Linked
  <2>1. /\ u[o].by \in Op
        /\ t[u[o].by].state # "none"
        /\ SameRRset(t, u[o].by, o)
        /\ QueuedAfter(t, u[o].by, o)
    <3>1. CASE o \in S
      BY <1>3, <3>1 DEF Successors, SuccessorStates
    <3>2. CASE o \notin S
      BY <1>2, <3>2 DEF TableOK, Linked
    <3> QED
      BY <3>1, <3>2
  <2> QED
    BY <2>1, <1>5 DEF Frame, SameRRset, QueuedAfter
<1>7. \A o \in Op : RowOK(u[o], ships[o])
  BY <1>2, <1>3 DEF TableOK
<1> QED
  BY <1>4, <1>5, <1>6, <1>7 DEF Good, TableOK, u

\* Rows that become superseded only by what was queued after them keep the
\* chain intact; so do rows that keep their link or stop being superseded.
LEMMA LinkedStep ==
    ASSUME NEW t, NEW u, Linked(t), Frame(t, u),
           \A o \in Op : u[o].state = "superseded" =>
              \/ t[o].state = "superseded" /\ u[o].by = t[o].by
              \/ /\ u[o].by \in Op
                 /\ t[u[o].by].state # "none"
                 /\ SameRRset(t, u[o].by, o)
                 /\ QueuedAfter(t, u[o].by, o)
    PROVE  Linked(u)
<1> SUFFICES ASSUME NEW o \in Op, u[o].state = "superseded"
             PROVE  /\ u[o].by \in Op
                    /\ u[u[o].by].state # "none"
                    /\ SameRRset(u, u[o].by, o)
                    /\ QueuedAfter(u, u[o].by, o)
  BY DEF Linked
<1>1. /\ u[o].by \in Op
      /\ t[u[o].by].state # "none"
      /\ SameRRset(t, u[o].by, o)
      /\ QueuedAfter(t, u[o].by, o)
  BY DEF Linked
<1> QED
  BY <1>1 DEF Frame, SameRRset, QueuedAfter

\* The ok half of apply_acks.
LEMMA OkAckedGood ==
    ASSUME ships \in [Op -> Nat], NEW t, TableOK(t), NEW as
    PROVE  Good(t, OkAcked(t, as))
<1> USE ConstantsAssumption
<1> DEFINE u == OkAcked(t, as)
<1>1. t \in [Op -> OpRow] /\ Linked(t)
  BY DEF TableOK
<1>2. \A o \in Op :
        /\ u[o] \in OpRow
        /\ RowOK(u[o], ships[o])
        /\ u[o].key = t[o].key
        /\ u[o].created = t[o].created
        /\ u[o].ver = t[o].ver
        /\ u[o] = t[o] \/ (u[o].state = "applied" /\ t[o].state # "none")
  <2> TAKE o \in Op
  <2>0. t[o] \in OpRow /\ RowOK(t[o], ships[o])
    BY DEF TableOK
  <2>1. CASE AckedOk(as, o) /\ t[o].state \notin {"none", "applied"}
    <3> DEFINE a == IF t[o].state = "in_flight" /\ FirstOkCurrent(t, as, o)
                    THEN t[o].attempts + 1 ELSE t[o].attempts
               r == [t[o] EXCEPT !.state = "applied", !.backoff = FALSE,
                                 !.overdue = FALSE, !.attempts = a]
    <3>1. u[o] = r
      BY <2>1 DEF OkAcked
    <3>2. a \in Nat /\ a =< MAX_OP_ATTEMPTS
      <4>1. t[o].attempts \in Nat /\ t[o].attempts =< MAX_OP_ATTEMPTS
        BY <2>0 DEF OpRow, RowOK
      <4>2. CASE t[o].state = "in_flight" /\ FirstOkCurrent(t, as, o)
        BY <2>0, <4>1, <4>2 DEF RowOK
      <4>3. CASE ~ (t[o].state = "in_flight" /\ FirstOkCurrent(t, as, o))
        BY <4>1, <4>3
      <4> QED
        BY <4>2, <4>3
    <3> HIDE DEF a
    <3>2a. a \in 0 .. MAX_OP_ATTEMPTS
      BY <3>2
    <3>3. /\ r \in OpRow /\ r.state = "applied" /\ r.attempts = a
          /\ r.key = t[o].key /\ r.created = t[o].created /\ r.ver = t[o].ver
      BY <2>0, <3>2a DEF OpRow, OpStates, TerminalStates
    <3> HIDE DEF r
    <3>4. RowOK(r, ships[o])
      BY <3>2, <3>3 DEF RowOK
    <3> QED
      BY <2>1, <3>1, <3>3, <3>4
  <2>2. CASE ~ (AckedOk(as, o) /\ t[o].state \notin {"none", "applied"})
    <3>1. u[o] = t[o]
      BY <2>2 DEF OkAcked
    <3> QED
      BY <2>0, <3>1
  <2> QED
    BY <2>1, <2>2
<1>3. u \in [Op -> OpRow]
  <2>1. u = [o \in Op |-> u[o]]
    BY DEF OkAcked
  <2> HIDE DEF u
  <2> QED
    BY <1>2, <2>1
<1> HIDE DEF u
<1>4. Frame(t, u)
  BY <1>2 DEF Frame
<1>5. Linked(u)
  <2>1. \A o \in Op : u[o].state = "superseded" =>
           t[o].state = "superseded" /\ u[o].by = t[o].by
    BY <1>2
  <2> QED
    BY <1>1, <1>4, <2>1, LinkedStep
<1> QED
  BY <1>2, <1>3, <1>4, <1>5 DEF Good, TableOK, u

\* Good steps compose.
LEMMA GoodTrans ==
    ASSUME NEW t, NEW u, NEW w, Good(t, u), Good(u, w)
    PROVE  Good(t, w)
BY DEF Good, Frame

\* The whole heartbeat transaction on a table.
LEMMA HeartbeatGood ==
    ASSUME ships \in [Op -> Nat], NEW t, TableOK(t), NEW as
    PROVE  Good(t, ResetUnacknowledged(ApplyAcks(t, as)))
<1> DEFINE u == OkAcked(t, as)
           w == ApplyAcks(t, as)
<1>1. Good(t, u)
  BY OkAckedGood
<1>2. \A o \in ErrorAcked(t, as) : o \in Op /\ u[o].state = "in_flight"
  BY DEF ErrorAcked, OkAcked
<1>3. Good(u, w)
  <2>1. TableOK(u)
    BY <1>1 DEF Good
  <2>2. ErrorAcked(t, as) \in SUBSET Op
    BY DEF ErrorAcked
  <2>3. w = FailAttempts(u, ErrorAcked(t, as))
    BY DEF ApplyAcks
  <2> HIDE DEF u, w
  <2> QED
    BY <1>2, <2>1, <2>2, <2>3, FailAttemptsGood
<1>4. Good(w, ResetUnacknowledged(w))
  <2>1. TableOK(w)
    BY <1>3 DEF Good
  <2> HIDE DEF w
  <2>2. /\ Unacknowledged(w) \in SUBSET Op
        /\ \A o \in Unacknowledged(w) : w[o].state = "in_flight"
    BY DEF Unacknowledged
  <2> QED
    BY <2>1, <2>2, FailAttemptsGood DEF ResetUnacknowledged
<1> HIDE DEF u, w
<1>5. Good(t, w)
  BY <1>1, <1>3, GoodTrans
<1>6. Good(t, ResetUnacknowledged(w))
  BY <1>4, <1>5, GoodTrans
<1> QED
  BY <1>6 DEF w

\* Marking a page in_flight and superseding what was backing off behind it
\* keeps the table good; the rows shipped are charged one more dispatch.
LEMMA ShippedGood ==
    ASSUME ships \in [Op -> Nat], TableOK(op), NEW i \in Inst,
           NEW S \in SUBSET Due(i)
    PROVE  LET u == Shipped(S, i)
               n == [o \in Op |-> IF o \in S THEN ships[o] + 1 ELSE ships[o]]
           IN  /\ u \in [Op -> OpRow] /\ n \in [Op -> Nat]
               /\ \A o \in Op : RowOK(u[o], n[o])
               /\ Linked(u)
               /\ Frame(op, u)
<1> USE ConstantsAssumption
<1> DEFINE u == Shipped(S, i)
           n == [o \in Op |-> IF o \in S THEN ships[o] + 1 ELSE ships[o]]
<1>1. op \in [Op -> OpRow] /\ Linked(op) /\ S \subseteq Op
  BY DEF TableOK, Due
<1>2. \A o \in S : op[o].state = "pending"
  BY DEF Due
<1>3. \A o \in BackedOff(S) :
        /\ o \in Op /\ op[o].state = "pending"
        /\ PageNewest(S, o) \in S
        /\ SameRRset(op, PageNewest(S, o), o)
        /\ QueuedAfter(op, PageNewest(S, o), o)
  <2> TAKE o \in BackedOff(S)
  <2> DEFINE T == {p \in S : SameRRset(op, p, o)}
  <2>1. T # {} /\ T \in SUBSET Op
    BY <1>1 DEF BackedOff
  <2>2. PageNewest(S, o) \in T
    BY <1>1, <2>1, NewestExists DEF PageNewest
  <2> QED
    BY <2>2 DEF BackedOff
<1>4. \A o \in Op :
        /\ u[o] \in OpRow
        /\ RowOK(u[o], n[o])
        /\ u[o].key = op[o].key
        /\ u[o].created = op[o].created
        /\ u[o].ver = op[o].ver
        /\ u[o].state = "none" <=> op[o].state = "none"
        /\ u[o].state = "superseded" =>
              \/ op[o].state = "superseded" /\ u[o].by = op[o].by
              \/ o \in BackedOff(S) /\ u[o].by = PageNewest(S, o)
  <2> TAKE o \in Op
  <2>0. op[o] \in OpRow /\ RowOK(op[o], ships[o]) /\ ships[o] \in Nat
    BY DEF TableOK
  <2>1. CASE o \in S
    <3> DEFINE r == [op[o] EXCEPT !.state = "in_flight", !.overdue = FALSE,
                                  !.to = i]
    <3>1. u[o] = r /\ n[o] = ships[o] + 1
      BY <2>1 DEF Shipped
    <3>2. i \in 0 .. MaxInst
      BY DEF Inst
    <3>3. /\ r \in OpRow /\ r.state = "in_flight"
          /\ r.attempts = op[o].attempts /\ r.key = op[o].key
          /\ r.created = op[o].created /\ r.ver = op[o].ver
      BY <2>0, <3>2 DEF OpRow, OpStates, QUEUED_OP_STATES
    <3> HIDE DEF r, u, n
    <3>4. RowOK(r, n[o])
      <4>1. op[o].attempts = ships[o] /\ op[o].attempts < MAX_OP_ATTEMPTS
        BY <1>2, <2>0, <2>1 DEF RowOK
      <4> QED
        BY <2>0, <3>1, <3>3, <4>1 DEF RowOK
    <3> QED
      BY <1>2, <2>1, <3>1, <3>3, <3>4
  <2>2. CASE o \notin S /\ o \in BackedOff(S)
    <3> DEFINE p == PageNewest(S, o)
    <3>1. u[o] = Superseded(op[o], p) /\ n[o] = ships[o]
      BY <2>2 DEF Shipped
    <3>2. p \in 0 .. MaxOps
      <4>1. p \in Op
        BY <1>1, <1>3, <2>2
      <4> HIDE DEF p
      <4> QED
        BY <4>1 DEF Op
    <3> HIDE DEF p
    <3>3. /\ Superseded(op[o], p) \in OpRow
          /\ Superseded(op[o], p).state = "superseded"
          /\ Superseded(op[o], p).by = p
          /\ Superseded(op[o], p).attempts = op[o].attempts
          /\ Superseded(op[o], p).key = op[o].key
          /\ Superseded(op[o], p).created = op[o].created
          /\ Superseded(op[o], p).ver = op[o].ver
      BY <2>0, <3>2 DEF Superseded, OpRow, OpStates, TerminalStates
    <3> HIDE DEF u, n
    <3> QED
      BY <1>3, <2>0, <2>2, <3>1, <3>3 DEF RowOK, p
  <2>3. CASE o \notin S /\ o \notin BackedOff(S)
    <3>1. u[o] = op[o] /\ n[o] = ships[o]
      BY <2>3 DEF Shipped
    <3> HIDE DEF u, n
    <3> QED
      BY <2>0, <3>1
  <2> QED
    BY <2>1, <2>2, <2>3
<1>5. u \in [Op -> OpRow] /\ n \in [Op -> Nat]
  <2>1. u = [o \in Op |-> u[o]]
    BY DEF Shipped
  <2>2. n \in [Op -> Nat]
    OBVIOUS
  <2> HIDE DEF u, n
  <2> QED
    BY <1>4, <2>1, <2>2
<1> HIDE DEF u, n
<1>6. Frame(op, u)
  BY <1>4 DEF Frame
<1>7. Linked(u)
  <2>1. \A o \in Op : u[o].state = "superseded" =>
           \/ op[o].state = "superseded" /\ u[o].by = op[o].by
           \/ /\ u[o].by \in Op
              /\ op[u[o].by].state # "none"
              /\ SameRRset(op, u[o].by, o)
              /\ QueuedAfter(op, u[o].by, o)
    BY <1>1, <1>2, <1>3, <1>4
  <2> QED
    BY <1>1, <1>6, <2>1, LinkedStep
<1> QED
  BY <1>4, <1>5, <1>6, <1>7 DEF u, n

-----------------------------------------------------------------------------
(* The invariant is inductive.                                             *)

\* The empty queue of a new server satisfies the inductive invariant.
LEMMA IInvInit == Init => IInv
<1> SUFFICES ASSUME Init PROVE IInv
  OBVIOUS
<1> USE ConstantsAssumption
<1>1. NoRow \in OpRow
  BY DEF NoRow, OpRow, AllKey, OpStates
<1>2. \A o \in Op : op[o] = NoRow /\ ships[o] = 0
  BY DEF Init
<1>3. TypeOK
  <2>1. NoHeartbeat \in [out : BOOLEAN, acks : Seq(Ack)]
    BY DEF NoHeartbeat
  <2>2. op \in [Op -> OpRow]
    BY <1>1 DEF Init
  <2>3. hb \in [Inst -> [out : BOOLEAN, acks : Seq(Ack)]]
    BY <2>1 DEF Init
  <2>4. acks \in Seq(Ack)
    BY DEF Init
  <2>5. /\ polls \in [Inst -> PollState] /\ inst \in Inst
        /\ owner \in 0 .. MaxInst /\ page \in SUBSET PageEntry
    BY DEF Init, Inst, PollState, Poll
  <2>6. /\ desired \in [Key -> Nat] /\ live \in [Key -> Nat]
        /\ ships \in [Op -> Nat] /\ maintenance \in BOOLEAN
    BY DEF Init
  <2>7. /\ begun \in 0 .. MaxTxns /\ open \in SUBSET Txn
        /\ queued \in 0 .. MaxOps /\ covered \in 0 .. MaxOps
    BY DEF Init
  <2> QED
    BY <2>2, <2>3, <2>4, <2>5, <2>6, <2>7 DEF TypeOK
<1>4. Rows
  BY <1>2 DEF Rows, NoRow, Init, Op
<1>5. TableOK(op)
  <2>1. op \in [Op -> OpRow]
    BY <1>3 DEF TypeOK
  <2>2. \A o \in Op : RowOK(op[o], ships[o])
    BY <1>2 DEF RowOK, NoRow
  <2>3. Linked(op)
    BY <1>2 DEF Linked, NoRow
  <2> QED
    BY <2>1, <2>2, <2>3 DEF TableOK
<1>6. Ordered
  BY <1>2 DEF Ordered, Init, NoRow, SameRRset
<1> QED
  BY <1>3, <1>4, <1>5, <1>6 DEF IInv

\* A step on the table that queues nothing and ships nothing.
LEMMA TableStep ==
    ASSUME IInv, UNCHANGED <<begun, open, desired, queued, ships>>,
           Good(op, op')
    PROVE  Rows' /\ TableOK(op)' /\ Ordered'
<1>1. Frame(op, op') /\ TableOK(op')
  BY DEF Good
<1>2. Rows'
  BY <1>1 DEF IInv, Rows, Frame
<1>3. TableOK(op)'
  BY <1>1 DEF TableOK, Linked, SameRRset, QueuedAfter
<1>4. Ordered'
  BY <1>1 DEF IInv, Ordered, Frame, SameRRset, QueuedAfter
<1> QED
  BY <1>2, <1>3, <1>4

\* A step that leaves the queue alone.
LEMMA QuietStep ==
    ASSUME IInv, UNCHANGED <<begun, open, desired, queued, op, ships>>
    PROVE  Rows' /\ TableOK(op)' /\ Ordered'
<1>1. Good(op, op)
  BY DEF IInv, Good, Frame
<1>2. Good(op, op')
  BY <1>1
<1> QED
  BY <1>2, TableStep

\* A commit: the rows it adds are new, and while transactions do not overlap
\* they are the newest of their RRset by queue order and by version alike.
LEMMA EnqueueStep ==
    ASSUME IInv, NEW t \in Txn, NEW k \in Written, NEW m \in 1 .. MaxTxnOps,
           EnqueueRecordOps(t, k, m)
    PROVE  IInv'
<1> USE ConstantsAssumption
<1> DEFINE New == {o \in Op : o \in queued + 1 .. queued + m}
           v(o) == IF k = NoKey THEN 0 ELSE desired[k] + (o - queued)
<1>0. /\ TypeOK /\ Rows /\ TableOK(op) /\ Ordered
      /\ k \in AllKey /\ queued \in Nat /\ m \in Nat /\ m >= 1
  <2>1. TypeOK /\ Rows /\ TableOK(op) /\ Ordered
    BY DEF IInv
  <2>2. queued \in 0 .. MaxOps
    BY <2>1 DEF TypeOK
  <2>3. queued \in Nat /\ m \in Nat /\ m >= 1
    BY <2>2
  <2>4. k \in AllKey
    BY DEF AllKey
  <2> QED
    BY <2>1, <2>3, <2>4
<1>1. \A o \in Op : op'[o] = IF o \in New THEN NewRow(k, t, v(o)) ELSE op[o]
  BY DEF EnqueueRecordOps
<1>2. \A o \in New : o \in Op /\ v(o) \in Nat
  BY <1>0 DEF TypeOK, Op, AllKey
<1>3. \A o \in New : op[o].state = "none" /\ ships[o] = 0
  BY <1>0 DEF Rows, Op
<1>4. \A o \in New :
        /\ op'[o] \in OpRow
        /\ op'[o].key = k /\ op'[o].created = t /\ op'[o].ver = v(o)
        /\ op'[o].state = "pending" /\ op'[o].attempts = 0
  <2> TAKE o \in New
  <2>1. op'[o] = NewRow(k, t, v(o))
    BY <1>1, <1>2
  <2>2. v(o) \in Nat
    BY <1>2
  <2>3. t \in 0 .. MaxTxns
    BY DEF Txn
  <2>4. /\ NoRow \in OpRow /\ NoRow.attempts = 0
    BY DEF NoRow, OpRow, AllKey, OpStates
  <2> HIDE DEF v
  <2> QED
    BY <1>0, <2>1, <2>2, <2>3, <2>4
       DEF NewRow, OpRow, OpStates, QUEUED_OP_STATES
<1> HIDE DEF New
<1>5. op' \in [Op -> OpRow]
  <2>1. op' = [o \in Op |-> op'[o]]
    BY DEF EnqueueRecordOps
  <2>2. \A o \in Op : op'[o] \in OpRow
    BY <1>0, <1>1, <1>4 DEF TypeOK
  <2> QED
    BY <2>1, <2>2
<1>6. TypeOK'
  <2>1. desired' \in [Key -> Nat]
    BY <1>0 DEF EnqueueRecordOps, TypeOK
  <2>2. queued' \in 0 .. MaxOps /\ open' \in SUBSET Txn
    BY <1>0 DEF EnqueueRecordOps, TypeOK
  <2> QED
    BY <1>0, <1>5, <2>1, <2>2 DEF EnqueueRecordOps, TypeOK
<1>7. Rows'
  <2>1. queued' = queued + m /\ ships' = ships
    BY DEF EnqueueRecordOps
  <2> SUFFICES ASSUME NEW o \in Op
               PROVE  /\ op'[o].state = "none" <=> o > queued'
                      /\ op'[o].state = "none" => op'[o].key = NoKey /\ ships'[o] = 0
    BY DEF Rows
  <2>2. CASE o \in New
    BY <1>0, <1>4, <2>1, <2>2 DEF New, Op
  <2>3. CASE o \notin New
    BY <1>0, <1>1, <2>1, <2>3 DEF New, Op, Rows
  <2> QED
    BY <2>2, <2>3
<1>8. TableOK(op)'
  <2>1. ships' = ships
    BY DEF EnqueueRecordOps
  <2>2. \A o \in Op : RowOK(op'[o], ships[o])
    BY <1>0, <1>1, <1>3, <1>4 DEF TableOK, RowOK
  <2>3. Linked(op')
    <3> SUFFICES ASSUME NEW o \in Op, op'[o].state = "superseded"
                 PROVE  /\ op'[o].by \in Op
                        /\ op'[op'[o].by].state # "none"
                        /\ SameRRset(op', op'[o].by, o)
                        /\ QueuedAfter(op', op'[o].by, o)
      BY DEF Linked
    <3>1. o \notin New /\ op'[o] = op[o]
      BY <1>1, <1>4
    <3>2. /\ op[o].by \in Op /\ op[op[o].by].state # "none"
          /\ SameRRset(op, op[o].by, o) /\ QueuedAfter(op, op[o].by, o)
      BY <1>0, <3>1 DEF TableOK, Linked
    <3>3. op'[op[o].by] = op[op[o].by]
      BY <1>1, <1>3, <3>2
    <3> QED
      BY <3>1, <3>2, <3>3 DEF SameRRset, QueuedAfter
  <2> QED
    BY <1>5, <2>1, <2>2, <2>3 DEF TableOK, Linked, SameRRset, QueuedAfter
<1>9. Ordered'
  <2>1. /\ begun' = begun /\ open' = open \ {t} /\ t \in open
        /\ desired' = [j \in Key |-> IF j = k THEN desired[j] + m ELSE desired[j]]
    BY DEF EnqueueRecordOps
  <2>2. /\ begun \in Nat /\ t \in Nat /\ t =< begun
        /\ desired \in [Key -> Nat]
        /\ \A o \in Op : /\ op[o].created \in Nat /\ op[o].ver \in Nat
                         /\ op[o].key \in AllKey
    BY <1>0, <2>1 DEF TypeOK, Ordered, OpRow, Txn
  <2>3. \A s \in open' : s =< begun'
    BY <1>0, <2>1 DEF Ordered
  <2>4. \A o \in New : k # NoKey => v(o) > desired[k] /\ v(o) =< desired[k] + m
    BY <1>0, <1>2, <2>2 DEF New, Op, AllKey
  <2>5. \A o \in Op : /\ op'[o].created =< begun'
                      /\ op'[o].key # NoKey => op'[o].ver =< desired'[op'[o].key]
    <3> TAKE o \in Op
    <3>1. CASE o \in New
      BY <1>0, <1>4, <2>1, <2>2, <2>4, <3>1 DEF AllKey
    <3>2. CASE o \notin New
      <4>1. op'[o] = op[o]
        BY <1>1, <3>2
      <4> QED
        BY <1>0, <2>1, <2>2, <4>1 DEF Ordered, AllKey
    <3> QED
      BY <3>1, <3>2
  <2>6. ASSUME ~ Overlap
        PROVE  /\ \A s \in open' : s = begun'
               /\ \A s \in open', o \in Op : op'[o].created < s
               /\ \A o, p \in Op : SameRRset(op', p, o) /\ QueuedAfter(op', p, o)
                                    => op'[p].ver >= op'[o].ver
    <3>1. /\ open' = {} /\ t = begun
          /\ \A o \in Op : op[o].created < t
      BY <1>0, <2>1, <2>6 DEF Ordered
    <3>2. \A o, p \in Op : SameRRset(op', p, o) /\ QueuedAfter(op', p, o)
                                    => op'[p].ver >= op'[o].ver
      <4> SUFFICES ASSUME NEW o \in Op, NEW p \in Op,
                          SameRRset(op', p, o), QueuedAfter(op', p, o)
                   PROVE  op'[p].ver >= op'[o].ver
        OBVIOUS
      <4>1. CASE o \in New /\ p \in New
        <5>1. p > o /\ k # NoKey
          BY <1>4, <2>2, <4>1 DEF QueuedAfter, SameRRset
        <5> QED
          BY <1>0, <1>4, <2>2, <4>1, <5>1 DEF Op, AllKey
      <4>2. CASE o \in New /\ p \notin New
        <5>1. op'[p] = op[p]
          BY <1>1, <4>2
        <5> QED
          BY <1>4, <2>2, <3>1, <4>2, <5>1 DEF QueuedAfter
      <4>3. CASE o \notin New /\ p \in New
        <5>1. op'[o] = op[o]
          BY <1>1, <4>3
        <5>2. op[o].key = k /\ k # NoKey
          BY <1>4, <4>3, <5>1 DEF SameRRset
        <5>3. op[o].ver =< desired[k]
          BY <1>0, <5>2 DEF Ordered
        <5>4. op'[p].ver > desired[k]
          BY <1>4, <2>4, <4>3, <5>2
        <5>5. desired[k] \in Nat /\ op'[p].ver \in Nat
          BY <1>2, <1>4, <2>2, <4>3, <5>2
        <5> QED
          BY <2>2, <5>1, <5>3, <5>4, <5>5
      <4>4. CASE o \notin New /\ p \notin New
        BY <1>0, <1>1, <2>6, <4>4 DEF Ordered, SameRRset, QueuedAfter
      <4> QED
        BY <4>1, <4>2, <4>3, <4>4
    <3> QED
      BY <3>1, <3>2
  <2> QED
    BY <2>3, <2>5, <2>6 DEF Ordered, SameRRset, QueuedAfter
<1> QED
  BY <1>6, <1>7, <1>8, <1>9 DEF IInv

\* Every step preserves the invariant, action by action.
LEMMA IInvNext ==
    ASSUME IInv, [Next]_vars
    PROVE  IInv'
<1> USE ConstantsAssumption
<1>0. TypeOK /\ Rows /\ TableOK(op) /\ Ordered /\ ships \in [Op -> Nat]
  BY DEF IInv, TypeOK
<1>1. CASE BeginTxn
  <2>1. TypeOK'
    BY <1>0, <1>1 DEF BeginTxn, TypeOK, Txn
  <2>2. Rows' /\ TableOK(op)'
    BY <1>0, <1>1 DEF BeginTxn, Rows, TableOK, Linked, SameRRset, QueuedAfter
  <2>3. Ordered'
    <3>1. /\ op' = op /\ desired' = desired /\ begun' = begun + 1
          /\ open' = open \cup {begun + 1} /\ begun \in Nat
          /\ Overlap \/ open = {}
      BY <1>0, <1>1 DEF BeginTxn, TypeOK
    <3>2. \A o \in Op : op[o].created \in Nat
      BY <1>0 DEF TypeOK, OpRow
    <3>3. \A t \in open : t \in Nat
      BY <1>0 DEF TypeOK, Txn
    <3> QED
      BY <1>0, <3>1, <3>2, <3>3 DEF Ordered, SameRRset, QueuedAfter
  <2> QED
    BY <2>1, <2>2, <2>3 DEF IInv
<1>2. CASE \E t \in Txn, k \in Written, m \in 1 .. MaxTxnOps :
              EnqueueRecordOps(t, k, m)
  BY <1>2, EnqueueStep
<1>3. CASE \E t \in Txn : RollbackTxn(t)
  <2>1. TypeOK'
    BY <1>0, <1>3 DEF RollbackTxn, TypeOK
  <2>2. Rows' /\ TableOK(op)'
    BY <1>0, <1>3 DEF RollbackTxn, Rows, TableOK, Linked, SameRRset, QueuedAfter
  <2>3. Ordered'
    BY <1>0, <1>3 DEF RollbackTxn, Ordered, SameRRset, QueuedAfter
  <2> QED
    BY <2>1, <2>2, <2>3 DEF IInv
<1>4. CASE \/ StoreBundle \/ SetMaintenance \/ StartPoll
           \/ \E i \in Inst : PollRefresh(i)
           \/ \E i \in Inst, a \in BOOLEAN : PollWait(i, a)
           \/ \E i \in Inst : PollClientGone(i)
  <2>1. UNCHANGED <<begun, open, desired, queued, op, ships, inst, page, acks,
                    hb, live>>
    BY <1>4 DEF StoreBundle, SetMaintenance, StartPoll, PollRefresh, PollWait,
                PollClientGone, dbVars
  <2>2. /\ covered' \in 0 .. MaxOps /\ maintenance' \in BOOLEAN
        /\ owner' \in 0 .. MaxInst
    <3>1. /\ queued \in 0 .. MaxOps /\ covered \in 0 .. MaxOps
          /\ maintenance \in BOOLEAN /\ owner \in 0 .. MaxInst
          /\ inst \in 0 .. MaxInst
      BY <1>0 DEF TypeOK, Inst
    <3>2. covered' \in {covered, queued} /\ owner' \in {owner, inst}
      BY <1>4 DEF StoreBundle, SetMaintenance, StartPoll, PollRefresh, PollWait,
                  PollClientGone, dbVars
    <3>3. maintenance' = maintenance \/ maintenance' = ~ maintenance
      BY <1>4 DEF StoreBundle, SetMaintenance, StartPoll, PollRefresh, PollWait,
                  PollClientGone, dbVars
    <3>4. covered' \in 0 .. MaxOps /\ owner' \in 0 .. MaxInst
      BY <3>1, <3>2
    <3>5. maintenance' \in BOOLEAN
      BY <3>1, <3>3, Zenon
    <3> QED
      BY <3>4, <3>5
  <2>2a. polls' \in [Inst -> PollState]
    <3>1. Poll("idle") \in PollState /\ Poll("held") \in PollState
      BY DEF PollState, Poll
    <3>1a. [phase |-> "checked", paused |-> maintenance, upTo |-> covered]
             \in PollState
      BY <1>0 DEF TypeOK, PollState
    <3>2. polls \in [Inst -> PollState] /\ inst \in Inst
      BY <1>0 DEF TypeOK
    <3>3. CASE StoreBundle \/ SetMaintenance
      BY <3>2, <3>3 DEF StoreBundle, SetMaintenance
    <3>4. CASE StartPoll
      BY <3>1, <3>2, <3>4 DEF StartPoll
    <3>5. CASE \E i \in Inst : PollRefresh(i)
      BY <3>1, <3>1a, <3>2, <3>5 DEF PollRefresh
    <3>6. CASE \E i \in Inst, a \in BOOLEAN : PollWait(i, a)
      BY <3>1, <3>2, <3>6 DEF PollWait
    <3>7. CASE \E i \in Inst : PollClientGone(i)
      BY <3>1, <3>2, <3>7 DEF PollClientGone
    <3> QED
      BY <1>4, <3>3, <3>4, <3>5, <3>6, <3>7
  <2>3. TypeOK'
    BY <1>0, <2>1, <2>2, <2>2a DEF TypeOK
  <2> QED
    BY <2>1, <2>3, QuietStep DEF IInv
<1>5. CASE \E i \in Inst : PollReturn(i)
  <2>1. PICK i \in Inst : PollReturn(i)
    BY <1>5
  <2> DEFINE S == DispatchedElsewhere(i)
             t == FailAttempts(op, S)
  <2>2. Good(op, t)
    BY <1>0, FailAttemptsGood DEF DispatchedElsewhere
  <2>3. t \in [Op -> OpRow] /\ Linked(t) /\ Frame(op, t)
        /\ \A o \in Op : RowOK(t[o], ships[o])
    BY <2>2 DEF Good, TableOK
  <2>4. op' = [o \in Op |-> IF o \in S /\ t[o].state = "pending"
                            THEN [t[o] EXCEPT !.backoff = FALSE] ELSE t[o]]
    BY <2>1 DEF PollReturn
  <2> HIDE DEF S, t
  <2>5. \A o \in Op :
          /\ op'[o] \in OpRow
          /\ op'[o].key = t[o].key /\ op'[o].created = t[o].created
          /\ op'[o].ver = t[o].ver /\ op'[o].state = t[o].state
          /\ op'[o].attempts = t[o].attempts /\ op'[o].by = t[o].by
    BY <2>3, <2>4 DEF OpRow
  <2>6. op' \in [Op -> OpRow] /\ Frame(t, op')
    BY <2>4, <2>5 DEF Frame
  <2>7. Good(t, op')
    <3>1. Linked(op')
      BY <2>3, <2>5, <2>6, LinkedStep
    <3> QED
      BY <2>3, <2>5, <2>6, <3>1 DEF Good, TableOK, RowOK
  <2>8. Good(op, op')
    BY <2>2, <2>7, GoodTrans
  <2>9. TypeOK'
    BY <1>0, <2>1, <2>6 DEF TypeOK, PollReturn, dbVars, PollState
  <2>10. UNCHANGED <<begun, open, desired, queued, ships>>
    BY <2>1 DEF PollReturn, dbVars
  <2> QED
    BY <2>8, <2>9, <2>10, TableStep DEF IInv
<1>6. CASE \E i \in Inst, d \in BOOLEAN : PollPage(i, d)
  <2>1. PICK i \in Inst, d \in BOOLEAN : PollPage(i, d)
    BY <1>6
  <2>2. PICK S \in SUBSET Due(i) :
          /\ op' = Shipped(S, i)
          /\ ships' = [o \in Op |-> IF o \in S THEN ships[o] + 1 ELSE ships[o]]
          /\ page' = IF d THEN PageOf(S) ELSE page
    BY <2>1 DEF PollPage
  <2>3. /\ op' \in [Op -> OpRow] /\ ships' \in [Op -> Nat]
        /\ \A o \in Op : RowOK(op'[o], ships'[o])
        /\ Linked(op') /\ Frame(op, op')
    BY <1>0, <2>2, ShippedGood
  <2>4. page' \in SUBSET PageEntry
    <3>1. \A o \in S : o \in Op /\ op[o].attempts \in Nat
      BY <1>0 DEF Due, TypeOK, OpRow
    <3>2. PageOf(S) \in SUBSET PageEntry
      BY <3>1 DEF PageOf, PageEntry
    <3> QED
      BY <1>0, <2>2, <3>2 DEF TypeOK
  <2>5. /\ UNCHANGED <<dbVars, owner, inst, acks, hb, live>>
        /\ polls' \in [Inst -> PollState]
    BY <1>0, <2>1 DEF PollPage, TypeOK, PollState, Poll
  <2>6. TypeOK'
    BY <1>0, <2>3, <2>4, <2>5 DEF TypeOK, dbVars
  <2>7. TableOK(op)'
    BY <2>3 DEF TableOK, Linked, SameRRset, QueuedAfter
  <2>8. Rows'
    <3>1. \A o \in S : op[o].state = "pending"
      BY DEF Due
    <3>2. \A o \in Op : op[o].state = "none" => ships'[o] = ships[o]
      BY <2>2, <3>1
    <3> QED
      BY <1>0, <2>3, <2>5, <3>2 DEF Rows, Frame, dbVars
  <2>9. Ordered'
    BY <1>0, <2>3, <2>5 DEF Ordered, Frame, SameRRset, QueuedAfter, dbVars
  <2> QED
    BY <2>6, <2>7, <2>8, <2>9 DEF IInv
<1>7. CASE \E ok, took \in BOOLEAN : ApplyOp(ok, took)
  <2>1. PICK ok \in BOOLEAN, took \in BOOLEAN : ApplyOp(ok, took)
    BY <1>7
  <2>2. PICK e \in page :
          /\ page' = page \ {e}
          /\ acks' = Append(acks, [op |-> e.op, dispatch |-> e.dispatch, ok |-> ok])
          /\ live' = [k \in Key |-> IF took /\ k = op[e.op].key
                                    THEN op[e.op].ver ELSE live[k]]
    BY <2>1 DEF ApplyOp
  <2>3. e \in PageEntry /\ e.op \in Op /\ op[e.op].ver \in Nat
    BY <1>0 DEF TypeOK, PageEntry, OpRow
  <2>4. [op |-> e.op, dispatch |-> e.dispatch, ok |-> ok] \in Ack
    BY <2>3 DEF PageEntry, Ack
  <2>5. acks' \in Seq(Ack) /\ live' \in [Key -> Nat] /\ page' \in SUBSET PageEntry
    BY <1>0, <2>2, <2>3, <2>4 DEF TypeOK
  <2>6. UNCHANGED <<dbVars, op, owner, polls, inst, hb, ships>>
    BY <2>1 DEF ApplyOp
  <2>7. TypeOK'
    BY <1>0, <2>5, <2>6 DEF TypeOK, dbVars
  <2> QED
    BY <2>6, <2>7, QuietStep DEF IInv, dbVars
<1>8. CASE Restart
  <2>1. TypeOK'
    BY <1>0, <1>8 DEF Restart, TypeOK, dbVars, Inst
  <2> QED
    BY <1>8, <2>1, QuietStep DEF IInv, Restart, dbVars
<1>9. CASE HeartbeatSend
  <2> DEFINE sent == IF Len(acks) =< AcksBatch THEN acks
                     ELSE SubSeq(acks, 1, AcksBatch)
  <2>1. sent \in Seq(Ack)
    BY <1>0 DEF TypeOK
  <2>2. hb' \in [Inst -> [out : BOOLEAN, acks : Seq(Ack)]]
    BY <1>0, <1>9, <2>1 DEF HeartbeatSend, TypeOK
  <2>3. TypeOK'
    BY <1>0, <1>9, <2>2 DEF HeartbeatSend, TypeOK, dbVars
  <2> QED
    BY <1>9, <2>3, QuietStep DEF IInv, HeartbeatSend, dbVars
<1>10. CASE \E i \in Inst : HeartbeatLost(i)
  <2>1. NoHeartbeat \in [out : BOOLEAN, acks : Seq(Ack)]
    BY DEF NoHeartbeat
  <2>2. TypeOK'
    BY <1>0, <1>10, <2>1 DEF HeartbeatLost, TypeOK, dbVars
  <2> QED
    BY <1>10, <2>2, QuietStep DEF IInv, HeartbeatLost, dbVars
<1>11. CASE \E i \in Inst, a \in BOOLEAN : Heartbeat(i, a)
  <2>1. PICK i \in Inst, a \in BOOLEAN : Heartbeat(i, a)
    BY <1>11
  <2>2. Good(op, op')
    BY <1>0, <2>1, HeartbeatGood DEF Heartbeat
  <2>3. NoHeartbeat \in [out : BOOLEAN, acks : Seq(Ack)]
    BY DEF NoHeartbeat
  <2>4. acks' \in Seq(Ack)
    <3>1. hb[i].acks \in Seq(Ack) /\ acks \in Seq(Ack)
      BY <1>0 DEF TypeOK
    <3>2. Len(hb[i].acks) \in Nat
      BY <3>1
    <3>3. SubSeq(acks, Len(hb[i].acks) + 1, Len(acks)) \in Seq(Ack)
      BY <3>1, <3>2
    <3> QED
      BY <2>1, <3>1, <3>3 DEF Heartbeat
  <2>5. op' \in [Op -> OpRow]
    BY <2>2 DEF Good, TableOK
  <2>6. TypeOK'
    BY <1>0, <2>1, <2>3, <2>4, <2>5 DEF Heartbeat, TypeOK, dbVars
  <2> QED
    BY <2>1, <2>2, <2>6, TableStep DEF IInv, Heartbeat, dbVars
<1>12. CASE (\E o \in Op : BackoffElapses(o)) \/ AckTimeout
  <2>1. /\ op' = [o \in Op |-> op'[o]]
        /\ \A o \in Op :
              /\ op'[o] \in OpRow
              /\ op'[o].key = op[o].key /\ op'[o].created = op[o].created
              /\ op'[o].ver = op[o].ver /\ op'[o].state = op[o].state
              /\ op'[o].attempts = op[o].attempts /\ op'[o].by = op[o].by
    <3>1. op \in [Op -> OpRow]
      BY <1>0 DEF TypeOK
    <3> DEFINE Same(x, r) ==
                 /\ x \in OpRow /\ x.key = r.key /\ x.created = r.created
                 /\ x.ver = r.ver /\ x.state = r.state
                 /\ x.attempts = r.attempts /\ x.by = r.by
    <3>2. \A r \in OpRow : /\ Same(r, r)
                           /\ Same([r EXCEPT !.backoff = FALSE], r)
                           /\ Same([r EXCEPT !.overdue = TRUE], r)
      BY DEF OpRow
    <3>3. (op' = [o \in Op |-> op'[o]] /\ \A o \in Op : Same(op'[o], op[o]))
      <4>3. CASE \E o \in Op : BackoffElapses(o)
        <5>1. PICK p \in Op : op' = [op EXCEPT ![p].backoff = FALSE]
          BY <4>3 DEF BackoffElapses
        <5>2. /\ op' = [o \in Op |-> op'[o]]
              /\ \A o \in Op : op'[o] = IF o = p THEN [op[o] EXCEPT !.backoff = FALSE]
                                        ELSE op[o]
          BY <3>1, <5>1
        <5> HIDE DEF Same
        <5> QED
          BY <3>1, <3>2, <5>2
      <4>4. CASE AckTimeout
        <5>1. op' = [o \in Op |-> IF op[o].state = "in_flight"
                                  THEN [op[o] EXCEPT !.overdue = TRUE] ELSE op[o]]
          BY <4>4 DEF AckTimeout
        <5>2. /\ op' = [o \in Op |-> op'[o]]
              /\ \A o \in Op : op'[o] = IF op[o].state = "in_flight"
                                        THEN [op[o] EXCEPT !.overdue = TRUE] ELSE op[o]
          BY <5>1
        <5> HIDE DEF Same
        <5> QED
          BY <3>1, <3>2, <5>2
      <4> QED
        BY <1>12, <4>3, <4>4
    <3> QED
      BY <3>3
  <2>2. op' \in [Op -> OpRow] /\ Frame(op, op')
    BY <2>1 DEF Frame
  <2>3. Good(op, op')
    <3>1. Linked(op')
      BY <1>0, <2>1, <2>2, LinkedStep DEF TableOK
    <3> QED
      BY <1>0, <2>1, <2>2, <3>1 DEF Good, TableOK, RowOK
  <2>4. UNCHANGED <<dbVars, owner, polls, inst, page, acks, hb, live, ships>>
    BY <1>12 DEF BackoffElapses, AckTimeout
  <2>5. TypeOK'
    BY <1>0, <2>2, <2>4 DEF TypeOK, dbVars
  <2> QED
    BY <2>3, <2>4, <2>5, TableStep DEF IInv, dbVars
<1>13. CASE UNCHANGED vars
  <2>1. TypeOK'
    BY <1>0, <1>13 DEF vars, TypeOK
  <2> QED
    BY <1>13, <2>1, QuietStep DEF IInv, vars
<1> QED
  BY <1>1, <1>2, <1>3, <1>4, <1>5, <1>6, <1>7, <1>8, <1>9, <1>10, <1>11,
     <1>12, <1>13 DEF Next

\* The invariant holds in every reachable state.
THEOREM Invariance == Spec => []IInv
BY IInvInit, IInvNext, PTL DEF Spec

\* Type correctness of the op queue.
THEOREM TypeCorrect == Spec => []TypeOK
<1>1. IInv => TypeOK
  BY DEF IInv
<1> QED
  BY <1>1, Invariance, PTL

\* fail_attempts charges every dispatch exactly once, whichever of its three
\* callers gets there first, for every retry budget, any number of agent
\* processes and any loss, repetition or delay of heartbeats.
THEOREM BudgetIsHonest == Spec => []BudgetHonest
<1>1. IInv => BudgetHonest
  BY DEF IInv, TableOK, RowOK, BudgetHonest
<1> QED
  BY <1>1, Invariance, PTL

\* The superseded_by chain always leads to an op queued later for the same
\* RRset, so a waiter that follows it terminates.
THEOREM ChainsLeadForward == Spec => []SupersedeChain
<1>1. IInv => SupersedeChain
  BY DEF IInv, TableOK, Linked, SupersedeChain
<1> QED
  BY <1>1, Invariance, PTL

\* While record-writing transactions do not overlap, an op that is superseded
\* instead of retried is delivered by the op it points at.
THEOREM SupersededIsDelivered ==
    ASSUME ~ Overlap
    PROVE  Spec => []SupersededDelivers
<1>1. IInv => SupersededDelivers
  BY DEF IInv, TableOK, Linked, Ordered, SupersededDelivers
<1> QED
  BY <1>1, Invariance, PTL
=============================================================================
