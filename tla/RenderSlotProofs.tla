-------------------------- MODULE RenderSlotProofs --------------------------
(***************************************************************************)
(* RenderSlot for any number of servers, workers, slots and faults: the    *)
(* types, that the lock and the slots keep renders apart, and how many     *)
(* processes a server whose renders keep dying may cost.                   *)
(***************************************************************************)
EXTENDS RenderSlot, FiniteSetTheorems, TLAPS

USE ConstantsAssumption

\* The token a run takes is nobody else's.
LEMMA FreshIsFresh ==
    ASSUME Token \ UsedTokens # {}
    PROVE FreshToken \in Token /\ FreshToken \notin UsedTokens /\ FreshToken # None
  <1>1. \E t \in Token : t \notin UsedTokens OBVIOUS
  <1> QED BY <1>1 DEF FreshToken

LEMMA PlainType ==
    ASSUME NEW s \in Server, NEW b \in BOOLEAN PROVE Plain(s, b) \in Message
  BY DEF Plain, Message

\* A message counted again or re-published is a message.
LEMMA MessageType ==
    ASSUME NEW m \in Message
    PROVE /\ Counted(m) \in Message
          /\ Counted(m).server = m.server /\ Counted(m).token = m.token
          /\ m.server \in Server /\ m.token \in Token \cup {None} /\ m.n \in Nat
          /\ m.sized \in BOOLEAN
  BY DEF Message, Counted

LEMMA RetryType ==
    ASSUME NEW s \in Server, NEW t \in Token \cup {None}, NEW b \in BOOLEAN
    PROVE Retry(s, t, b) \in Message /\ Retry(s, t, b).token = t
  BY DEF Retry, Message

LEMMA TokenType ==
    ASSUME NEW m \in Message, m.token = None => Token \ UsedTokens # {}
    PROVE RunToken(m) \in Token
  BY FreshIsFresh DEF RunToken, Message

LEMMA TypeInit == Init => TypeOK
  <1> SUFFICES ASSUME Init PROVE TypeOK OBVIOUS
  <1>1. \A w \in Worker : ~Running(w) BY DEF Init, Running
  <1>2. faults \in 0..MaxFaults /\ queue \subseteq Message BY DEF Init
  <1>3. /\ lock \in [Server -> Token \cup {None}] /\ slot \in [Slot -> Token \cup {None}]
        /\ attempts \in [Server -> Nat] /\ killed \in [Server -> Nat] /\ stalled \in [Server -> Nat]
    BY DEF Init
  <1>4. /\ pc \in [Worker -> Keyed \cup {"idle", "flag", "publish"}]
        /\ cur \in [Worker -> Message \cup {None}]
        /\ tok \in [Worker -> Token \cup {None}] /\ slt \in [Worker -> Slot \cup {None}]
        /\ out \in [Worker -> {"done", "retry", "resize"}]
        /\ snap \in [Worker -> BOOLEAN]
        /\ lost \in [Worker -> SUBSET {"lock", "slot"}]
    BY DEF Init
  <1> QED BY <1>1, <1>2, <1>3, <1>4 DEF Init, TypeOK

LEMMA TypeEnds ==
    ASSUME TypeOK, NEW w \in Worker, Ends(w)
    PROVE /\ pc' \in [Worker -> Keyed \cup {"idle", "flag", "publish"}]
          /\ cur' \in [Worker -> Message \cup {None}]
          /\ \A v \in Worker : Running(v)' => cur'[v] \in Message
          /\ tok' \in [Worker -> Token \cup {None}]
          /\ slt' \in [Worker -> Slot \cup {None}]
          /\ snap' \in [Worker -> BOOLEAN]
          /\ out' \in [Worker -> {"done", "retry", "resize"}]
          /\ lost' \in [Worker -> SUBSET {"lock", "slot"}]
  BY DEF Ends, TypeOK, Running, Goto

LEMMA TypeRequests ==
    ASSUME TypeOK, (\E s \in Server : Change(s)) \/ Sweep
    PROVE TypeOK'
  <1>1. ASSUME NEW s \in Server, Change(s) PROVE TypeOK'
    <2>1. Plain(s, FALSE) \in Message BY PlainType
    <2> QED BY <1>1, <2>1 DEF Change, TypeOK, Running, redis, ghosts
  <1>2. CASE Sweep
    <2>0. \A s \in Server : Plain(s, s \in Known) \in Message
      BY DEF Plain, Message
    <2>1. {Plain(s, s \in Known) : s \in behind \ failed} \subseteq Message
      BY <2>0 DEF TypeOK
    <2> QED BY <1>2, <2>1 DEF Sweep, TypeOK, Running, redis, run, ghosts
  <1> QED BY <1>1, <1>2

LEMMA TypeReceive ==
    ASSUME TypeOK, NEW w \in Worker, NEW m \in queue, Receive(w, m)
    PROVE TypeOK'
  <1>0. m \in Message /\ m.server \in Server BY MessageType DEF TypeOK
  <1>c. Counted(m) \in Message BY <1>0, MessageType
  <1>1. CASE TooManyDeliveries(w, m)
    BY <1>0, <1>1 DEF TooManyDeliveries, TypeOK, Running, redis, run, ghosts
  <1>2. CASE AcquireHeld(w, m)
    <2>1. RunToken(m) \in Token BY <1>0, <1>2, TokenType DEF AcquireHeld, Receives
    <2> QED BY <1>0, <1>c, <1>2, <2>1
         DEF AcquireHeld, Receives, Deliver, TypeOK, Running, Goto, ghosts, Keyed
  <1>3. CASE AcquireDeferred(w, m)
    <2>1. RunToken(m) \in Token BY <1>0, <1>3, TokenType DEF AcquireDeferred, Deferral
    <2>2. Retry(m.server, RunToken(m), m.sized) \in Message BY <1>0, <2>1, MessageType, RetryType
    <2> QED BY <1>0, <1>3, <2>1, <2>2
         DEF AcquireDeferred, Deferral, TypeOK, Running, run, ghosts
  <1>4. CASE AcquireCoalesced(w, m)
    BY <1>0, <1>c, <1>4
    DEF AcquireCoalesced, Deliver, TypeOK, Running, Goto, redis, ghosts, Keyed
  <1> QED BY <1>1, <1>2, <1>3, <1>4 DEF Receive, Acquire

LEMMA TypeStep ==
    ASSUME TypeOK, NEW w \in Worker, Step(w)
    PROVE TypeOK'
  <1>0. Running(w) => cur[w] \in Message /\ srv(w) \in Server
    BY DEF TypeOK, srv, Message
  <1>1. CASE SetDirty(w)
    BY <1>0, <1>1, TypeEnds DEF SetDirty, TypeOK, Running, ghosts
  <1>2. CASE Verdict(w)
    BY <1>0, <1>2 DEF Verdict, TypeOK, Running, Goto, Keyed
  <1>3. CASE RecordAbandoned(w)
    BY <1>0, <1>3 DEF RecordAbandoned, TypeOK, Running, Goto, Keyed, redis, ghosts
  <1>4. CASE StartRender(w)
    BY <1>0, <1>4 DEF StartRender, TypeOK, Running, Goto, Keyed, ghosts
  <1>5. CASE ReadServer(w)
    <2>1. /\ pc' \in [Worker -> Keyed \cup {"idle", "flag", "publish"}]
          /\ \A v \in Worker : Running(v)' => Running(v)
          /\ snap' \in [Worker -> BOOLEAN] /\ out' \in [Worker -> {"done", "retry", "resize"}]
      BY <1>5 DEF ReadServer, TypeOK, Running, Goto, Keyed
    <2>2. /\ attempts' \in [Server -> Nat] /\ killed' \in [Server -> Nat]
          /\ heldOnce' \subseteq Server
      BY <1>0, <1>5 DEF ReadServer, Finished, TypeOK, Running
    <2> QED BY <1>5, <2>1, <2>2 DEF ReadServer, TypeOK
  <1>6. CASE StoreBundle(w)
    BY <1>0, <1>6 DEF StoreBundle, TypeOK, Running, Goto, Keyed, redis, ghosts
  <1>7. CASE AfterRender(w)
    BY <1>0, <1>7 DEF AfterRender, Finished, TypeOK, Running, Goto, Keyed
  <1>8. CASE Release(w)
    <2>1. lock' \in [Server -> Token \cup {None}] /\ slot' \in [Slot -> Token \cup {None}]
      BY <1>0, <1>8 DEF Release, Released, TypeOK
    <2>2. CASE out[w] = "done"
      BY <1>8, <2>1, <2>2, TypeEnds DEF Release, TypeOK, Running, ghosts
    <2>3. CASE out[w] # "done"
      BY <1>8, <2>1, <2>3 DEF Release, TypeOK, Running, Goto, ghosts
    <2> QED BY <2>2, <2>3
  <1>9. CASE PublishRetry(w)
    <2>1. Retry(srv(w), tok[w], cur[w].sized \/ out[w] = "resize") \in Message
      BY <1>0, <1>9 DEF PublishRetry, Retry, Message, TypeOK, Running
    <2> QED BY <1>9, <2>1, TypeEnds DEF PublishRetry, TypeOK, redis, Running, ghosts
  <1> QED BY <1>1, <1>2, <1>3, <1>4, <1>5, <1>6, <1>7, <1>8, <1>9 DEF Step

LEMMA TypeTime ==
    ASSUME TypeOK, Lapse \/ WaitingLapses
    PROVE TypeOK'
  <1>1. ASSUME NEW s \in Server, LockLapses(s) PROVE TypeOK'
    BY <1>1 DEF LockLapses, TypeOK, Running, run, ghosts
  <1>2. ASSUME NEW s \in Server, HoldLapses(s) PROVE TypeOK'
    BY <1>2 DEF HoldLapses, TypeOK, Running, run, ghosts
  <1>3. ASSUME NEW s \in Server, BackoffLapses(s) PROVE TypeOK'
    BY <1>3 DEF BackoffLapses, TypeOK, Running, redis, run, ghosts
  <1>4. ASSUME NEW k \in Slot, SlotLapses(k) PROVE TypeOK'
    BY <1>4 DEF SlotLapses, TypeOK, Running, run, ghosts
  <1>5. CASE WaitingLapses
    BY <1>5 DEF WaitingLapses, TypeOK, Running, run, ghosts
  <1> QED BY <1>1, <1>2, <1>3, <1>4, <1>5 DEF Lapse

LEMMA TypeFault ==
    ASSUME TypeOK, AnyFault
    PROVE TypeOK'
  <1>f. ASSUME NEW f, Fault(f) PROVE faults' \in 0..MaxFaults
    BY <1>f DEF Fault, TypeOK
  <1>0. \A w \in Worker : Running(w) => cur[w] \in Message /\ srv(w) \in Server
    BY DEF TypeOK, srv, Message
  <1>1. ASSUME NEW w \in Worker, Kill(w) PROVE TypeOK'
    BY <1>0, <1>1, <1>f, TypeEnds DEF Kill, TypeOK, redis, Running
  <1>2. ASSUME NEW w \in Worker, Abort(w) PROVE TypeOK'
    BY <1>0, <1>2, <1>f, TypeEnds DEF Abort, TypeOK, redis, Running, ghosts
  <1>3. ASSUME NEW w \in Worker, FailRender(w) PROVE TypeOK'
    <2>1. /\ pc' \in [Worker -> Keyed \cup {"idle", "flag", "publish"}]
          /\ \A v \in Worker : Running(v)' => Running(v)
          /\ snap' \in [Worker -> BOOLEAN]
      BY <1>3 DEF FailRender, TypeOK, Running, Goto, Keyed
    <2>2. /\ attempts' \in [Server -> Nat] /\ killed' \in [Server -> Nat]
          /\ heldOnce' \subseteq Server /\ failed' \subseteq Server
      BY <1>0, <1>3 DEF FailRender, Finished, TypeOK, Running
    <2> QED BY <1>3, <1>f, <2>1, <2>2 DEF FailRender, TypeOK
  <1>4. ASSUME NEW w \in Worker, Redeliver(w) PROVE TypeOK'
    BY <1>0, <1>4, <1>f, MessageType DEF Redeliver, TypeOK, Running, redis, run
  <1>5. ASSUME NEW s \in Server, StallLock(s) PROVE TypeOK'
    BY <1>5, <1>f DEF StallLock, TypeOK, Running, run
  <1>6. ASSUME NEW k \in Slot, StallSlot(k) PROVE TypeOK'
    BY <1>6, <1>f DEF StallSlot, TypeOK, Running, run, ghosts
  <1>7. ASSUME NEW m \in queue, Lose(m) PROVE TypeOK'
    BY <1>7, <1>f DEF Lose, TypeOK, Running, redis, run, ghosts
  <1>8. ASSUME NEW w \in Worker, NEW m \in queue, KillDeferral(w, m) PROVE TypeOK'
    <2>0. m \in Message /\ m.server \in Server BY MessageType DEF TypeOK
    <2>1. RunToken(m) \in Token BY <1>8, <2>0, TokenType DEF KillDeferral, Deferral
    <2>2. Counted(m) \in Message BY <2>0, MessageType
    <2> QED BY <1>8, <1>f, <2>0, <2>1, <2>2 DEF KillDeferral, Deferral, TypeOK, Running, run, ghosts
  <1>9. ASSUME NEW w \in Worker, NEW m \in queue, RunWithoutRedis(w, m) PROVE TypeOK'
    <2>0. m \in Message BY DEF TypeOK
    <2>2. Counted(m) \in Message BY <2>0, MessageType
    <2> QED BY <1>9, <1>f, <2>0, <2>2
         DEF RunWithoutRedis, Deliver, TypeOK, Running, Goto, Keyed, redis, ghosts
  <1>10. ASSUME NEW w \in Worker, FlagFails(w) PROVE TypeOK'
    BY <1>10, <1>f DEF FlagFails, TypeOK, Running, Goto, Keyed, redis, ghosts
  <1> QED BY <1>1, <1>2, <1>3, <1>4, <1>5, <1>6, <1>7, <1>8, <1>9, <1>10 DEF AnyFault

\* Every variable keeps its type, whatever faults happen.
THEOREM TypeCorrect == Spec => []TypeOK
  <1>1. TypeOK /\ [Next]_vars => TypeOK'
    <2>1. CASE UNCHANGED vars
      BY <2>1 DEF TypeOK, vars, redis, run, ghosts, Running
    <2> QED BY <2>1, TypeRequests, TypeReceive, TypeStep, TypeTime, TypeFault DEF Next
  <1> QED BY <1>1, TypeInit, PTL DEF Spec

-----------------------------------------------------------------------------
(* The inductive invariant behind exclusion.  A run that has not lost a      *)
(* lease finds its token in the key, and a token is carried by one run or    *)
(* one message, the retries delivered twice aside.                           *)

Carries(w, t) == Running(w) /\ t # None /\ (tok[w] = t \/ cur[w].token = t)

Shape ==
    \A w \in Worker :
        /\ ~Running(w) => tok[w] = None /\ slt[w] = None /\ lost[w] = {}
        /\ pc[w] = "flag" => tok[w] = None
        /\ Holds(w) => slt[w] \in Slot

LockKept ==
    \A w \in Worker :
        Holds(w) /\ "lock" \notin lost[w] /\ tok[w] \notin twice => lock[srv(w)] = tok[w]

SlotKept ==
    \A w \in Worker :
        Holds(w) /\ "slot" \notin lost[w] /\ tok[w] \notin twice => slot[slt[w]] = tok[w]

Unique ==
    /\ \A v, w \in Worker : \A t \in Token :
         v # w /\ Carries(v, t) /\ Carries(w, t) => t \in twice
    /\ \A w \in Worker : \A m \in queue : Carries(w, m.token) => m.token \in twice
    /\ \A m, r \in queue : m # r /\ m.token = r.token /\ m.token # None => m.token \in twice

KeyInv == Shape /\ LockKept /\ SlotKept /\ Unique

LEMMA KeyInit == Init => KeyInv
  BY DEF Init, KeyInv, Shape, LockKept, SlotKept, Unique, Carries, Holds, Running, Keyed

\* Steps that touch no key, no token and no lease, and add only new requests.
LEMMA KeyQuiet ==
    ASSUME TypeOK, KeyInv,
           UNCHANGED <<lock, slot, tok, slt, cur, lost, twice>>,
           \A v \in Worker : pc'[v] = pc[v] \/ (pc[v] \in Keyed /\ pc'[v] \in Keyed),
           \A m \in queue' : m \in queue \/ m.token = None
    PROVE KeyInv'
  <1>1. \A v \in Worker : Running(v)' = Running(v) /\ Holds(v)' = Holds(v)
    BY DEF Running, Holds, Keyed
  <1>2. \A v \in Worker : pc'[v] = "flag" => pc[v] = "flag" BY DEF Keyed
  <1>3. \A v \in Worker : srv(v)' = srv(v) BY DEF srv
  <1>4. Shape' BY <1>1, <1>2 DEF KeyInv, Shape
  <1>5. LockKept' BY <1>1, <1>3 DEF KeyInv, LockKept
  <1>6. SlotKept' BY <1>1 DEF KeyInv, SlotKept
  <1>7. \A v \in Worker : \A t : Carries(v, t)' = Carries(v, t) BY <1>1 DEF Carries
  <1>8. Unique'
    <2>1. \A v, w \in Worker : \A t \in Token :
            v # w /\ Carries(v, t)' /\ Carries(w, t)' => t \in twice'
      BY <1>7 DEF KeyInv, Unique
    <2>2. \A w \in Worker : \A m \in queue' : Carries(w, m.token)' => m.token \in twice'
      BY <1>7 DEF KeyInv, Unique, Carries
    <2>3. \A m, r \in queue' : m # r /\ m.token = r.token /\ m.token # None => m.token \in twice'
      BY DEF KeyInv, Unique
    <2> QED BY <2>1, <2>2, <2>3 DEF Unique
  <1> QED BY <1>4, <1>5, <1>6, <1>8 DEF KeyInv

\* A run that ends: it releases only what holds its token, and hands at most one
\* message with a token of its own to the broker.
LEMMA KeyEnds ==
    ASSUME TypeOK, KeyInv, NEW w \in Worker, NEW r, Running(w), Ends(w), UNCHANGED twice,
           \A s \in Server : lock'[s] = lock[s] \/ (tok[w] # None /\ lock[s] = tok[w]),
           \A k \in Slot : slot'[k] = slot[k] \/ (tok[w] # None /\ slot[k] = tok[w]),
           \A m \in queue' : m \in queue \/ m.token = None \/ (m = r /\ Carries(w, m.token))
    PROVE KeyInv'
  <1>0. ~Running(w)' /\ tok'[w] = None /\ slt'[w] = None /\ lost'[w] = {} /\ ~Holds(w)'
    BY DEF Ends, Goto, Running, Holds, Keyed, TypeOK
  <1>1. \A v \in Worker : v # w =>
          /\ pc'[v] = pc[v] /\ tok'[v] = tok[v] /\ slt'[v] = slt[v] /\ lost'[v] = lost[v]
          /\ cur'[v] = cur[v]
    BY DEF Ends, Goto, TypeOK
  <1>2. \A v \in Worker : v # w =>
          /\ Running(v)' = Running(v) /\ Holds(v)' = Holds(v) /\ srv(v)' = srv(v)
          /\ \A t : Carries(v, t)' = Carries(v, t)
    BY <1>1 DEF Running, Holds, srv, Carries
  <1>3. \A t : ~Carries(w, t)' BY <1>0 DEF Carries
  <1>4. Shape' BY <1>0, <1>1, <1>2 DEF KeyInv, Shape, Running
  <1>5. ASSUME NEW v \in Worker, v # w, Holds(v), tok[w] # None, tok[w] = tok[v]
        PROVE tok[v] \in twice
    <2>1. Carries(v, tok[v]) /\ Carries(w, tok[v]) /\ tok[v] \in Token
      BY <1>5 DEF Carries, Holds, Running, Keyed, TypeOK
    <2> QED BY <1>5, <2>1 DEF KeyInv, Unique
  <1>6. LockKept'
    <2> SUFFICES ASSUME NEW v \in Worker, Holds(v)', "lock" \notin lost'[v], tok'[v] \notin twice'
                 PROVE lock'[srv(v)'] = tok'[v]
      BY DEF LockKept
    <2>1. v # w /\ Holds(v) /\ lock[srv(v)] = tok[v] /\ srv(v) \in Server
      BY <1>0, <1>1, <1>2 DEF KeyInv, LockKept, TypeOK, Holds, Running, Keyed, srv, Message
    <2> QED BY <1>1, <1>2, <1>5, <2>1
  <1>7. SlotKept'
    <2> SUFFICES ASSUME NEW v \in Worker, Holds(v)', "slot" \notin lost'[v], tok'[v] \notin twice'
                 PROVE slot'[slt'[v]] = tok'[v]
      BY DEF SlotKept
    <2>1. v # w /\ Holds(v) /\ slot[slt[v]] = tok[v] /\ slt[v] \in Slot
      BY <1>0, <1>1, <1>2 DEF KeyInv, SlotKept, Shape
    <2> QED BY <1>1, <1>2, <1>5, <2>1
  <1>8. Unique'
    <2>1. \A u, v \in Worker : \A t \in Token :
            u # v /\ Carries(u, t)' /\ Carries(v, t)' => t \in twice'
      BY <1>2, <1>3 DEF KeyInv, Unique
    <2>2. ASSUME NEW v \in Worker, NEW m \in queue', Carries(v, m.token)'
          PROVE m.token \in twice'
      <3>1. v # w /\ Carries(v, m.token) /\ m.token # None
        BY <1>2, <1>3, <2>2 DEF Carries
      <3>2. m.token \in Token
        BY <3>1 DEF Carries, TypeOK, Message
      <3> QED BY <3>1, <3>2 DEF KeyInv, Unique
    <2>3. ASSUME NEW m \in queue', NEW q \in queue', m # q, m.token = q.token, m.token # None
          PROVE m.token \in twice'
      BY <2>3 DEF KeyInv, Unique
    <2> QED BY <2>1, <2>2, <2>3 DEF Unique
  <1> QED BY <1>4, <1>6, <1>7, <1>8 DEF KeyInv

\* The token a delivered message runs under is carried by nobody else.
LEMMA RunTokenAlone ==
    ASSUME TypeOK, KeyInv, NEW m \in queue, m.token = None => Token \ UsedTokens # {}
    PROVE /\ RunToken(m) \in Token /\ RunToken(m) # None
          /\ m.token # None => RunToken(m) = m.token
          /\ \A v \in Worker : Carries(v, RunToken(m)) => RunToken(m) \in twice
          /\ \A r \in queue : r # m /\ r.token = RunToken(m) => RunToken(m) \in twice
  <1>0. m \in Message BY DEF TypeOK
  <1>1. RunToken(m) \in Token /\ RunToken(m) # None BY <1>0, TokenType
  <1>2. CASE m.token # None
    BY <1>1, <1>2 DEF RunToken, KeyInv, Unique
  <1>3. CASE m.token = None
    <2>1. RunToken(m) \notin UsedTokens BY <1>3, FreshIsFresh DEF RunToken
    <2>2. \A v \in Worker : ~Carries(v, RunToken(m)) BY <2>1 DEF UsedTokens, Carries
    <2>3. \A r \in queue : r.token # RunToken(m) BY <2>1 DEF UsedTokens
    <2> QED BY <1>1, <1>3, <2>2, <2>3
  <1> QED BY <1>2, <1>3

\* Taking a free or an own lock disturbs no run that still has its own.
LEMMA LockOkAlone ==
    ASSUME TypeOK, KeyInv, NEW m \in queue, LockOk(m), NEW v \in Worker, Holds(v),
           "lock" \notin lost[v], tok[v] \notin twice
    PROVE srv(v) # m.server
  <1> SUFFICES ASSUME srv(v) = m.server PROVE FALSE OBVIOUS
  <1>1. lock[m.server] = tok[v] BY DEF KeyInv, LockKept
  <1>2. m.token = tok[v] BY <1>1 DEF LockOk, Holds
  <1>3. Carries(v, m.token) BY <1>2 DEF Carries, Holds, Running, Keyed
  <1> QED BY <1>2, <1>3 DEF KeyInv, Unique

\* A delivery that ends in a running worker: with both keys, or without a token.
LEMMA KeyDeliver ==
    ASSUME TypeOK, KeyInv, NEW w \in Worker, NEW m \in queue, NEW t \in Token \cup {None},
           Deliver(w, m), UNCHANGED twice,
           \E l \in {"verdict", "flag", "clear"} : Goto(w, l) /\ (t # None => l = "verdict"),
           tok' = [tok EXCEPT ![w] = t],
           t = None => UNCHANGED <<lock, slot, slt>>,
           t # None => /\ LockOk(m)
                       /\ t = RunToken(m) /\ (m.token = None => Token \ UsedTokens # {})
                       /\ lock' = [lock EXCEPT ![m.server] = t]
                       /\ \E k \in Slot : /\ slot[k] = None
                                           /\ slot' = [slot EXCEPT ![k] = t]
                                           /\ slt' = [slt EXCEPT ![w] = k]
    PROVE KeyInv'
  <1>m. /\ m \in Message /\ m.server \in Server /\ Counted(m).server = m.server
        /\ Counted(m).token = m.token
    BY MessageType DEF TypeOK
  <1>0. /\ pc[w] = "idle" /\ ~Running(w) /\ cur'[w] = Counted(m) /\ tok'[w] = t
        /\ Running(w)' /\ pc'[w] \in {"verdict", "flag", "clear"} /\ (t # None => pc'[w] = "verdict")
        /\ lost' = lost /\ lost[w] = {} /\ tok[w] = None /\ slt[w] = None
    BY DEF Deliver, Goto, Running, TypeOK, KeyInv, Shape
  <1>1. \A v \in Worker : v # w =>
          /\ pc'[v] = pc[v] /\ tok'[v] = tok[v] /\ slt'[v] = slt[v] /\ cur'[v] = cur[v]
    BY DEF Deliver, Goto, TypeOK
  <1>2. \A v \in Worker : v # w =>
          /\ Running(v)' = Running(v) /\ Holds(v)' = Holds(v) /\ srv(v)' = srv(v)
          /\ \A x : Carries(v, x)' = Carries(v, x)
    BY <1>1 DEF Running, Holds, srv, Carries
  <1>3. Holds(w)' => t # None BY <1>0 DEF Holds
  <1>4. Shape'
    <2>1. t # None => slt'[w] \in Slot BY DEF TypeOK
    <2> QED BY <1>0, <1>1, <1>2, <1>3, <2>1 DEF KeyInv, Shape
  <1>5. LockKept'
    <2> SUFFICES ASSUME NEW v \in Worker, Holds(v)', "lock" \notin lost'[v], tok'[v] \notin twice'
                 PROVE lock'[srv(v)'] = tok'[v]
      BY DEF LockKept
    <2>1. CASE v = w
      <3>1. t # None /\ srv(w)' = m.server BY <1>0, <1>3, <1>m, <2>1 DEF srv
      <3> QED BY <1>0, <1>m, <2>1, <3>1 DEF TypeOK
    <2>2. CASE v # w
      <3>1. Holds(v) /\ lock[srv(v)] = tok[v]
        BY <1>0, <1>1, <1>2, <2>2 DEF KeyInv, LockKept
      <3>2. t # None => srv(v) # m.server
        BY <1>0, <1>1, <1>2, <2>2, <3>1, LockOkAlone
      <3>3. lock'[srv(v)] = lock[srv(v)]
        <4>1. srv(v) \in Server
          BY <3>1 DEF TypeOK, Holds, Running, Keyed, srv, Message
        <4>2. CASE t = None BY <4>2
        <4>3. CASE t # None BY <3>2, <4>1, <4>3, <1>m DEF TypeOK
        <4> QED BY <4>2, <4>3
      <3> QED BY <1>1, <1>2, <2>2, <3>1, <3>3
    <2> QED BY <2>1, <2>2
  <1>6. SlotKept'
    <2> SUFFICES ASSUME NEW v \in Worker, Holds(v)', "slot" \notin lost'[v], tok'[v] \notin twice'
                 PROVE slot'[slt'[v]] = tok'[v]
      BY DEF SlotKept
    <2>1. CASE v = w
      BY <1>0, <1>3, <2>1 DEF TypeOK
    <2>2. CASE v # w
      <3>1. Holds(v) /\ slot[slt[v]] = tok[v] /\ tok[v] # None /\ slt[v] \in Slot
        BY <1>0, <1>1, <1>2, <2>2 DEF KeyInv, SlotKept, Shape, Holds
      <3>2. slot'[slt[v]] = slot[slt[v]] BY <3>1 DEF TypeOK
      <3> QED BY <1>1, <2>2, <3>1, <3>2
    <2> QED BY <2>1, <2>2
  <1>7. queue' = queue \ {m} BY DEF Deliver
  <1>8. \A x : Carries(w, x)' => x # None /\ (x = t \/ x = m.token)
    BY <1>0, <1>m DEF Carries
  <1>9. /\ \A v \in Worker : \A x \in Token :
             v # w /\ Carries(v, x) /\ (x = t \/ x = m.token) => x \in twice
        /\ \A r \in queue : r # m /\ r.token # None /\ (r.token = t \/ r.token = m.token)
                                => r.token \in twice
    <2>1. CASE t = None
      BY <2>1 DEF KeyInv, Unique
    <2>2. CASE t # None
      <3>1. t = RunToken(m) /\ (m.token # None => t = m.token)
        BY <2>2, RunTokenAlone
      <3>2. \A v \in Worker : Carries(v, t) => t \in twice BY <2>2, RunTokenAlone
      <3>3. \A r \in queue : r # m /\ r.token = t => t \in twice BY <2>2, RunTokenAlone
      <3> QED BY <2>2, <3>1, <3>2, <3>3
    <2> QED BY <2>1, <2>2
  <1>10. Unique'
    <2>1. ASSUME NEW u \in Worker, NEW v \in Worker, NEW x \in Token, u # v,
                 Carries(u, x)', Carries(v, x)'
          PROVE x \in twice'
      BY <1>2, <1>8, <1>9, <2>1 DEF KeyInv, Unique
    <2>2. ASSUME NEW v \in Worker, NEW r \in queue', Carries(v, r.token)'
          PROVE r.token \in twice'
      BY <1>2, <1>7, <1>8, <1>9, <2>2 DEF KeyInv, Unique
    <2>3. \A q, r \in queue' : q # r /\ q.token = r.token /\ q.token # None => q.token \in twice'
      BY <1>7 DEF KeyInv, Unique
    <2> QED BY <2>1, <2>2, <2>3 DEF Unique
  <1> QED BY <1>4, <1>5, <1>6, <1>10 DEF KeyInv

\* The lock is taken and the message goes back to the broker.
LEMMA KeyDeferral ==
    ASSUME TypeOK, KeyInv, NEW m \in queue, NEW r \in Message, Deferral(m),
           queue' = (queue \ {m}) \cup {r},
           r.token = RunToken(m) \/ r.token = m.token
    PROVE KeyInv'
  <1>m. m \in Message /\ m.server \in Server BY MessageType DEF TypeOK
  <1>0. /\ LockOk(m) /\ lock' = [lock EXCEPT ![m.server] = RunToken(m)]
        /\ UNCHANGED <<slot, pc, cur, tok, slt, lost, twice>>
        /\ m.token = None => Token \ UsedTokens # {}
    BY DEF Deferral, run, ghosts
  <1>1. \A v \in Worker : /\ Running(v)' = Running(v) /\ Holds(v)' = Holds(v) /\ srv(v)' = srv(v)
                          /\ \A x : Carries(v, x)' = Carries(v, x)
    BY <1>0 DEF Running, Holds, srv, Carries
  <1>2. Shape' /\ SlotKept' BY <1>0, <1>1 DEF KeyInv, Shape, SlotKept
  <1>3. LockKept'
    <2> SUFFICES ASSUME NEW v \in Worker, Holds(v), "lock" \notin lost[v], tok[v] \notin twice
                 PROVE lock'[srv(v)] = tok[v]
      BY <1>0, <1>1 DEF LockKept
    <2>1. srv(v) # m.server BY <1>0, LockOkAlone
    <2> QED BY <1>0, <1>m, <2>1 DEF KeyInv, LockKept, TypeOK
  <1>4. Unique'
    <2>1. /\ \A v \in Worker : Carries(v, r.token) => r.token \in twice
          /\ \A q \in queue : q # m /\ q.token = r.token /\ r.token # None => r.token \in twice
      <3>1. CASE r.token = RunToken(m) BY <1>0, <3>1, RunTokenAlone
      <3>2. CASE r.token = m.token BY <3>2 DEF KeyInv, Unique
      <3> QED BY <3>1, <3>2
    <2>2. \A v \in Worker : \A q \in queue' : Carries(v, q.token)' => q.token \in twice'
      BY <1>0, <1>1, <2>1 DEF KeyInv, Unique
    <2>3. \A q, p \in queue' : q # p /\ q.token = p.token /\ q.token # None => q.token \in twice'
      BY <1>0, <2>1 DEF KeyInv, Unique
    <2> QED BY <1>0, <1>1, <2>2, <2>3 DEF KeyInv, Unique
  <1> QED BY <1>2, <1>3, <1>4 DEF KeyInv

LEMMA KeyReceive ==
    ASSUME TypeOK, KeyInv, NEW w \in Worker, NEW m \in queue, Receive(w, m)
    PROVE KeyInv'
  <1>m. m \in Message BY DEF TypeOK
  <1>i. pc[w] = "idle" /\ tok[w] = None
    BY DEF Receive, Acquire, AcquireHeld, AcquireDeferred, AcquireCoalesced, TooManyDeliveries,
           Receives, Deliver, KeyInv, Shape, Running
  <1>1. CASE TooManyDeliveries(w, m)
    BY <1>1, KeyQuiet DEF TooManyDeliveries, redis, run, ghosts
  <1>2. CASE AcquireHeld(w, m)
    <2>1. RunToken(m) \in Token /\ RunToken(m) # None
      BY <1>2, RunTokenAlone DEF AcquireHeld, Receives
    <2> QED BY <1>2, <2>1, KeyDeliver DEF AcquireHeld, Receives, FreeSlot, ghosts
  <1>3. CASE AcquireDeferred(w, m)
    <2>1. RunToken(m) \in Token
      BY <1>3, RunTokenAlone DEF AcquireDeferred, Deferral
    <2>2. /\ Retry(m.server, RunToken(m), m.sized) \in Message
          /\ Retry(m.server, RunToken(m), m.sized).token = RunToken(m)
      BY <1>m, <2>1, MessageType, RetryType
    <2> QED BY <1>3, <2>2, KeyDeferral DEF AcquireDeferred
  <1>4. CASE AcquireCoalesced(w, m)
    <2>1. tok' = [tok EXCEPT ![w] = None]
      BY <1>4, <1>i DEF AcquireCoalesced, TypeOK
    <2> QED BY <1>4, <2>1, KeyDeliver DEF AcquireCoalesced, redis, ghosts
  <1> QED BY <1>1, <1>2, <1>3, <1>4 DEF Receive, Acquire

LEMMA KeyRequests ==
    ASSUME TypeOK, KeyInv, (\E s \in Server : Change(s)) \/ Sweep
    PROVE KeyInv'
  <1>1. ASSUME NEW s \in Server, Change(s) PROVE KeyInv'
    <2>1. Plain(s, FALSE).token = None BY DEF Plain
    <2> QED BY <1>1, <2>1, KeyQuiet DEF Change, redis, ghosts
  <1>2. CASE Sweep
    <2>1. \A s : Plain(s, s \in Known).token = None BY DEF Plain
    <2> QED BY <1>2, <2>1, KeyQuiet DEF Sweep, redis, run, ghosts
  <1> QED BY <1>1, <1>2

LEMMA KeyStep ==
    ASSUME TypeOK, KeyInv, NEW w \in Worker, Step(w)
    PROVE KeyInv'
  <1>1. CASE SetDirty(w)
    BY <1>1, KeyEnds DEF SetDirty, Running, ghosts
  <1>2. CASE Verdict(w)
    <2>1. pc[w] \in Keyed /\ \A v \in Worker : pc'[v] = pc[v] \/ (v = w /\ pc'[v] \in Keyed)
      BY <1>2 DEF Verdict, Goto, TypeOK, Keyed
    <2> QED BY <1>2, <2>1, KeyQuiet DEF Verdict
  <1>3. CASE RecordAbandoned(w)
    <2>1. pc[w] \in Keyed /\ \A v \in Worker : pc'[v] = pc[v] \/ (v = w /\ pc'[v] \in Keyed)
      BY <1>3 DEF RecordAbandoned, Goto, TypeOK, Keyed
    <2> QED BY <1>3, <2>1, KeyQuiet DEF RecordAbandoned, redis, ghosts
  <1>4. CASE StartRender(w)
    <2>1. pc[w] \in Keyed /\ \A v \in Worker : pc'[v] = pc[v] \/ (v = w /\ pc'[v] \in Keyed)
      BY <1>4 DEF StartRender, Goto, TypeOK, Keyed
    <2> QED BY <1>4, <2>1, KeyQuiet DEF StartRender, ghosts
  <1>5. CASE ReadServer(w)
    <2>1. pc[w] \in Keyed /\ \A v \in Worker : pc'[v] = pc[v] \/ (v = w /\ pc'[v] \in Keyed)
      BY <1>5 DEF ReadServer, Goto, TypeOK, Keyed
    <2> QED BY <1>5, <2>1, KeyQuiet DEF ReadServer
  <1>6. CASE StoreBundle(w)
    <2>1. pc[w] \in Keyed /\ \A v \in Worker : pc'[v] = pc[v] \/ (v = w /\ pc'[v] \in Keyed)
      BY <1>6 DEF StoreBundle, Goto, TypeOK, Keyed
    <2> QED BY <1>6, <2>1, KeyQuiet DEF StoreBundle, redis, ghosts
  <1>7. CASE AfterRender(w)
    <2>1. pc[w] \in Keyed /\ \A v \in Worker : pc'[v] = pc[v] \/ (v = w /\ pc'[v] \in Keyed)
      BY <1>7 DEF AfterRender, Goto, TypeOK, Keyed
    <2> QED BY <1>7, <2>1, KeyQuiet DEF AfterRender
  <1>8. CASE Release(w)
    <2>1. Running(w) BY <1>8 DEF Release, Running
    <2>2. \A s \in Server : lock'[s] = lock[s] \/ (tok[w] # None /\ lock[s] = tok[w])
      BY <1>8 DEF Release, Released, TypeOK
    <2>3. \A k \in Slot : slot'[k] = slot[k] \/ (tok[w] # None /\ slot[k] = tok[w])
      BY <1>8 DEF Release, Released, TypeOK
    <2>4. CASE out[w] = "done"
      BY <1>8, <2>1, <2>2, <2>3, <2>4, KeyEnds DEF Release, ghosts
    <2>5. CASE out[w] # "done"
      <3>0. /\ pc[w] = "release" /\ pc'[w] = "publish" /\ Running(w)'
            /\ UNCHANGED <<lock, cur, tok, lost, queue, twice>>
        BY <1>8, <2>5 DEF Release, Goto, TypeOK, ghosts, Running
      <3>1. \A v \in Worker : v # w => pc'[v] = pc[v] /\ slt'[v] = slt[v]
        BY <1>8, <2>5 DEF Release, Goto, TypeOK
      <3>2. /\ ~Holds(w)'
            /\ \A v \in Worker : v # w => Holds(v)' = Holds(v)
            /\ \A v \in Worker : srv(v)' = srv(v) /\ Running(v)' = Running(v)
            /\ \A v \in Worker : \A t : Carries(v, t)' = Carries(v, t)
        BY <2>1, <3>0, <3>1 DEF Holds, srv, Running, Carries, Keyed
      <3>3. Shape' BY <3>0, <3>1, <3>2 DEF KeyInv, Shape
      <3>4. LockKept' BY <3>0, <3>1, <3>2 DEF KeyInv, LockKept
      <3>5. SlotKept'
        <4> SUFFICES ASSUME NEW v \in Worker, Holds(v)', "slot" \notin lost'[v], tok'[v] \notin twice'
                     PROVE slot'[slt'[v]] = tok'[v]
          BY DEF SlotKept
        <4>1. v # w /\ Holds(v) /\ slot[slt[v]] = tok[v] /\ slt[v] \in Slot /\ tok[v] \notin twice
          BY <3>0, <3>1, <3>2 DEF KeyInv, SlotKept, Shape
        <4>2. ASSUME tok[w] # None, tok[w] = tok[v] PROVE FALSE
          <5>1. Carries(v, tok[v]) /\ Carries(w, tok[v]) /\ tok[v] \in Token
            BY <2>1, <4>1, <4>2 DEF Carries, Holds, Running, Keyed, TypeOK
          <5> QED BY <4>1, <5>1 DEF KeyInv, Unique
        <4> QED BY <2>3, <3>0, <3>1, <4>1, <4>2
      <3>6. Unique' BY <3>0, <3>2 DEF KeyInv, Unique
      <3> QED BY <3>3, <3>4, <3>5, <3>6 DEF KeyInv
    <2> QED BY <2>4, <2>5
  <1>9. CASE PublishRetry(w)
    <2> DEFINE r == Retry(srv(w), tok[w], cur[w].sized \/ out[w] = "resize")
    <2>1. Running(w) /\ r.token = tok[w] BY <1>9 DEF PublishRetry, Running, Retry
    <2>2. r.token = None \/ Carries(w, r.token) BY <2>1 DEF Carries
    <2>3. queue' = queue \cup {r} /\ Ends(w) /\ UNCHANGED <<lock, slot, twice>>
      BY <1>9 DEF PublishRetry, redis, ghosts
    <2> HIDE DEF r
    <2> QED BY <2>1, <2>2, <2>3, KeyEnds
  <1> QED BY <1>1, <1>2, <1>3, <1>4, <1>5, <1>6, <1>7, <1>8, <1>9 DEF Step

LEMMA KeyTime ==
    ASSUME TypeOK, KeyInv, Lapse \/ WaitingLapses
    PROVE KeyInv'
  <1>1. ASSUME NEW s \in Server, LockLapses(s) PROVE KeyInv'
    <2>0. /\ lock[s] # None /\ Orphan(lock[s]) /\ lock' = [lock EXCEPT ![s] = None]
          /\ UNCHANGED <<slot, pc, cur, tok, slt, lost, twice, queue>>
      BY <1>1 DEF LockLapses, run, ghosts
    <2>1. \A v \in Worker : /\ Running(v)' = Running(v) /\ Holds(v)' = Holds(v) /\ srv(v)' = srv(v)
                            /\ \A x : Carries(v, x)' = Carries(v, x)
      BY <2>0 DEF Running, Holds, srv, Carries
    <2>2. Shape' /\ SlotKept' /\ Unique' BY <2>0, <2>1 DEF KeyInv, Shape, SlotKept, Unique
    <2>3. LockKept'
      <3> SUFFICES ASSUME NEW v \in Worker, Holds(v), "lock" \notin lost[v], tok[v] \notin twice
                   PROVE lock'[srv(v)] = tok[v]
        BY <2>0, <2>1 DEF LockKept
      <3>1. lock[srv(v)] = tok[v] BY DEF KeyInv, LockKept
      <3>2. srv(v) # s BY <2>0, <3>1 DEF Orphan
      <3> QED BY <2>0, <3>1, <3>2 DEF TypeOK
    <2> QED BY <2>2, <2>3 DEF KeyInv
  <1>2. ASSUME NEW s \in Server, HoldLapses(s) PROVE KeyInv'
    BY <1>2, KeyQuiet DEF HoldLapses, run, ghosts
  <1>3. ASSUME NEW s \in Server, BackoffLapses(s) PROVE KeyInv'
    BY <1>3, KeyQuiet DEF BackoffLapses, redis, run, ghosts
  <1>4. ASSUME NEW k \in Slot, SlotLapses(k) PROVE KeyInv'
    <2>0. /\ \A w \in Worker : tok[w] # slot[k] \/ slt[w] # k
          /\ slot' = [slot EXCEPT ![k] = None]
          /\ UNCHANGED <<lock, pc, cur, tok, slt, lost, twice, queue>>
      BY <1>4 DEF SlotLapses, run, ghosts
    <2>1. \A v \in Worker : /\ Running(v)' = Running(v) /\ Holds(v)' = Holds(v) /\ srv(v)' = srv(v)
                            /\ \A x : Carries(v, x)' = Carries(v, x)
      BY <2>0 DEF Running, Holds, srv, Carries
    <2>2. Shape' /\ LockKept' /\ Unique' BY <2>0, <2>1 DEF KeyInv, Shape, LockKept, Unique
    <2>3. SlotKept'
      <3> SUFFICES ASSUME NEW v \in Worker, Holds(v), "slot" \notin lost[v], tok[v] \notin twice
                   PROVE slot'[slt[v]] = tok[v]
        BY <2>0, <2>1 DEF SlotKept
      <3>1. slot[slt[v]] = tok[v] BY DEF KeyInv, SlotKept
      <3> QED BY <2>0, <3>1 DEF TypeOK
    <2> QED BY <2>2, <2>3 DEF KeyInv
  <1>5. CASE WaitingLapses
    BY <1>5, KeyQuiet DEF WaitingLapses, run, ghosts
  <1> QED BY <1>1, <1>2, <1>3, <1>4, <1>5 DEF Lapse

\* A lease that runs out under live runs is written down with every one of them.
LEMMA KeyStall ==
    ASSUME TypeOK, KeyInv, (\E s \in Server : StallLock(s)) \/ (\E k \in Slot : StallSlot(k))
    PROVE KeyInv'
  <1>1. ASSUME NEW s \in Server, StallLock(s) PROVE KeyInv'
    <2>0. /\ lock[s] # None /\ lock' = [lock EXCEPT ![s] = None]
          /\ lost' = [w \in Worker |-> IF tok[w] = lock[s] THEN lost[w] \cup {"lock"} ELSE lost[w]]
          /\ UNCHANGED <<slot, pc, cur, tok, slt, twice, queue>>
      BY <1>1 DEF StallLock, run
    <2>1. \A v \in Worker : /\ Running(v)' = Running(v) /\ Holds(v)' = Holds(v) /\ srv(v)' = srv(v)
                            /\ lost[v] \subseteq lost'[v]
                            /\ \A x : Carries(v, x)' = Carries(v, x)
      BY <2>0 DEF Running, Holds, srv, Carries
    <2>2. Shape' BY <2>0, <2>1 DEF KeyInv, Shape
    <2>3. SlotKept' /\ Unique' BY <2>0, <2>1 DEF KeyInv, SlotKept, Unique
    <2>4. LockKept'
      <3> SUFFICES ASSUME NEW v \in Worker, Holds(v), "lock" \notin lost'[v], tok[v] \notin twice
                   PROVE lock'[srv(v)] = tok[v]
        BY <2>0, <2>1 DEF LockKept
      <3>1. lock[srv(v)] = tok[v] BY <2>1 DEF KeyInv, LockKept
      <3>2. srv(v) # s BY <2>0, <3>1
      <3> QED BY <2>0, <3>1, <3>2 DEF TypeOK
    <2> QED BY <2>2, <2>3, <2>4 DEF KeyInv
  <1>2. ASSUME NEW k \in Slot, StallSlot(k) PROVE KeyInv'
    <2>0. /\ slot[k] # None /\ slot' = [slot EXCEPT ![k] = None]
          /\ lost' = [w \in Worker |-> IF tok[w] = slot[k] /\ slt[w] = k
                                         THEN lost[w] \cup {"slot"} ELSE lost[w]]
          /\ UNCHANGED <<lock, pc, cur, tok, slt, twice, queue>>
      BY <1>2 DEF StallSlot, run, ghosts
    <2>1. \A v \in Worker : /\ Running(v)' = Running(v) /\ Holds(v)' = Holds(v) /\ srv(v)' = srv(v)
                            /\ lost[v] \subseteq lost'[v]
                            /\ \A x : Carries(v, x)' = Carries(v, x)
      BY <2>0 DEF Running, Holds, srv, Carries
    <2>2. Shape' BY <2>0, <2>1 DEF KeyInv, Shape
    <2>3. LockKept' /\ Unique' BY <2>0, <2>1 DEF KeyInv, LockKept, Unique
    <2>4. SlotKept'
      <3> SUFFICES ASSUME NEW v \in Worker, Holds(v), "slot" \notin lost'[v], tok[v] \notin twice
                   PROVE slot'[slt[v]] = tok[v]
        BY <2>0, <2>1 DEF SlotKept
      <3>1. slot[slt[v]] = tok[v] BY <2>1 DEF KeyInv, SlotKept
      <3>2. slt[v] # k BY <2>0, <3>1
      <3> QED BY <2>0, <3>1, <3>2 DEF TypeOK
    <2> QED BY <2>2, <2>3, <2>4 DEF KeyInv
  <1> QED BY <1>1, <1>2

LEMMA KeyFault ==
    ASSUME TypeOK, KeyInv, AnyFault
    PROVE KeyInv'
  <1>0. \A w \in Worker : Running(w) => cur[w] \in Message BY DEF TypeOK
  <1>1. ASSUME NEW w \in Worker, Kill(w) PROVE KeyInv'
    <2>1. cur[w].token = None \/ Carries(w, cur[w].token) BY <1>1 DEF Kill, Carries
    <2> QED BY <1>1, <2>1, KeyEnds DEF Kill, redis
  <1>2. ASSUME NEW w \in Worker, Abort(w) PROVE KeyInv'
    <2>1. Running(w) BY <1>2 DEF Abort, Running
    <2> QED BY <1>2, <2>1, KeyEnds DEF Abort, redis, ghosts
  <1>3. ASSUME NEW w \in Worker, FailRender(w) PROVE KeyInv'
    <2>1. pc[w] \in Keyed /\ \A v \in Worker : pc'[v] = pc[v] \/ (v = w /\ pc'[v] \in Keyed)
      BY <1>3 DEF FailRender, Goto, TypeOK, Keyed
    <2> QED BY <1>3, <2>1, KeyQuiet DEF FailRender
  <1>4. ASSUME NEW w \in Worker, Redeliver(w) PROVE KeyInv'
    <2>0. /\ Running(w) /\ queue' = queue \cup {cur[w]}
          /\ twice' = twice \cup ({cur[w].token} \ {None})
          /\ UNCHANGED <<lock, slot, pc, cur, tok, slt, lost>>
      BY <1>4 DEF Redeliver, redis, run
    <2>1. \A v \in Worker : /\ Running(v)' = Running(v) /\ Holds(v)' = Holds(v) /\ srv(v)' = srv(v)
                            /\ \A x : Carries(v, x)' = Carries(v, x)
      BY <2>0 DEF Running, Holds, srv, Carries
    <2>2. twice \subseteq twice' /\ (cur[w].token # None => cur[w].token \in twice') BY <2>0
    <2>3. Shape' /\ LockKept' /\ SlotKept'
      BY <2>0, <2>1, <2>2 DEF KeyInv, Shape, LockKept, SlotKept
    <2>4. Unique'
      <3>1. \A u, v \in Worker : \A x \in Token :
              u # v /\ Carries(u, x)' /\ Carries(v, x)' => x \in twice'
        BY <2>1, <2>2 DEF KeyInv, Unique
      <3>2. ASSUME NEW v \in Worker, NEW m \in queue', Carries(v, m.token)' PROVE m.token \in twice'
        <4>1. m.token # None BY <3>2 DEF Carries
        <4> QED BY <2>0, <2>1, <2>2, <3>2, <4>1 DEF KeyInv, Unique
      <3>3. \A m, r \in queue' : m # r /\ m.token = r.token /\ m.token # None => m.token \in twice'
        BY <2>0, <2>2 DEF KeyInv, Unique
      <3> QED BY <3>1, <3>2, <3>3 DEF Unique
    <2> QED BY <2>3, <2>4 DEF KeyInv
  <1>5. ASSUME NEW m \in queue, Lose(m) PROVE KeyInv'
    BY <1>5, KeyQuiet DEF Lose, redis, run, ghosts
  <1>6. ASSUME NEW w \in Worker, NEW m \in queue, KillDeferral(w, m) PROVE KeyInv'
    <2>1. m \in Message BY DEF TypeOK
    <2>2. Counted(m) \in Message /\ Counted(m).token = m.token BY <2>1, MessageType
    <2> QED BY <1>6, <2>2, KeyDeferral DEF KillDeferral
  <1>7. ASSUME NEW w \in Worker, NEW m \in queue, RunWithoutRedis(w, m) PROVE KeyInv'
    <2>1. tok' = [tok EXCEPT ![w] = None]
      BY <1>7 DEF RunWithoutRedis, Deliver, TypeOK, KeyInv, Shape, Running
    <2> QED BY <1>7, <2>1, KeyDeliver DEF RunWithoutRedis, redis, ghosts
  <1>8. ASSUME NEW w \in Worker, FlagFails(w) PROVE KeyInv'
    <2>0. /\ pc[w] = "flag" /\ pc' = [pc EXCEPT ![w] = "clear"] /\ tok[w] = None
          /\ UNCHANGED <<lock, slot, cur, tok, slt, lost, queue, twice>>
      BY <1>8 DEF FlagFails, Goto, redis, ghosts, KeyInv, Shape
    <2>1. \A v \in Worker : /\ Running(v)' = Running(v) /\ Holds(v)' = Holds(v) /\ srv(v)' = srv(v)
                            /\ \A x : Carries(v, x)' = Carries(v, x)
      BY <2>0 DEF Running, Holds, srv, Carries, TypeOK
    <2>2. \A v \in Worker : pc'[v] = "flag" => pc[v] = "flag" BY <2>0 DEF TypeOK
    <2>3. Shape' BY <2>0, <2>1, <2>2 DEF KeyInv, Shape
    <2>4. LockKept' /\ SlotKept' BY <2>0, <2>1 DEF KeyInv, LockKept, SlotKept
    <2>5. Unique' BY <2>0, <2>1 DEF KeyInv, Unique
    <2> QED BY <2>3, <2>4, <2>5 DEF KeyInv
  <1> QED BY <1>1, <1>2, <1>3, <1>4, <1>5, <1>6, <1>7, <1>8, KeyStall DEF AnyFault

\* A run whose lease has not run out finds its token in the lock and in the slot,
\* and no token is carried twice unless the broker delivered it twice.
THEOREM KeysInvariant == Spec => []KeyInv
  <1>1. TypeOK /\ KeyInv /\ [Next]_vars => KeyInv'
    <2>1. CASE UNCHANGED vars
      <3>1. UNCHANGED <<lock, slot, tok, slt, cur, lost, twice, pc, queue>>
        BY <2>1 DEF vars, redis, run, ghosts
      <3> QED BY <3>1, KeyQuiet
    <2> QED BY <2>1, KeyRequests, KeyReceive, KeyStep, KeyTime, KeyFault DEF Next
  <1> QED BY <1>1, KeyInit, TypeCorrect, PTL DEF Spec

\* Two runs that hold a key each, with the token of neither delivered twice, hold
\* different tokens.
LEMMA TokensApart ==
    ASSUME TypeOK, KeyInv, NEW v \in Worker, NEW w \in Worker, v # w, Holds(v), Holds(w),
           tok[v] \notin twice
    PROVE tok[v] # tok[w]
  BY DEF KeyInv, Unique, Carries, Holds, Running, Keyed, TypeOK

\* Whatever is killed, stalled, lost or delivered twice, and however many workers
\* and servers there are: two runs hold one server's lock only if a lease ran out
\* under one of them or the broker delivered one's retry twice.
THEOREM RendersExclusive == Spec => []OneRenderPerServer
  <1>1. TypeOK /\ KeyInv => OneRenderPerServer
    BY TokensApart DEF KeyInv, LockKept, OneRenderPerServer
  <1> QED BY <1>1, TypeCorrect, KeysInvariant, PTL

\* The same for a slot key of the fleet.
THEOREM SlotsExclusive == Spec => []SlotsRespected
  <1>1. TypeOK /\ KeyInv => SlotsRespected
    BY TokensApart DEF KeyInv, SlotKept, SlotsRespected
  <1> QED BY <1>1, TypeCorrect, KeysInvariant, PTL

-----------------------------------------------------------------------------
(* How many processes a server that kills its renders may cost.  The         *)
(* attempts counter pays for every started render that has not finished, and *)
(* a lock that ran out under a live run pays for that run, which goes on     *)
(* beside the next one and may clear the counter under it.                   *)

\* The runs that hold s's lock or believe so, and those that lost it.
Runs(s) == {w \in Worker : Holds(w) /\ srv(w) = s}
LostRuns(s) == {w \in Runs(s) : "lock" \in lost[w]}

\* The renders that may still be killed although a verdict was asked before the
\* counter was cleared: started and not finished, or about to start without a lock.
Busy(s) == {w \in Runs(s) : pc[w] \in Unfinished}
             \cup {w \in LostRuns(s) : pc[w] \in {"verdict", "clear"}}

\* Those and the one run that has just passed its verdict.
Past(s) == Busy(s) \cup {w \in Runs(s) : pc[w] = "clear"}

\* The kills a server may cost before the next hold.
Cap(s) == IF s \in heldOnce THEN 1 ELSE ABANDONED_RENDER_LIMIT

\* What n locks that ran out under a live run may cost on top.
Slack(n) == IF n = 0 THEN 0 ELSE n + 1

PaceOf(L, B, P, k, a, n, c) ==
    /\ IsFiniteSet(L) /\ IsFiniteSet(P) /\ B \subseteq P
    /\ Cardinality(L) <= n
    /\ k + Cardinality(B) + (ABANDONED_RENDER_LIMIT - c) <= Slack(n) + a
    /\ k + Cardinality(P) <= Slack(n) + c

Pace(s) ==
    PaceOf(LostRuns(s), Busy(s), Past(s), killed[s], attempts[s], stalled[s], Cap(s))

\* The token in a server's lock is carried by runs and messages of that server only.
Own ==
    /\ \A s \in Server : \A w \in Worker : Carries(w, lock[s]) => srv(w) = s
    /\ \A s \in Server : \A m \in queue : lock[s] # None /\ m.token = lock[s] => m.server = s

OwnInv == twice = {} => Own

PaceInv == twice = {} => \A s \in Server : Pace(s)

\* Slack grows with every stall.
LEMMA Allowance ==
    ASSUME NEW n \in Nat
    PROVE /\ Slack(n) \in Nat /\ n <= Slack(n)
          /\ Slack(n + 1) \in Nat /\ Slack(n) + 1 <= Slack(n + 1)
          /\ n # 0 => Slack(n) = n + 1
  BY DEF Slack

\* One more element is at most one more.
LEMMA OneMore ==
    ASSUME NEW S, NEW T, NEW w, IsFiniteSet(S), T \subseteq S \cup {w}
    PROVE /\ IsFiniteSet(T) /\ Cardinality(T) <= Cardinality(S) + 1
          /\ Cardinality(T) \in Nat /\ Cardinality(S) \in Nat
  <1>1. /\ IsFiniteSet(S \cup {w})
        /\ Cardinality(S \cup {w}) = IF w \in S THEN Cardinality(S) ELSE Cardinality(S) + 1
    BY FS_AddElement
  <1>2. Cardinality(S) \in Nat /\ Cardinality(S \cup {w}) \in Nat
    BY <1>1, FS_CardinalityType
  <1>3. IsFiniteSet(T) /\ Cardinality(T) <= Cardinality(S \cup {w}) /\ Cardinality(T) \in Nat
    BY <1>1, FS_Subset, FS_CardinalityType
  <1> QED BY <1>1, <1>2, <1>3

\* Fewer runs at risk and the same counters keep the account.
LEMMA PaceShrinks ==
    ASSUME NEW L, NEW B, NEW P, NEW k \in Nat, NEW a \in Nat, NEW n \in Nat, NEW c \in Nat,
           PaceOf(L, B, P, k, a, n, c),
           NEW M, NEW C, NEW Q, M \subseteq L, C \subseteq B, Q \subseteq P, C \subseteq Q
    PROVE PaceOf(M, C, Q, k, a, n, c)
  <1>1. IsFiniteSet(L) /\ IsFiniteSet(P) /\ IsFiniteSet(B)
    BY FS_Subset DEF PaceOf
  <1>2. IsFiniteSet(M) /\ Cardinality(M) <= Cardinality(L) BY <1>1, FS_Subset
  <1>3. IsFiniteSet(C) /\ Cardinality(C) <= Cardinality(B) BY <1>1, FS_Subset
  <1>4. IsFiniteSet(Q) /\ Cardinality(Q) <= Cardinality(P) BY <1>1, FS_Subset
  <1>5. /\ Cardinality(L) \in Nat /\ Cardinality(B) \in Nat /\ Cardinality(P) \in Nat
        /\ Cardinality(M) \in Nat /\ Cardinality(C) \in Nat /\ Cardinality(Q) \in Nat
    BY <1>1, <1>2, <1>3, <1>4, FS_CardinalityType
  <1>6. Slack(n) \in Nat BY Allowance
  <1> QED BY <1>2, <1>3, <1>4, <1>5, <1>6 DEF PaceOf

\* A render that starts raises the counter that pays for it.
LEMMA PaceStarts ==
    ASSUME NEW L, NEW B, NEW P, NEW k \in Nat, NEW a \in Nat, NEW n \in Nat, NEW c \in Nat,
           PaceOf(L, B, P, k, a, n, c),
           NEW w, NEW C, C \subseteq B \cup {w}, C \subseteq P
    PROVE PaceOf(L, C, P, k, a + 1, n, c)
  <1>1. IsFiniteSet(B) /\ Cardinality(B) \in Nat /\ IsFiniteSet(P) /\ Cardinality(P) \in Nat
    BY FS_Subset, FS_CardinalityType DEF PaceOf
  <1>2. Cardinality(C) <= Cardinality(B) + 1 /\ Cardinality(C) \in Nat BY <1>1, OneMore
  <1>3. Slack(n) \in Nat BY Allowance
  <1> QED BY <1>1, <1>2, <1>3 DEF PaceOf

\* A render that is killed no longer counts as one that may be.
LEMMA PaceKilled ==
    ASSUME NEW L, NEW B, NEW P, NEW k \in Nat, NEW a \in Nat, NEW n \in Nat, NEW c \in Nat,
           PaceOf(L, B, P, k, a, n, c), NEW w \in B,
           NEW M, NEW C, NEW Q,
           M \subseteq L, C \subseteq B \ {w}, Q \subseteq P \ {w}, C \subseteq Q
    PROVE PaceOf(M, C, Q, k + 1, a, n, c)
  <1>1. /\ IsFiniteSet(L) /\ IsFiniteSet(P) /\ IsFiniteSet(B) /\ w \in P
        /\ Cardinality(B) \in Nat /\ Cardinality(P) \in Nat /\ Cardinality(L) \in Nat
    BY FS_Subset, FS_CardinalityType DEF PaceOf
  <1>2. /\ IsFiniteSet(B \ {w}) /\ Cardinality(B \ {w}) = Cardinality(B) - 1
        /\ IsFiniteSet(P \ {w}) /\ Cardinality(P \ {w}) = Cardinality(P) - 1
    BY <1>1, FS_RemoveElement
  <1>3. IsFiniteSet(M) /\ Cardinality(M) <= Cardinality(L) /\ Cardinality(M) \in Nat
    BY <1>1, FS_Subset, FS_CardinalityType
  <1>4. IsFiniteSet(C) /\ Cardinality(C) <= Cardinality(B \ {w}) /\ Cardinality(C) \in Nat
    BY <1>2, FS_Subset, FS_CardinalityType
  <1>5. IsFiniteSet(Q) /\ Cardinality(Q) <= Cardinality(P \ {w}) /\ Cardinality(Q) \in Nat
    BY <1>2, FS_Subset, FS_CardinalityType
  <1>6. Slack(n) \in Nat BY Allowance
  <1> QED BY <1>1, <1>2, <1>3, <1>4, <1>5, <1>6 DEF PaceOf

\* A run that passes its verdict when no other has passed one that still counts.
LEMMA PacePasses ==
    ASSUME NEW L, NEW B, NEW P, NEW k \in Nat, NEW a \in Nat, NEW n \in Nat, NEW c \in Nat,
           PaceOf(L, B, P, k, a, n, c), a < ABANDONED_RENDER_LIMIT, P \subseteq B,
           NEW w, NEW Q, Q \subseteq P \cup {w}, B \subseteq Q
    PROVE PaceOf(L, B, Q, k, a, n, c)
  <1>1. P = B /\ IsFiniteSet(P) /\ Cardinality(P) \in Nat BY FS_CardinalityType DEF PaceOf
  <1>2. IsFiniteSet(Q) /\ Cardinality(Q) <= Cardinality(P) + 1 /\ Cardinality(Q) \in Nat
    BY <1>1, OneMore
  <1>3. Slack(n) \in Nat BY Allowance
  <1> QED BY <1>1, <1>2, <1>3 DEF PaceOf

\* T has at most w more than S.
Gains(T, S, w) == T \subseteq S \cup {w}

\* A lock that runs out under one more run pays for it.
LEMMA PaceStalls ==
    ASSUME NEW L, NEW B, NEW P, NEW k \in Nat, NEW a \in Nat, NEW n \in Nat, NEW c \in Nat,
           PaceOf(L, B, P, k, a, n, c), NEW w, NEW M, NEW C, NEW Q,
           Gains(M, L, w), Gains(C, B, w), Gains(Q, P, w), C \subseteq Q,
           NEW i, i = n + 1
    PROVE PaceOf(M, C, Q, k, a, i, c)
  <1>0. IsFiniteSet(L) /\ IsFiniteSet(P) /\ IsFiniteSet(B)
    BY FS_Subset DEF PaceOf
  <1>2. /\ IsFiniteSet(M) /\ Cardinality(M) <= Cardinality(L) + 1
        /\ Cardinality(M) \in Nat /\ Cardinality(L) \in Nat
    BY <1>0, OneMore DEF Gains
  <1>3. /\ IsFiniteSet(C) /\ Cardinality(C) <= Cardinality(B) + 1
        /\ Cardinality(C) \in Nat /\ Cardinality(B) \in Nat
    BY <1>0, OneMore DEF Gains
  <1>4. /\ IsFiniteSet(Q) /\ Cardinality(Q) <= Cardinality(P) + 1
        /\ Cardinality(Q) \in Nat /\ Cardinality(P) \in Nat
    BY <1>0, OneMore DEF Gains
  <1>5. /\ Slack(n) \in Nat /\ Slack(n + 1) \in Nat /\ Slack(n) + 1 <= Slack(n + 1)
    BY Allowance
  <1> QED BY <1>2, <1>3, <1>4, <1>5 DEF PaceOf

\* A finished render clears the account: the runs that go on, at most one of them
\* with the lock, are paid for by the locks that ran out.
LEMMA PaceFinishes ==
    ASSUME NEW R, NEW L, NEW n \in Nat, IsFiniteSet(L), Cardinality(L) <= n,
           IsFiniteSet(R), Cardinality(R) <= n + 1,
           NEW C, NEW Q, C \subseteq Q, Q \subseteq R, n = 0 => C = {}
    PROVE PaceOf(L, C, Q, 0, 0, n, ABANDONED_RENDER_LIMIT)
  <1>1. /\ IsFiniteSet(Q) /\ Cardinality(Q) <= Cardinality(R)
        /\ Cardinality(Q) \in Nat /\ Cardinality(R) \in Nat
    BY FS_Subset, FS_CardinalityType
  <1>2. IsFiniteSet(C) /\ Cardinality(C) <= Cardinality(Q) /\ Cardinality(C) \in Nat
    BY <1>1, FS_Subset, FS_CardinalityType
  <1>3. n = 0 => Cardinality(C) = 0 BY FS_EmptySet
  <1>4. Slack(n) \in Nat /\ n <= Slack(n) /\ (n # 0 => Slack(n) = n + 1)
    BY Allowance
  <1>5. Cardinality(C) <= Slack(n)
    BY <1>1, <1>2, <1>3, <1>4
  <1>6. Cardinality(Q) <= Slack(n) + ABANDONED_RENDER_LIMIT
    BY <1>1, <1>4
  <1> QED BY <1>1, <1>2, <1>4, <1>5, <1>6 DEF PaceOf

\* A hold leaves room for one more render; the runs beside it lost their lock.
LEMMA PaceHolds ==
    ASSUME NEW R, NEW L, NEW n \in Nat, IsFiniteSet(L), Cardinality(L) <= n,
           IsFiniteSet(R), Cardinality(R) <= n + 1, NEW w \in R,
           NEW C, NEW Q, C \subseteq Q, Q \subseteq R \ {w}
    PROVE PaceOf(L, C, Q, 0, ABANDONED_RENDER_LIMIT - 1, n, 1)
  <1>0. IsFiniteSet(R \ {w}) /\ Cardinality(R \ {w}) = Cardinality(R) - 1
    BY FS_RemoveElement
  <1>1. /\ IsFiniteSet(Q) /\ Cardinality(Q) <= Cardinality(R \ {w})
        /\ Cardinality(Q) \in Nat /\ Cardinality(R \ {w}) \in Nat /\ Cardinality(R) \in Nat
    BY <1>0, FS_Subset, FS_CardinalityType
  <1>2. IsFiniteSet(C) /\ Cardinality(C) <= Cardinality(Q) /\ Cardinality(C) \in Nat
    BY <1>1, FS_Subset, FS_CardinalityType
  <1>3. Slack(n) \in Nat /\ n <= Slack(n) BY Allowance
  <1>4. Cardinality(Q) <= n /\ Cardinality(C) <= n BY <1>0, <1>1, <1>2
  <1> QED BY <1>1, <1>2, <1>3, <1>4 DEF PaceOf

\* At most one run of a server still has its lock.
LEMMA OneKeeps ==
    ASSUME TypeOK, KeyInv, twice = {}, NEW s \in Server,
           NEW v \in Runs(s) \ LostRuns(s), NEW w \in Runs(s) \ LostRuns(s)
    PROVE v = w
  <1>1. /\ v \in Worker /\ Holds(v) /\ srv(v) = s /\ "lock" \notin lost[v]
        /\ w \in Worker /\ Holds(w) /\ srv(w) = s /\ "lock" \notin lost[w]
    BY DEF Runs, LostRuns
  <1>2. lock[s] = tok[v] /\ lock[s] = tok[w] BY <1>1 DEF KeyInv, LockKept
  <1> QED BY <1>1, <1>2, TokensApart

\* So a server has at most one run more than locks that ran out.
LEMMA RunsFew ==
    ASSUME TypeOK, KeyInv, twice = {}, NEW s \in Server, Pace(s)
    PROVE /\ IsFiniteSet(LostRuns(s)) /\ Cardinality(LostRuns(s)) <= stalled[s]
          /\ IsFiniteSet(Runs(s)) /\ Cardinality(Runs(s)) <= stalled[s] + 1
          /\ stalled[s] = 0 => LostRuns(s) = {}
  <1>1. /\ IsFiniteSet(LostRuns(s)) /\ Cardinality(LostRuns(s)) <= stalled[s]
        /\ Cardinality(LostRuns(s)) \in Nat /\ stalled[s] \in Nat
    BY FS_CardinalityType DEF Pace, PaceOf, TypeOK
  <1>2. PICK w : Runs(s) \subseteq LostRuns(s) \cup {w}
    <2>1. CASE Runs(s) \subseteq LostRuns(s) BY <2>1
    <2>2. CASE ~(Runs(s) \subseteq LostRuns(s))
      <3>1. PICK v : v \in Runs(s) \ LostRuns(s) BY <2>2
      <3> QED BY <3>1, OneKeeps
    <2> QED BY <2>1, <2>2
  <1>3. /\ IsFiniteSet(Runs(s)) /\ Cardinality(Runs(s)) <= Cardinality(LostRuns(s)) + 1
        /\ Cardinality(Runs(s)) \in Nat
    BY <1>1, <1>2, OneMore
  <1>4. stalled[s] = 0 => LostRuns(s) = {} BY <1>1, FS_EmptySet
  <1> QED BY <1>1, <1>3, <1>4

\* The sets of a server, a run at a time.
LEMMA Membership ==
    ASSUME NEW s, NEW v
    PROVE /\ v \in Runs(s) <=> v \in Worker /\ Holds(v) /\ srv(v) = s
          /\ v \in LostRuns(s) <=> v \in Runs(s) /\ "lock" \in lost[v]
          /\ v \in Busy(s) <=> /\ v \in Runs(s)
                               /\ \/ pc[v] \in Unfinished
                                  \/ "lock" \in lost[v] /\ pc[v] \in {"verdict", "clear"}
          /\ v \in Past(s) <=> v \in Busy(s) \/ (v \in Runs(s) /\ pc[v] = "clear")
  BY DEF Runs, LostRuns, Busy, Past

LEMMA MembershipNext ==
    ASSUME NEW s, NEW v
    PROVE /\ v \in Runs(s)' <=> v \in Worker /\ Holds(v)' /\ srv(v)' = s
          /\ v \in LostRuns(s)' <=> v \in Runs(s)' /\ "lock" \in lost'[v]
          /\ v \in Busy(s)' <=> /\ v \in Runs(s)'
                                /\ \/ pc'[v] \in Unfinished
                                   \/ "lock" \in lost'[v] /\ pc'[v] \in {"verdict", "clear"}
          /\ v \in Past(s)' <=> v \in Busy(s)' \/ (v \in Runs(s)' /\ pc'[v] = "clear")
  BY DEF Runs, LostRuns, Busy, Past

\* The account of a server and the parts it is made of.
LEMMA Parts ==
    ASSUME NEW s
    PROVE LostRuns(s) \subseteq Runs(s) /\ Busy(s) \subseteq Past(s) /\ Past(s) \subseteq Runs(s)
  BY DEF LostRuns, Busy, Past

LEMMA PartsNext ==
    ASSUME NEW s
    PROVE /\ LostRuns(s)' \subseteq Runs(s)' /\ Busy(s)' \subseteq Past(s)'
          /\ Past(s)' \subseteq Runs(s)'
  BY DEF LostRuns, Busy, Past

\* A run nothing happens to stays where it is in the account.
Untouched(v) == pc'[v] = pc[v] /\ cur'[v] = cur[v] /\ tok'[v] = tok[v] /\ lost'[v] = lost[v]

LEMMA UntouchedSame ==
    ASSUME NEW s, NEW v, Untouched(v)
    PROVE /\ v \in Runs(s)' <=> v \in Runs(s)
          /\ v \in LostRuns(s)' <=> v \in LostRuns(s)
          /\ v \in Busy(s)' <=> v \in Busy(s)
          /\ v \in Past(s)' <=> v \in Past(s)
  <1>1. Holds(v)' = Holds(v) /\ srv(v)' = srv(v) BY DEF Untouched, Holds, srv
  <1> QED BY <1>1, Membership, MembershipNext DEF Untouched

\* A step of one run, for a server whose counters it leaves alone: the account
\* holds if the run is nowhere it was not before.
LEMMA PaceQuiet ==
    ASSUME TypeOK, NEW s \in Server, Pace(s), NEW w,
           \A v \in Worker : v # w => Untouched(v),
           w \in LostRuns(s)' => w \in LostRuns(s),
           w \in Busy(s)' => w \in Busy(s),
           w \in Past(s)' => w \in Past(s),
           killed'[s] = killed[s], attempts'[s] = attempts[s], stalled'[s] = stalled[s],
           s \in heldOnce' <=> s \in heldOnce
    PROVE Pace(s)'
  <1>1. LostRuns(s)' \subseteq LostRuns(s)
    <2> SUFFICES ASSUME NEW v \in LostRuns(s)' PROVE v \in LostRuns(s) OBVIOUS
    <2>1. v \in Worker BY MembershipNext
    <2> QED BY <2>1, UntouchedSame
  <1>2. Busy(s)' \subseteq Busy(s)
    <2> SUFFICES ASSUME NEW v \in Busy(s)' PROVE v \in Busy(s) OBVIOUS
    <2>1. v \in Worker BY MembershipNext
    <2> QED BY <2>1, UntouchedSame
  <1>3. Past(s)' \subseteq Past(s)
    <2> SUFFICES ASSUME NEW v \in Past(s)' PROVE v \in Past(s) OBVIOUS
    <2>1. v \in Worker BY MembershipNext
    <2> QED BY <2>1, UntouchedSame
  <1>4. killed[s] \in Nat /\ attempts[s] \in Nat /\ stalled[s] \in Nat /\ Cap(s) \in Nat
    BY DEF TypeOK, Cap
  <1>5. PaceOf(LostRuns(s)', Busy(s)', Past(s)', killed[s], attempts[s], stalled[s], Cap(s))
    BY <1>1, <1>2, <1>3, <1>4, PaceShrinks, PartsNext DEF Pace
  <1>6. Cap(s)' = Cap(s) BY DEF Cap
  <1> QED BY <1>5, <1>6 DEF Pace

\* Steps that take no lock and hand on only what a run carries.
LEMMA OwnQuiet ==
    ASSUME Own,
           \A s \in Server : lock'[s] = lock[s] \/ lock'[s] = None,
           \A v \in Worker : pc'[v] # "idle" => /\ pc[v] # "idle" /\ cur'[v] = cur[v]
                                                 /\ tok'[v] = tok[v],
           \A m \in queue' : \/ m \in queue \/ m.token = None
                             \/ \E v \in Worker : Carries(v, m.token) /\ m.server = srv(v)
    PROVE Own'
  <1>0. \A v \in Worker : \A t : Carries(v, t)' => Carries(v, t) /\ srv(v)' = srv(v)
    BY DEF Carries, Running, srv
  <1>1. ASSUME NEW s \in Server, NEW v \in Worker, NEW x, x = lock'[s], Carries(v, x)'
        PROVE srv(v)' = s
    <2>1. lock'[s] = lock[s] BY <1>1 DEF Carries
    <2> QED BY <1>0, <1>1, <2>1 DEF Own
  <1>2. ASSUME NEW s \in Server, NEW m \in queue', lock'[s] # None, m.token = lock'[s]
        PROVE m.server = s
    BY <1>2 DEF Own
  <1>3. \A s \in Server : \A v \in Worker : Carries(v, lock[s])' => srv(v)' = s
    BY <1>1 DEF Carries
  <1> QED BY <1>2, <1>3 DEF Own

\* Steps that take m's lock for the token t: nobody else carries it.
LEMMA OwnTakes ==
    ASSUME TypeOK, KeyInv, Own, twice = {}, NEW m \in queue, NEW t,
           t = m.token \/ (t = RunToken(m) /\ (m.token = None => Token \ UsedTokens # {})),
           \A s \in Server : lock'[s] = lock[s] \/ (s = m.server /\ lock'[s] = t),
           \A v \in Worker : \A x : Carries(v, x)' => \/ Carries(v, x) /\ srv(v)' = srv(v)
                                                      \/ srv(v)' = m.server /\ x \in {m.token, t},
           \A r \in queue' : \/ r \in queue /\ r # m
                             \/ r.token = None
                             \/ r.server = m.server /\ r.token \in {m.token, t}
    PROVE Own'
  <1>0. ASSUME NEW x \in {m.token, t}, x # None
        PROVE /\ \A v \in Worker : ~Carries(v, x)
              /\ \A r \in queue : r # m => r.token # x
              /\ \A s \in Server : lock[s] = x => s = m.server
    <2>1. CASE x = m.token
      BY <1>0, <2>1 DEF KeyInv, Unique, Own
    <2>2. CASE x # m.token
      <3>1. x = RunToken(m) /\ (m.token = None => Token \ UsedTokens # {}) BY <1>0, <2>2
      <3>2. m.token = None /\ x \notin UsedTokens
        BY <2>2, <3>1, FreshIsFresh DEF RunToken
      <3> QED BY <3>2 DEF UsedTokens, Carries
    <2> QED BY <2>1, <2>2
  <1>1. ASSUME NEW s \in Server, NEW v \in Worker, NEW x, x = lock'[s], Carries(v, x)'
        PROVE srv(v)' = s
    <2>0. lock'[s] # None BY <1>1 DEF Carries
    <2>1. CASE Carries(v, x) /\ srv(v)' = srv(v)
      <3>1. x = lock[s] BY <1>0, <1>1, <2>0, <2>1
      <3> QED BY <2>1, <3>1 DEF Own
    <2>2. CASE srv(v)' = m.server /\ x \in {m.token, t}
      BY <1>0, <1>1, <2>0, <2>2
    <2> QED BY <1>1, <2>1, <2>2
  <1>2. ASSUME NEW s \in Server, NEW r \in queue', lock'[s] # None, r.token = lock'[s]
        PROVE r.server = s
    <2>1. CASE r \in queue /\ r # m
      <3>1. lock'[s] = lock[s] BY <1>0, <1>2, <2>1
      <3> QED BY <1>2, <2>1, <3>1 DEF Own
    <2>2. CASE r.server = m.server /\ r.token \in {m.token, t}
      BY <1>0, <1>2, <2>2
    <2> QED BY <1>2, <2>1, <2>2
  <1>3. \A s \in Server : \A v \in Worker : Carries(v, lock[s])' => srv(v)' = s
    BY <1>1 DEF Carries
  <1> QED BY <1>2, <1>3 DEF Own

LEMMA OwnReceive ==
    ASSUME TypeOK, KeyInv, Own, twice = {}, NEW w \in Worker, NEW m \in queue,
           Receive(w, m) \/ KillDeferral(w, m) \/ RunWithoutRedis(w, m)
    PROVE Own'
  <1>m. /\ m \in Message /\ Counted(m).server = m.server /\ Counted(m).token = m.token
        /\ m.server \in Server
    BY MessageType DEF TypeOK
  <1>d. ASSUME Deliver(w, m), NEW t, \A v \in Worker : v # w => pc'[v] = pc[v] /\ tok'[v] = tok[v],
               tok'[w] \in {t, None}
        PROVE /\ \A v \in Worker : \A x :
                   Carries(v, x)' => \/ Carries(v, x) /\ srv(v)' = srv(v)
                                     \/ srv(v)' = m.server /\ x \in {m.token, t}
              /\ \A r \in queue' : r \in queue /\ r # m
    <2>1. cur'[w] = Counted(m) /\ \A v \in Worker : v # w => cur'[v] = cur[v]
      BY <1>d DEF Deliver, TypeOK
    <2> QED BY <1>d, <1>m, <2>1 DEF Deliver, Carries, Running, srv
  <1>f. ASSUME Deferral(m), NEW r, queue' = (queue \ {m}) \cup {r}, r.server = m.server,
               r.token = RunToken(m) \/ r.token = m.token
        PROVE Own'
    <2>1. /\ lock' = [lock EXCEPT ![m.server] = RunToken(m)] /\ UNCHANGED <<pc, cur, tok>>
          /\ m.token = None => Token \ UsedTokens # {}
      BY <1>f DEF Deferral, run
    <2>2. \A v \in Worker : \A x : Carries(v, x)' = Carries(v, x) /\ srv(v)' = srv(v)
      BY <2>1 DEF Carries, Running, srv
    <2>3. \A s \in Server : lock'[s] = lock[s] \/ (s = m.server /\ lock'[s] = RunToken(m))
      BY <2>1 DEF TypeOK
    <2> QED BY <1>f, <2>1, <2>2, <2>3, OwnTakes
  <1>1. CASE TooManyDeliveries(w, m)
    BY <1>1, OwnQuiet DEF TooManyDeliveries, redis, run
  <1>2. CASE AcquireHeld(w, m)
    <2>1. /\ Deliver(w, m) /\ lock' = [lock EXCEPT ![m.server] = RunToken(m)]
          /\ \A v \in Worker : v # w => pc'[v] = pc[v] /\ tok'[v] = tok[v]
          /\ tok'[w] = RunToken(m) /\ (m.token = None => Token \ UsedTokens # {})
      BY <1>2 DEF AcquireHeld, Receives, Goto, TypeOK
    <2>2. \A s \in Server : lock'[s] = lock[s] \/ (s = m.server /\ lock'[s] = RunToken(m))
      BY <2>1 DEF TypeOK
    <2>3. /\ \A v \in Worker : \A x :
                   Carries(v, x)' => \/ Carries(v, x) /\ srv(v)' = srv(v)
                                     \/ srv(v)' = m.server /\ x \in {m.token, RunToken(m)}
          /\ \A r \in queue' : r \in queue /\ r # m
      BY <1>d, <2>1
    <2> QED BY <2>1, <2>2, <2>3, OwnTakes
  <1>3. CASE AcquireCoalesced(w, m) \/ RunWithoutRedis(w, m)
    <2>1. /\ Deliver(w, m) /\ UNCHANGED <<lock, tok>> /\ tok[w] = None
          /\ \A v \in Worker : v # w => pc'[v] = pc[v] /\ tok'[v] = tok[v]
      BY <1>3 DEF AcquireCoalesced, RunWithoutRedis, Deliver, Goto, TypeOK, redis, KeyInv, Shape, Running
    <2>2. /\ \A v \in Worker : \A x :
                   Carries(v, x)' => \/ Carries(v, x) /\ srv(v)' = srv(v)
                                     \/ srv(v)' = m.server /\ x \in {m.token, m.token}
          /\ \A r \in queue' : r \in queue /\ r # m
      BY <1>d, <2>1
    <2> QED BY <2>1, <2>2, OwnTakes
  <1>4. CASE AcquireDeferred(w, m)
    <2>1. /\ Retry(m.server, RunToken(m), m.sized).token = RunToken(m)
          /\ Retry(m.server, RunToken(m), m.sized).server = m.server
      BY DEF Retry
    <2> QED BY <1>4, <1>f, <2>1 DEF AcquireDeferred
  <1>5. CASE KillDeferral(w, m)
    BY <1>5, <1>f, <1>m DEF KillDeferral
  <1> QED BY <1>1, <1>2, <1>3, <1>4, <1>5 DEF Receive, Acquire

\* A token delivered twice stays one.
LEMMA TwiceGrows == [Next]_vars => twice \subseteq twice'
  <1>1. (\E s \in Server : Change(s)) \/ Sweep => twice' = twice
    BY DEF Change, Sweep, ghosts
  <1>2. ASSUME NEW w \in Worker, NEW m \in queue, Receive(w, m) PROVE twice' = twice
    BY <1>2 DEF Receive, Acquire, AcquireHeld, AcquireDeferred, AcquireCoalesced,
                TooManyDeliveries, Deferral, ghosts
  <1>3. ASSUME NEW w \in Worker, Step(w) PROVE twice' = twice
    BY <1>3 DEF Step, SetDirty, Verdict, RecordAbandoned, StartRender, ReadServer,
                StoreBundle, AfterRender, Release, PublishRetry, ghosts
  <1>4. Lapse \/ WaitingLapses => twice' = twice
    BY DEF Lapse, LockLapses, HoldLapses, BackoffLapses, SlotLapses, WaitingLapses, ghosts
  <1>5. AnyFault => twice \subseteq twice'
    BY DEF AnyFault, Kill, Abort, FlagFails, FailRender, Redeliver, StallLock, StallSlot, Lose,
           KillDeferral, Deferral, RunWithoutRedis, ghosts
  <1>6. UNCHANGED vars => twice' = twice BY DEF vars, ghosts
  <1> QED BY <1>1, <1>2, <1>3, <1>4, <1>5, <1>6 DEF Next

\* A step that moves one run on, and a run that ends.
LEMMA OwnMoves ==
    ASSUME TypeOK, Own, NEW w \in Worker, pc[w] # "idle", NEW l, Goto(w, l),
           UNCHANGED <<lock, cur, tok, queue>>
    PROVE Own'
  <1>1. \A v \in Worker : pc'[v] # "idle" => pc[v] # "idle" BY DEF Goto, TypeOK
  <1> QED BY <1>1, OwnQuiet

LEMMA OwnEnds ==
    ASSUME TypeOK, Own, NEW w \in Worker, pc[w] # "idle", Ends(w),
           \A s \in Server : lock'[s] = lock[s] \/ lock'[s] = None,
           \A m \in queue' : \/ m \in queue \/ m.token = None
                             \/ Carries(w, m.token) /\ m.server = srv(w)
    PROVE Own'
  <1>1. \A v \in Worker : pc'[v] # "idle" => /\ pc[v] # "idle" /\ cur'[v] = cur[v]
                                             /\ tok'[v] = tok[v]
    BY DEF Ends, Goto, TypeOK
  <1> QED BY <1>1, OwnQuiet

LEMMA OwnStep ==
    ASSUME TypeOK, KeyInv, Own, NEW w \in Worker, Step(w)
    PROVE Own'
  <1>1. CASE SetDirty(w) BY <1>1, OwnEnds DEF SetDirty
  <1>2. CASE Verdict(w)
    <2>1. \E l : Goto(w, l) BY <1>2 DEF Verdict
    <2> QED BY <1>2, <2>1, OwnMoves DEF Verdict
  <1>3. CASE RecordAbandoned(w) BY <1>3, OwnMoves DEF RecordAbandoned, redis
  <1>4. CASE StartRender(w) BY <1>4, OwnMoves DEF StartRender
  <1>5. CASE ReadServer(w)
    <2>1. \E l : Goto(w, l) BY <1>5 DEF ReadServer
    <2> QED BY <1>5, <2>1, OwnMoves DEF ReadServer
  <1>6. CASE StoreBundle(w) BY <1>6, OwnMoves DEF StoreBundle, redis
  <1>7. CASE AfterRender(w)
    <2>1. pc[w] # "idle" /\ \E l : Goto(w, l) BY <1>7 DEF AfterRender
    <2> QED BY <1>7, <2>1, OwnMoves DEF AfterRender
  <1>8. CASE Release(w)
    <2>1. \A s \in Server : lock'[s] = lock[s] \/ lock'[s] = None
      BY <1>8 DEF Release, Released, TypeOK
    <2>2. CASE out[w] = "done" BY <1>8, <2>1, <2>2, OwnEnds DEF Release
    <2>3. CASE out[w] # "done" BY <1>8, <2>3, OwnMoves DEF Release
    <2> QED BY <2>2, <2>3
  <1>9. CASE PublishRetry(w)
    <2> DEFINE r == Retry(srv(w), tok[w], cur[w].sized \/ out[w] = "resize")
    <2>1. r.token = tok[w] /\ r.server = srv(w) BY DEF Retry
    <2>2. queue' = queue \cup {r} /\ pc[w] # "idle" /\ Ends(w) /\ lock' = lock
      BY <1>9 DEF PublishRetry, redis
    <2>3. r.token = None \/ Carries(w, r.token) BY <2>1, <2>2 DEF Carries, Running
    <2> HIDE DEF r
    <2> QED BY <2>1, <2>2, <2>3, OwnEnds
  <1> QED BY <1>1, <1>2, <1>3, <1>4, <1>5, <1>6, <1>7, <1>8, <1>9 DEF Step

LEMMA OwnFault ==
    ASSUME TypeOK, KeyInv, Own, twice = {}, AnyFault
    PROVE Own'
  <1>1. ASSUME NEW w \in Worker, Kill(w) \/ Redeliver(w) PROVE Own'
    <2>1. pc[w] # "idle" BY <1>1 DEF Kill, Redeliver, Running
    <2>2. cur[w].token = None \/ Carries(w, cur[w].token) BY <2>1 DEF Carries, Running
    <2>3. CASE Kill(w) BY <2>1, <2>2, <2>3, OwnEnds DEF Kill, redis, srv
    <2>4. CASE Redeliver(w)
      <3>1. queue' = queue \cup {cur[w]} /\ UNCHANGED <<lock, pc, cur, tok>>
        BY <2>4 DEF Redeliver, redis, run
      <3> QED BY <2>2, <3>1, OwnQuiet DEF srv
    <2> QED BY <1>1, <2>3, <2>4
  <1>2. ASSUME NEW w \in Worker, Abort(w) PROVE Own'
    <2>1. pc[w] # "idle" BY <1>2 DEF Abort
    <2> QED BY <1>2, <2>1, OwnEnds DEF Abort, redis
  <1>3. ASSUME NEW w \in Worker, FailRender(w) PROVE Own'
    <2>1. pc[w] # "idle" BY <1>3 DEF FailRender
    <2> QED BY <1>3, <2>1, OwnMoves DEF FailRender
  <1>4. ASSUME NEW s \in Server, StallLock(s) PROVE Own'
    <2>1. \A x \in Server : lock'[x] = lock[x] \/ lock'[x] = None BY <1>4 DEF StallLock, TypeOK
    <2> QED BY <1>4, <2>1, OwnQuiet DEF StallLock, run
  <1>5. ASSUME NEW k \in Slot, StallSlot(k) PROVE Own'
    BY <1>5, OwnQuiet DEF StallSlot, run
  <1>6. ASSUME NEW m \in queue, Lose(m) PROVE Own'
    BY <1>6, OwnQuiet DEF Lose, redis, run
  <1>7. ASSUME NEW w \in Worker, FlagFails(w) PROVE Own'
    BY <1>7, OwnMoves DEF FlagFails, redis
  <1> QED BY <1>1, <1>2, <1>3, <1>4, <1>5, <1>6, <1>7, OwnReceive DEF AnyFault

\* The token in a lock is its server's, for as long as no retry is delivered twice.
THEOREM LockTokensOwned == Spec => []OwnInv
  <1>1. Init => OwnInv BY DEF Init, OwnInv, Own, Carries, Running
  <1>2. TypeOK /\ KeyInv /\ OwnInv /\ [Next]_vars => OwnInv'
    <2> SUFFICES ASSUME TypeOK, KeyInv, OwnInv, [Next]_vars, twice' = {} PROVE Own'
      BY DEF OwnInv
    <2>0. twice = {} /\ Own BY TwiceGrows DEF OwnInv
    <2>1. ASSUME NEW s \in Server, Change(s) PROVE Own'
      <3>1. Plain(s, FALSE).token = None BY DEF Plain
      <3> QED BY <2>0, <2>1, <3>1, OwnQuiet DEF Change, redis
    <2>2. CASE Sweep
      <3>1. \A s : Plain(s, s \in Known).token = None BY DEF Plain
      <3> QED BY <2>0, <2>2, <3>1, OwnQuiet DEF Sweep, redis, run
    <2>3. CASE Lapse \/ WaitingLapses
      <3>1. /\ \A s \in Server : lock'[s] = lock[s] \/ lock'[s] = None
            /\ UNCHANGED <<pc, cur, tok, queue>>
        BY <2>3 DEF Lapse, LockLapses, HoldLapses, BackoffLapses, SlotLapses, WaitingLapses,
                    redis, run, TypeOK
      <3> QED BY <2>0, <3>1, OwnQuiet
    <2>4. CASE UNCHANGED vars
      BY <2>0, <2>4, OwnQuiet DEF vars, redis, run
    <2> QED BY <2>0, <2>1, <2>2, <2>3, <2>4, OwnReceive, OwnStep, OwnFault DEF Next
  <1> QED BY <1>1, <1>2, TypeCorrect, KeysInvariant, PTL DEF Spec

LEMMA PaceSame ==
    ASSUME TypeOK, NEW s \in Server, Pace(s),
           UNCHANGED <<pc, cur, tok, lost, killed, attempts, stalled, heldOnce>>
    PROVE Pace(s)'
  <1>1. \A v \in Worker : Untouched(v) BY DEF Untouched
  <1>2. PICK w : w \notin Worker BY NoSetContainsEverything
  <1>3. w \notin LostRuns(s)' /\ w \notin Busy(s)' /\ w \notin Past(s)' BY <1>2, MembershipNext
  <1> QED BY <1>1, <1>3, PaceQuiet

\* A run that no longer holds anything, or never did, leaves the account alone.
LEMMA PaceGone ==
    ASSUME TypeOK, NEW s \in Server, Pace(s), NEW w \in Worker, ~Holds(w)',
           \A v \in Worker : v # w => Untouched(v),
           killed'[s] = killed[s], attempts'[s] = attempts[s], stalled'[s] = stalled[s],
           s \in heldOnce' <=> s \in heldOnce
    PROVE Pace(s)'
  <1>1. w \notin LostRuns(s)' /\ w \notin Busy(s)' /\ w \notin Past(s)' BY MembershipNext
  <1> QED BY <1>1, PaceQuiet

\* Neither does a step of another server's run.
LEMMA PaceOther ==
    ASSUME TypeOK, NEW s \in Server, Pace(s), NEW w \in Worker, srv(w)' # s,
           \A v \in Worker : v # w => Untouched(v),
           killed'[s] = killed[s], attempts'[s] = attempts[s], stalled'[s] = stalled[s],
           s \in heldOnce' <=> s \in heldOnce
    PROVE Pace(s)'
  <1>1. w \notin LostRuns(s)' /\ w \notin Busy(s)' /\ w \notin Past(s)' BY MembershipNext
  <1> QED BY <1>1, PaceQuiet

LEMMA GotoUntouched ==
    ASSUME TypeOK, NEW w \in Worker, NEW l, Goto(w, l), UNCHANGED <<cur, tok, lost>>
    PROVE /\ pc'[w] = l /\ srv(w)' = srv(w) /\ tok'[w] = tok[w] /\ lost'[w] = lost[w]
          /\ \A v \in Worker : v # w => Untouched(v)
  BY DEF Goto, TypeOK, Untouched, srv

LEMMA EndsUntouched ==
    ASSUME TypeOK, NEW w \in Worker, Ends(w)
    PROVE ~Holds(w)' /\ \A v \in Worker : v # w => Untouched(v)
  BY DEF Ends, Goto, TypeOK, Untouched, Holds, Keyed

\* A run that moves on with its keys stays among its server's runs.
LEMMA RunsStay ==
    ASSUME TypeOK, NEW s \in Server, NEW w \in Worker, pc[w] \in Keyed, pc'[w] \in Keyed,
           srv(w)' = srv(w), tok'[w] = tok[w], lost'[w] = lost[w],
           \A v \in Worker : v # w => Untouched(v)
    PROVE Runs(s)' = Runs(s) /\ LostRuns(s)' = LostRuns(s)
  <1>1. Holds(w)' = Holds(w) BY DEF Holds
  <1>2. /\ w \in Runs(s)' <=> w \in Runs(s)
        /\ w \in LostRuns(s)' <=> w \in LostRuns(s)
    BY <1>1, Membership, MembershipNext
  <1>3. ASSUME NEW v PROVE /\ v \in Runs(s)' <=> v \in Runs(s)
                           /\ v \in LostRuns(s)' <=> v \in LostRuns(s)
    <2>1. CASE v \notin Worker BY <2>1, Membership, MembershipNext
    <2>2. CASE v \in Worker /\ v # w BY <2>2, UntouchedSame
    <2> QED BY <1>2, <2>1, <2>2
  <1> QED BY <1>3

\* The render that finished clears the account of its server.
LEMMA PaceFinished ==
    ASSUME TypeOK, KeyInv, twice = {}, NEW s \in Server, Pace(s), NEW w \in Worker,
           pc[w] \in Unfinished, Finished(w), NEW l \in {"release", "clear"}, Goto(w, l),
           UNCHANGED <<cur, tok, lost, stalled>>
    PROVE Pace(s)'
  <1>0. /\ pc'[w] = l /\ srv(w)' = srv(w) /\ tok'[w] = tok[w] /\ lost'[w] = lost[w]
        /\ \A v \in Worker : v # w => Untouched(v)
    BY GotoUntouched
  <1>1. CASE tok[w] = None
    <2>1. ~Holds(w)' BY <1>0, <1>1 DEF Holds
    <2> QED BY <1>0, <1>1, <2>1, PaceGone DEF Finished
  <1>2. CASE srv(w) # s
    <2>1. killed'[s] = killed[s] /\ attempts'[s] = attempts[s] /\ (s \in heldOnce' <=> s \in heldOnce)
      BY <1>2 DEF Finished, TypeOK
    <2> QED BY <1>0, <1>2, <2>1, PaceOther
  <1>3. CASE tok[w] # None /\ srv(w) = s
    <2>1. killed'[s] = 0 /\ attempts'[s] = 0 /\ s \notin heldOnce'
      BY <1>3 DEF Finished, TypeOK
    <2>2. Runs(s)' = Runs(s) /\ LostRuns(s)' = LostRuns(s)
      BY <1>0, RunsStay DEF Unfinished, Keyed
    <2>3. /\ IsFiniteSet(LostRuns(s)) /\ Cardinality(LostRuns(s)) <= stalled[s]
          /\ IsFiniteSet(Runs(s)) /\ Cardinality(Runs(s)) <= stalled[s] + 1
          /\ stalled[s] = 0 => LostRuns(s) = {}
      BY RunsFew
    <2>4. stalled[s] = 0 => Busy(s)' = {}
      <3> SUFFICES ASSUME stalled[s] = 0, NEW v \in Busy(s)' PROVE FALSE OBVIOUS
      <3>1. w \in Runs(s) \ LostRuns(s)
        BY <1>3, <2>3, Membership DEF Holds, Unfinished, Keyed
      <3>2. v \in Runs(s) \ LostRuns(s) BY <2>2, <2>3, MembershipNext
      <3>3. v = w BY <3>1, <3>2, OneKeeps
      <3>4. "lock" \notin lost'[w] BY <1>0, <3>1, Membership
      <3> QED BY <1>0, <3>3, <3>4, MembershipNext DEF Unfinished
    <2>5. stalled[s] \in Nat /\ stalled'[s] = stalled[s] BY DEF TypeOK
    <2>6. Busy(s)' \subseteq Past(s)' /\ Past(s)' \subseteq Runs(s) BY <2>2, PartsNext
    <2>7. PaceOf(LostRuns(s)', Busy(s)', Past(s)', 0, 0, stalled[s], ABANDONED_RENDER_LIMIT)
      BY <2>2, <2>3, <2>4, <2>5, <2>6, PaceFinishes
    <2>8. Cap(s)' = ABANDONED_RENDER_LIMIT BY <2>1 DEF Cap
    <2> QED BY <2>1, <2>5, <2>7, <2>8 DEF Pace
  <1> QED BY <1>1, <1>2, <1>3

\* A run that moves on without a verdict and without starting a render.
LEMMA PaceMoves ==
    ASSUME TypeOK, NEW s \in Server, Pace(s), NEW w \in Worker, NEW l, Goto(w, l),
           pc[w] \in Keyed,
           l = "release" \/ l = "abandon" \/ (l \in Unfinished /\ pc[w] \in Unfinished),
           UNCHANGED <<cur, tok, lost, killed, attempts, stalled, heldOnce>>
    PROVE Pace(s)'
  <1>0. /\ pc'[w] = l /\ srv(w)' = srv(w) /\ tok'[w] = tok[w] /\ lost'[w] = lost[w]
        /\ \A v \in Worker : v # w => Untouched(v)
    BY GotoUntouched
  <1>1. Runs(s)' = Runs(s) /\ LostRuns(s)' = LostRuns(s)
    BY <1>0, RunsStay DEF Unfinished, Keyed
  <1>2. w \in Busy(s)' => w \in Busy(s)
    BY <1>0, <1>1, Membership, MembershipNext DEF Unfinished
  <1>3. w \in Past(s)' => w \in Past(s)
    BY <1>0, <1>1, <1>2, Membership, MembershipNext DEF Unfinished
  <1> QED BY <1>0, <1>1, <1>2, <1>3, PaceQuiet

\* Only a run that took its keys asks for the verdict.
VerdictKeyed == \A w \in Worker : pc[w] = "verdict" => tok[w] # None

LEMMA VerdictKeyedKept ==
    ASSUME TypeOK, KeyInv, VerdictKeyed, [Next]_vars
    PROVE VerdictKeyed'
  <1>q. ASSUME \A v \in Worker : pc'[v] = "verdict" => pc[v] = "verdict" /\ tok'[v] = tok[v]
        PROVE VerdictKeyed'
    BY <1>q DEF VerdictKeyed
  <1>e. ASSUME NEW w \in Worker, Ends(w) PROVE VerdictKeyed'
    BY <1>e, <1>q DEF Ends, Goto, TypeOK
  <1>g. ASSUME NEW w \in Worker, NEW l, l # "verdict", Goto(w, l), UNCHANGED tok PROVE VerdictKeyed'
    BY <1>g, <1>q DEF Goto, TypeOK
  <1>1. (\E s \in Server : Change(s)) \/ Sweep => VerdictKeyed'
    BY <1>q DEF Change, Sweep, run
  <1>2. ASSUME NEW w \in Worker, NEW m \in queue, Receive(w, m) PROVE VerdictKeyed'
    <2>1. CASE AcquireHeld(w, m)
      <3>1. RunToken(m) # None BY <2>1, RunTokenAlone DEF AcquireHeld, Receives
      <3> QED BY <2>1, <3>1 DEF AcquireHeld, Goto, TypeOK, VerdictKeyed
    <2>2. CASE AcquireDeferred(w, m) BY <2>2, <1>q DEF AcquireDeferred, Deferral, run
    <2>3. CASE AcquireCoalesced(w, m) BY <2>3, <1>g DEF AcquireCoalesced
    <2>4. CASE TooManyDeliveries(w, m) BY <2>4, <1>q DEF TooManyDeliveries, run
    <2> QED BY <1>2, <2>1, <2>2, <2>3, <2>4 DEF Receive, Acquire
  <1>3. ASSUME NEW w \in Worker, Step(w) PROVE VerdictKeyed'
    <2>1. CASE SetDirty(w) BY <2>1, <1>e DEF SetDirty
    <2>2. CASE Verdict(w) BY <2>2, <1>g DEF Verdict
    <2>3. CASE RecordAbandoned(w) BY <2>3, <1>g DEF RecordAbandoned
    <2>4. CASE StartRender(w) BY <2>4, <1>g DEF StartRender
    <2>5. CASE ReadServer(w) BY <2>5, <1>g DEF ReadServer
    <2>6. CASE StoreBundle(w) BY <2>6, <1>g DEF StoreBundle
    <2>7. CASE AfterRender(w) BY <2>7, <1>g DEF AfterRender
    <2>8. CASE Release(w) BY <2>8, <1>e, <1>g DEF Release
    <2>9. CASE PublishRetry(w) BY <2>9, <1>e DEF PublishRetry
    <2> QED BY <1>3, <2>1, <2>2, <2>3, <2>4, <2>5, <2>6, <2>7, <2>8, <2>9 DEF Step
  <1>4. Lapse \/ WaitingLapses => VerdictKeyed'
    BY <1>q DEF Lapse, LockLapses, HoldLapses, BackoffLapses, SlotLapses, WaitingLapses, run
  <1>5. ASSUME AnyFault PROVE VerdictKeyed'
    <2>1. ASSUME NEW w \in Worker, Kill(w) \/ Abort(w) PROVE VerdictKeyed'
      BY <2>1, <1>e DEF Kill, Abort
    <2>2. ASSUME NEW w \in Worker, FailRender(w) PROVE VerdictKeyed'
      BY <2>2, <1>g DEF FailRender
    <2>3. ASSUME NEW w \in Worker, Redeliver(w) PROVE VerdictKeyed'
      BY <2>3, <1>q DEF Redeliver, run
    <2>4. ASSUME NEW s \in Server, StallLock(s) PROVE VerdictKeyed'
      BY <2>4, <1>q DEF StallLock, run
    <2>5. ASSUME NEW k \in Slot, StallSlot(k) PROVE VerdictKeyed'
      BY <2>5, <1>q DEF StallSlot, run
    <2>6. ASSUME NEW m \in queue, Lose(m) PROVE VerdictKeyed'
      BY <2>6, <1>q DEF Lose, run
    <2>7. ASSUME NEW w \in Worker, NEW m \in queue, KillDeferral(w, m) PROVE VerdictKeyed'
      BY <2>7, <1>q DEF KillDeferral, Deferral, run
    <2>8. ASSUME NEW w \in Worker, NEW m \in queue, RunWithoutRedis(w, m) PROVE VerdictKeyed'
      BY <2>8, <1>g DEF RunWithoutRedis
    <2>9. ASSUME NEW w \in Worker, FlagFails(w) PROVE VerdictKeyed'
      BY <2>9, <1>g DEF FlagFails
    <2> QED BY <1>5, <2>1, <2>2, <2>3, <2>4, <2>5, <2>6, <2>7, <2>8, <2>9 DEF AnyFault
  <1>6. UNCHANGED vars => VerdictKeyed' BY <1>q DEF vars, run
  <1> QED BY <1>1, <1>2, <1>3, <1>4, <1>5, <1>6 DEF Next

\* The verdict: the run that passes it is the only one that has its lock, so
\* every other render at risk is one the counter or a lost lock pays for.
LEMMA PaceVerdict ==
    ASSUME TypeOK, KeyInv, VerdictKeyed, twice = {}, NEW s \in Server, Pace(s),
           NEW w \in Worker, Verdict(w)
    PROVE Pace(s)'
  <1>0. /\ pc[w] = "verdict" /\ UNCHANGED <<cur, tok, lost, stalled>> /\ pc[w] \in Keyed
        /\ stalled[s] \in Nat /\ killed[s] \in Nat /\ attempts[s] \in Nat /\ Cap(s) \in Nat
    BY DEF Verdict, Keyed, TypeOK, Cap
  <1>1. CASE /\ srv(w) \in hold /\ Goto(w, "release")
             /\ UNCHANGED <<attempts, hold, killed, heldOnce>>
    BY <1>0, <1>1, PaceMoves
  <1>2. CASE /\ attempts[srv(w)] < ABANDONED_RENDER_LIMIT /\ Goto(w, "clear")
             /\ UNCHANGED <<attempts, hold, killed, heldOnce>>
    <2>0. /\ pc'[w] = "clear" /\ srv(w)' = srv(w) /\ tok'[w] = tok[w] /\ lost'[w] = lost[w]
          /\ \A v \in Worker : v # w => Untouched(v)
      BY <1>0, <1>2, GotoUntouched
    <2>1. Runs(s)' = Runs(s) /\ LostRuns(s)' = LostRuns(s)
      BY <1>0, <2>0, RunsStay DEF Keyed
    <2>2. CASE w \notin Runs(s)
      <3>1. w \notin LostRuns(s)' /\ w \notin Busy(s)' /\ w \notin Past(s)'
        BY <2>1, <2>2, MembershipNext
      <3> QED BY <1>0, <1>2, <2>0, <3>1, PaceQuiet
    <2>3. CASE w \in LostRuns(s)
      <3>1. w \in Busy(s) /\ w \in Past(s) BY <1>0, <2>3, Membership
      <3> QED BY <1>0, <1>2, <2>0, <2>3, <3>1, PaceQuiet
    <2>4. CASE w \in Runs(s) \ LostRuns(s)
      <3>1. srv(w) = s BY <2>4, Membership
      <3>2. Past(s) \subseteq Busy(s)
        <4> SUFFICES ASSUME NEW v \in Past(s), v \notin Busy(s) PROVE FALSE OBVIOUS
        <4>1. v \in Runs(s) /\ pc[v] = "clear" BY Membership
        <4>2. v \notin LostRuns(s) BY <4>1, Membership
        <4>3. v = w BY <2>4, <4>1, <4>2, OneKeeps
        <4> QED BY <1>0, <4>1, <4>3
      <3>3. w \notin Busy(s) /\ w \notin Busy(s)'
        <4>1. "lock" \notin lost[w] BY <2>4, Membership
        <4> QED BY <1>0, <2>0, <4>1, Membership, MembershipNext DEF Unfinished
      <3>4. ASSUME NEW v PROVE /\ v \in Busy(s)' <=> v \in Busy(s)
                               /\ v \in Past(s)' => v \in Past(s) \cup {w}
        <4>1. CASE v \notin Worker BY <4>1, Membership, MembershipNext
        <4>2. CASE v \in Worker /\ v # w BY <2>0, <4>2, UntouchedSame
        <4> QED BY <3>3, <4>1, <4>2
      <3>5. Busy(s)' = Busy(s) /\ Past(s)' \subseteq Past(s) \cup {w} BY <3>4
      <3>6. Busy(s) \subseteq Past(s)' BY <3>5, PartsNext
      <3>7. PaceOf(LostRuns(s), Busy(s), Past(s)', killed[s], attempts[s], stalled[s], Cap(s))
        <4>1. PaceOf(LostRuns(s), Busy(s), Past(s), killed[s], attempts[s], stalled[s], Cap(s))
          BY DEF Pace
        <4>2. attempts[s] < ABANDONED_RENDER_LIMIT BY <1>2, <3>1
        <4> QED BY <1>0, <3>2, <3>5, <3>6, <4>1, <4>2, PacePasses
      <3>8. Cap(s)' = Cap(s) BY <1>2 DEF Cap
      <3> QED BY <1>0, <1>2, <2>1, <3>5, <3>7, <3>8 DEF Pace
    <2> QED BY <2>2, <2>3, <2>4
  <1>3. CASE /\ attempts' = [attempts EXCEPT ![srv(w)] = ABANDONED_RENDER_LIMIT - 1]
             /\ killed' = [killed EXCEPT ![srv(w)] = 0]
             /\ heldOnce' = heldOnce \cup {srv(w)} /\ Goto(w, "abandon")
    <2>0. /\ pc'[w] = "abandon" /\ srv(w)' = srv(w) /\ tok'[w] = tok[w] /\ lost'[w] = lost[w]
          /\ \A v \in Worker : v # w => Untouched(v)
      BY <1>0, <1>3, GotoUntouched
    <2>1. CASE srv(w) # s
      <3>1. killed'[s] = killed[s] /\ attempts'[s] = attempts[s] /\ (s \in heldOnce' <=> s \in heldOnce)
        BY <1>3, <2>1 DEF TypeOK
      <3> QED BY <1>0, <2>0, <2>1, <3>1, PaceOther
    <2>2. CASE srv(w) = s
      <3>1. /\ killed'[s] = 0 /\ attempts'[s] = ABANDONED_RENDER_LIMIT - 1 /\ s \in heldOnce'
            /\ stalled'[s] = stalled[s]
        BY <1>0, <1>3, <2>2 DEF TypeOK
      <3>2. Runs(s)' = Runs(s) /\ LostRuns(s)' = LostRuns(s)
        BY <1>0, <2>0, RunsStay DEF Keyed
      <3>3. /\ IsFiniteSet(LostRuns(s)) /\ Cardinality(LostRuns(s)) <= stalled[s]
            /\ IsFiniteSet(Runs(s)) /\ Cardinality(Runs(s)) <= stalled[s] + 1
        BY RunsFew
      <3>4. /\ Busy(s)' \subseteq Past(s)' /\ Past(s)' \subseteq Runs(s)
            /\ w \notin Past(s)'
        BY <2>0, <3>2, PartsNext, MembershipNext DEF Unfinished
      <3>5. w \in Runs(s) BY <1>0, <2>2, Membership DEF VerdictKeyed, Holds
      <3>6. PaceOf(LostRuns(s)', Busy(s)', Past(s)', 0, ABANDONED_RENDER_LIMIT - 1, stalled[s], 1)
        BY <1>0, <3>2, <3>3, <3>4, <3>5, PaceHolds
      <3>7. Cap(s)' = 1 BY <3>1 DEF Cap
      <3> QED BY <3>1, <3>6, <3>7 DEF Pace
    <2> QED BY <2>1, <2>2
  <1> QED BY <1>0, <1>1, <1>2, <1>3 DEF Verdict

LEMMA PaceStart ==
    ASSUME TypeOK, NEW s \in Server, Pace(s), NEW w \in Worker, StartRender(w)
    PROVE Pace(s)'
  <1>0. /\ pc[w] = "clear" /\ Goto(w, "read") /\ UNCHANGED <<cur, tok, lost, killed, heldOnce, stalled>>
        /\ stalled[s] \in Nat /\ killed[s] \in Nat /\ attempts[s] \in Nat /\ Cap(s) \in Nat
    BY DEF StartRender, ghosts, TypeOK, Cap
  <1>1. /\ pc'[w] = "read" /\ srv(w)' = srv(w) /\ tok'[w] = tok[w] /\ lost'[w] = lost[w]
        /\ \A v \in Worker : v # w => Untouched(v)
    BY <1>0, GotoUntouched
  <1>2. CASE tok[w] = None
    <2>1. ~Holds(w)' /\ attempts' = attempts BY <1>1, <1>2 DEF Holds, StartRender
    <2> QED BY <1>0, <1>1, <2>1, PaceGone
  <1>3. CASE srv(w) # s
    <2>1. attempts'[s] = attempts[s] BY <1>3 DEF StartRender, TypeOK
    <2> QED BY <1>0, <1>1, <1>3, <2>1, PaceOther
  <1>4. CASE tok[w] # None /\ srv(w) = s
    <2>1. attempts'[s] = attempts[s] + 1 BY <1>4 DEF StartRender, TypeOK
    <2>2. Runs(s)' = Runs(s) /\ LostRuns(s)' = LostRuns(s)
      BY <1>0, <1>1, RunsStay DEF Keyed
    <2>3. w \in Runs(s) /\ w \in Past(s) /\ w \in Past(s)'
      BY <1>0, <1>1, <1>4, <2>2, Membership, MembershipNext DEF Holds, Keyed, Unfinished
    <2>4. ASSUME NEW v PROVE /\ v \in Past(s)' <=> v \in Past(s)
                             /\ v \in Busy(s)' => v \in Busy(s) \cup {w}
      <3>1. CASE v \notin Worker BY <3>1, Membership, MembershipNext
      <3>2. CASE v \in Worker /\ v # w BY <1>1, <3>2, UntouchedSame
      <3> QED BY <2>3, <3>1, <3>2
    <2>5. Past(s)' = Past(s) /\ Busy(s)' \subseteq Busy(s) \cup {w} BY <2>4
    <2>6. Busy(s)' \subseteq Past(s) BY <2>5, PartsNext
    <2>7. PaceOf(LostRuns(s), Busy(s), Past(s), killed[s], attempts[s], stalled[s], Cap(s))
      BY DEF Pace
    <2>8. PaceOf(LostRuns(s), Busy(s)', Past(s), killed[s], attempts[s] + 1, stalled[s], Cap(s))
      BY <1>0, <2>5, <2>6, <2>7, PaceStarts
    <2>9. Cap(s)' = Cap(s) BY <1>0 DEF Cap
    <2> QED BY <1>0, <2>1, <2>2, <2>5, <2>8, <2>9 DEF Pace
  <1> QED BY <1>2, <1>3, <1>4

LEMMA PaceKill ==
    ASSUME TypeOK, NEW s \in Server, Pace(s), NEW w \in Worker, Kill(w)
    PROVE Pace(s)'
  <1>0. /\ UNCHANGED <<attempts, heldOnce, stalled>> /\ Ends(w)
        /\ stalled[s] \in Nat /\ killed[s] \in Nat /\ attempts[s] \in Nat /\ Cap(s) \in Nat
    BY DEF Kill, redis, TypeOK, Cap
  <1>1. ~Holds(w)' /\ \A v \in Worker : v # w => Untouched(v) BY <1>0, EndsUntouched
  <1>2. CASE ~(pc[w] \in Unfinished /\ tok[w] # None /\ srv(w) = s)
    <2>1. killed'[s] = killed[s] BY <1>2 DEF Kill, TypeOK
    <2> QED BY <1>0, <1>1, <2>1, PaceGone
  <1>3. CASE pc[w] \in Unfinished /\ tok[w] # None /\ srv(w) = s
    <2>1. killed'[s] = killed[s] + 1 BY <1>3 DEF Kill, TypeOK
    <2>2. w \in Busy(s) /\ w \notin LostRuns(s)' /\ w \notin Busy(s)' /\ w \notin Past(s)'
      BY <1>1, <1>3, Membership, MembershipNext DEF Holds, Unfinished, Keyed
    <2>3. ASSUME NEW v PROVE /\ v \in LostRuns(s)' => v \in LostRuns(s)
                             /\ v \in Busy(s)' => v \in Busy(s) \ {w}
                             /\ v \in Past(s)' => v \in Past(s) \ {w}
      <3>1. CASE v \notin Worker BY <3>1, MembershipNext
      <3>2. CASE v \in Worker /\ v # w BY <1>1, <3>2, UntouchedSame
      <3> QED BY <2>2, <3>1, <3>2
    <2>4. /\ LostRuns(s)' \subseteq LostRuns(s) /\ Busy(s)' \subseteq Busy(s) \ {w}
          /\ Past(s)' \subseteq Past(s) \ {w} /\ Busy(s)' \subseteq Past(s)'
      BY <2>3, PartsNext
    <2>5. PaceOf(LostRuns(s), Busy(s), Past(s), killed[s], attempts[s], stalled[s], Cap(s))
      BY DEF Pace
    <2>6. PaceOf(LostRuns(s)', Busy(s)', Past(s)', killed[s] + 1, attempts[s], stalled[s], Cap(s))
      BY <1>0, <2>2, <2>4, <2>5, PaceKilled
    <2>7. Cap(s)' = Cap(s) BY <1>0 DEF Cap
    <2> QED BY <1>0, <2>1, <2>6, <2>7 DEF Pace
  <1> QED BY <1>2, <1>3

\* The lock that runs out is carried by one run at most, and that one is the server's.
LEMMA PaceStall ==
    ASSUME TypeOK, KeyInv, Own, twice = {}, NEW s \in Server, Pace(s),
           NEW z \in Server, StallLock(z)
    PROVE Pace(s)'
  <1>0. /\ UNCHANGED <<pc, cur, tok, killed, attempts, heldOnce>> /\ lock[z] # None
        /\ lost' = [w \in Worker |-> IF tok[w] = lock[z] THEN lost[w] \cup {"lock"} ELSE lost[w]]
        /\ stalled' = [stalled EXCEPT ![z] = @ + 1]
        /\ stalled[s] \in Nat /\ killed[s] \in Nat /\ attempts[s] \in Nat /\ Cap(s) \in Nat
    BY DEF StallLock, run, redis, TypeOK, Cap
  <1>1. \A v \in Worker : tok[v] # lock[z] => Untouched(v) BY <1>0 DEF Untouched
  <1>2. \A v \in Worker : tok[v] = lock[z] => Carries(v, lock[z]) /\ srv(v) = z /\ srv(v)' = z
    <2> SUFFICES ASSUME NEW v \in Worker, tok[v] = lock[z]
                 PROVE Carries(v, lock[z]) /\ srv(v) = z /\ srv(v)' = z
      OBVIOUS
    <2>1. Running(v) BY <1>0 DEF KeyInv, Shape
    <2>2. Carries(v, lock[z]) BY <1>0, <2>1 DEF Carries
    <2> QED BY <1>0, <2>2 DEF Own, srv
  <1>3. PICK w : \A v \in Worker : v # w => Untouched(v)
    <2>1. CASE \E v \in Worker : tok[v] = lock[z]
      <3>1. PICK w \in Worker : tok[w] = lock[z] BY <2>1
      <3>2. lock[z] \in Token BY <1>0 DEF TypeOK
      <3>3. \A v \in Worker : v # w => tok[v] # lock[z]
        BY <1>2, <3>1, <3>2 DEF KeyInv, Unique
      <3> QED BY <1>1, <3>3
    <2>2. CASE \A v \in Worker : tok[v] # lock[z] BY <1>1, <2>2
    <2> QED BY <2>1, <2>2
  <1>4. CASE s # z
    <2>1. stalled'[s] = stalled[s] BY <1>0, <1>4 DEF TypeOK
    <2>2. ASSUME NEW v PROVE /\ v \in LostRuns(s)' => v \in LostRuns(s)
                             /\ v \in Busy(s)' => v \in Busy(s)
                             /\ v \in Past(s)' => v \in Past(s)
      <3>1. CASE v \notin Worker \/ srv(v)' # s BY <3>1, MembershipNext
      <3>2. CASE v \in Worker /\ tok[v] # lock[z] BY <1>1, <3>2, UntouchedSame
      <3> QED BY <1>2, <1>4, <3>1, <3>2
    <2> QED BY <1>0, <1>3, <2>1, <2>2, PaceQuiet
  <1>5. CASE s = z
    <2>1. stalled'[s] = stalled[s] + 1 BY <1>0, <1>5 DEF TypeOK
    <2>2. ASSUME NEW v PROVE /\ v \in LostRuns(s)' => v \in LostRuns(s) \cup {w}
                             /\ v \in Busy(s)' => v \in Busy(s) \cup {w}
                             /\ v \in Past(s)' => v \in Past(s) \cup {w}
      <3>1. CASE v \notin Worker BY <3>1, MembershipNext
      <3>2. CASE v \in Worker /\ v # w BY <1>3, <3>2, UntouchedSame
      <3> QED BY <3>1, <3>2
    <2>3. /\ Gains(LostRuns(s)', LostRuns(s), w) /\ Gains(Busy(s)', Busy(s), w)
          /\ Gains(Past(s)', Past(s), w) /\ Busy(s)' \subseteq Past(s)'
      BY <2>2, PartsNext DEF Gains
    <2>4. PaceOf(LostRuns(s), Busy(s), Past(s), killed[s], attempts[s], stalled[s], Cap(s))
      BY DEF Pace
    <2>5. PaceOf(LostRuns(s)', Busy(s)', Past(s)', killed[s], attempts[s], stalled'[s], Cap(s))
      <3>1. stalled[s] \in Nat /\ killed[s] \in Nat /\ attempts[s] \in Nat /\ Cap(s) \in Nat
        BY <1>0
      <3> QED BY <2>1, <2>3, <2>4, <3>1, PaceStalls
    <2>6. Cap(s)' = Cap(s) BY <1>0 DEF Cap
    <2> QED BY <1>0, <2>5, <2>6 DEF Pace
  <1> QED BY <1>4, <1>5

LEMMA PaceReceive ==
    ASSUME TypeOK, KeyInv, NEW s \in Server, Pace(s), NEW w \in Worker, NEW m \in queue,
           Receive(w, m) \/ KillDeferral(w, m) \/ RunWithoutRedis(w, m)
    PROVE Pace(s)'
  <1>d. ASSUME Deliver(w, m), NEW l, Goto(w, l), \A v \in Worker : v # w => tok'[v] = tok[v]
        PROVE /\ pc'[w] = l /\ lost'[w] = {} /\ tok[w] = None
              /\ \A v \in Worker : v # w => Untouched(v)
    BY <1>d DEF Deliver, Goto, TypeOK, Untouched, KeyInv, Shape, Running
  <1>1. CASE TooManyDeliveries(w, m) \/ AcquireDeferred(w, m) \/ KillDeferral(w, m)
    <2>1. UNCHANGED <<pc, cur, tok, lost, killed, attempts, stalled, heldOnce>>
      BY <1>1 DEF TooManyDeliveries, AcquireDeferred, KillDeferral, Deferral, redis, run, ghosts
    <2> QED BY <2>1, PaceSame
  <1>2. CASE AcquireHeld(w, m)
    <2>1. /\ Deliver(w, m) /\ Goto(w, "verdict") /\ \A v \in Worker : v # w => tok'[v] = tok[v]
          /\ UNCHANGED <<killed, attempts, stalled, heldOnce>>
      BY <1>2 DEF AcquireHeld, Receives, TypeOK, ghosts
    <2>2. /\ pc'[w] = "verdict" /\ lost'[w] = {} /\ \A v \in Worker : v # w => Untouched(v)
      BY <1>d, <2>1
    <2>3. w \notin LostRuns(s)' /\ w \notin Busy(s)' /\ w \notin Past(s)'
      BY <2>2, MembershipNext DEF Unfinished
    <2> QED BY <2>1, <2>2, <2>3, PaceQuiet
  <1>3. CASE AcquireCoalesced(w, m) \/ RunWithoutRedis(w, m)
    <2>1. PICK l : /\ Deliver(w, m) /\ Goto(w, l)
                   /\ UNCHANGED <<tok, killed, attempts, stalled, heldOnce>>
      BY <1>3 DEF AcquireCoalesced, RunWithoutRedis, redis, ghosts
    <2>2. tok[w] = None /\ \A v \in Worker : v # w => Untouched(v)
      BY <1>d, <2>1
    <2>3. ~Holds(w)' BY <2>1, <2>2 DEF Holds
    <2> QED BY <2>1, <2>2, <2>3, PaceGone
  <1> QED BY <1>1, <1>2, <1>3 DEF Receive, Acquire

LEMMA PaceStep ==
    ASSUME TypeOK, KeyInv, VerdictKeyed, twice = {}, NEW s \in Server, Pace(s),
           NEW w \in Worker, Step(w)
    PROVE Pace(s)'
  <1>e. ASSUME Ends(w), UNCHANGED <<killed, attempts, stalled, heldOnce>> PROVE Pace(s)'
    BY <1>e, EndsUntouched, PaceGone
  <1>1. CASE SetDirty(w) BY <1>1, <1>e DEF SetDirty, ghosts
  <1>2. CASE Verdict(w) BY <1>2, PaceVerdict
  <1>3. CASE RecordAbandoned(w)
    BY <1>3, PaceMoves DEF RecordAbandoned, redis, ghosts, Keyed
  <1>4. CASE StartRender(w) BY <1>4, PaceStart
  <1>5. CASE ReadServer(w)
    <2>0. /\ pc[w] = "read" /\ pc[w] \in Keyed /\ pc[w] \in Unfinished
          /\ UNCHANGED <<cur, tok, lost, stalled>>
      BY <1>5 DEF ReadServer, Keyed, Unfinished
    <2>1. CASE Goto(w, "current") /\ UNCHANGED <<attempts, killed, heldOnce>>
      BY <2>0, <2>1, PaceMoves DEF Unfinished
    <2>2. CASE Goto(w, "release") /\ Finished(w)
      BY <2>0, <2>2, PaceFinished
    <2>3. CASE Goto(w, "store") /\ UNCHANGED <<attempts, killed, heldOnce>>
      BY <2>0, <2>3, PaceMoves DEF Unfinished
    <2> QED BY <1>5, <2>1, <2>2, <2>3 DEF ReadServer
  <1>6. CASE StoreBundle(w)
    BY <1>6, PaceMoves DEF StoreBundle, redis, ghosts, Keyed, Unfinished
  <1>7. CASE AfterRender(w)
    <2>0. /\ pc[w] \in Unfinished /\ Finished(w) /\ UNCHANGED <<cur, tok, lost, stalled>>
      BY <1>7 DEF AfterRender, Unfinished
    <2>1. \E l \in {"release", "clear"} : Goto(w, l) BY <1>7 DEF AfterRender
    <2> QED BY <2>0, <2>1, PaceFinished
  <1>8. CASE Release(w)
    <2>0. UNCHANGED <<killed, attempts, stalled, heldOnce>> BY <1>8 DEF Release, ghosts
    <2>1. CASE out[w] = "done" BY <1>8, <2>0, <2>1, <1>e DEF Release
    <2>2. CASE out[w] # "done"
      <3>1. Goto(w, "publish") /\ UNCHANGED <<cur, tok, lost>> BY <1>8, <2>2 DEF Release
      <3>2. pc'[w] = "publish" /\ \A v \in Worker : v # w => Untouched(v)
        BY <3>1, GotoUntouched
      <3>3. ~Holds(w)' BY <3>2 DEF Holds, Keyed
      <3> QED BY <2>0, <3>2, <3>3, PaceGone
    <2> QED BY <2>1, <2>2
  <1>9. CASE PublishRetry(w) BY <1>9, <1>e DEF PublishRetry, redis, ghosts
  <1> QED BY <1>1, <1>2, <1>3, <1>4, <1>5, <1>6, <1>7, <1>8, <1>9 DEF Step

LEMMA PaceFault ==
    ASSUME TypeOK, KeyInv, Own, twice = {}, NEW s \in Server, Pace(s), AnyFault
    PROVE Pace(s)'
  <1>1. ASSUME NEW w \in Worker, Abort(w) PROVE Pace(s)'
    BY <1>1, EndsUntouched, PaceGone DEF Abort, redis, ghosts
  <1>2. ASSUME NEW w \in Worker, FailRender(w) PROVE Pace(s)'
    <2>1. pc[w] \in Unfinished BY <1>2 DEF FailRender, Unfinished
    <2> QED BY <1>2, <2>1, PaceFinished DEF FailRender
  <1>3. ASSUME NEW w \in Worker, Redeliver(w) PROVE Pace(s)'
    BY <1>3, PaceSame DEF Redeliver, redis, run
  <1>4. ASSUME NEW m \in queue, Lose(m) PROVE Pace(s)'
    BY <1>4, PaceSame DEF Lose, redis, run, ghosts
  <1>5. ASSUME NEW k \in Slot, StallSlot(k) PROVE Pace(s)'
    <2>0. /\ UNCHANGED <<pc, cur, tok, killed, attempts, heldOnce, stalled>>
          /\ lost' = [w \in Worker |-> IF tok[w] = slot[k] /\ slt[w] = k
                                         THEN lost[w] \cup {"slot"} ELSE lost[w]]
      BY <1>5 DEF StallSlot, run, ghosts
    <2>1. \A v \in Worker : "lock" \in lost'[v] <=> "lock" \in lost[v] BY <2>0
    <2>2. ASSUME NEW v \in Worker
          PROVE /\ v \in LostRuns(s)' <=> v \in LostRuns(s)
                /\ v \in Busy(s)' <=> v \in Busy(s)
                /\ v \in Past(s)' <=> v \in Past(s)
      <3>1. Holds(v)' = Holds(v) /\ srv(v)' = srv(v) BY <2>0 DEF Holds, srv
      <3> QED BY <2>0, <2>1, <3>1, Membership, MembershipNext
    <2>3. LostRuns(s)' = LostRuns(s) /\ Busy(s)' = Busy(s) /\ Past(s)' = Past(s)
      <3>1. ASSUME NEW v, v \notin Worker
            PROVE /\ v \notin LostRuns(s) /\ v \notin Busy(s) /\ v \notin Past(s)
                  /\ v \notin LostRuns(s)' /\ v \notin Busy(s)' /\ v \notin Past(s)'
        BY <3>1, Membership, MembershipNext
      <3> QED BY <2>2, <3>1
    <2>4. Cap(s)' = Cap(s) BY <2>0 DEF Cap
    <2> QED BY <2>0, <2>3, <2>4 DEF Pace
  <1>6. ASSUME NEW w \in Worker, FlagFails(w) PROVE Pace(s)'
    <2>0. /\ Goto(w, "clear") /\ tok[w] = None
          /\ UNCHANGED <<cur, tok, lost, killed, attempts, stalled, heldOnce>>
      BY <1>6 DEF FlagFails, redis, ghosts, KeyInv, Shape
    <2>1. \A v \in Worker : v # w => Untouched(v) BY <2>0, GotoUntouched
    <2>2. ~Holds(w)' BY <2>0 DEF Holds
    <2> QED BY <2>0, <2>1, <2>2, PaceGone
  <1> QED BY <1>1, <1>2, <1>3, <1>4, <1>5, <1>6, PaceKill, PaceStall, PaceReceive DEF AnyFault

\* Whatever is killed, stalled, lost or fails, and whoever sends the messages: a
\* server whose renders keep dying costs ABANDONED_RENDER_LIMIT processes before it
\* is held and one per hold after that, plus what the locks that ran out pay for.
THEOREM KillsAlwaysPaced == Spec => []KillsPaced
  <1>1. Init => VerdictKeyed /\ PaceInv
    <2>1. Init => VerdictKeyed BY DEF Init, VerdictKeyed
    <2> SUFFICES ASSUME Init, NEW s \in Server PROVE Pace(s) BY <2>1 DEF PaceInv
    <2>2. \A v \in Worker : ~Holds(v) BY DEF Init, Holds
    <2>3. LostRuns(s) = {} /\ Busy(s) = {} /\ Past(s) = {}
      BY <2>2 DEF LostRuns, Busy, Past, Runs
    <2>4. /\ killed[s] = 0 /\ attempts[s] = 0 /\ stalled[s] = 0 /\ Cap(s) = ABANDONED_RENDER_LIMIT
      BY DEF Init, Cap
    <2>5. IsFiniteSet({}) /\ Cardinality({}) = 0 BY FS_EmptySet
    <2>6. PaceOf({}, {}, {}, 0, 0, 0, ABANDONED_RENDER_LIMIT) BY <2>5 DEF PaceOf, Slack
    <2> QED BY <2>3, <2>4, <2>6 DEF Pace
  <1>2. TypeOK /\ KeyInv /\ OwnInv /\ VerdictKeyed /\ PaceInv /\ [Next]_vars
          => VerdictKeyed' /\ PaceInv'
    <2> SUFFICES ASSUME TypeOK, KeyInv, OwnInv, VerdictKeyed, PaceInv, [Next]_vars
                 PROVE VerdictKeyed' /\ PaceInv'
      OBVIOUS
    <2>1. VerdictKeyed' BY VerdictKeyedKept
    <2>2. ASSUME twice' = {}, NEW s \in Server PROVE Pace(s)'
      <3>0. twice = {} /\ Own /\ Pace(s) BY <2>2, TwiceGrows DEF OwnInv, PaceInv
      <3>1. CASE (\E z \in Server : Change(z)) \/ Sweep
        BY <3>0, <3>1, PaceSame DEF Change, Sweep, redis, run, ghosts
      <3>2. CASE Lapse \/ WaitingLapses
        <4>1. UNCHANGED <<pc, cur, tok, lost, killed, attempts, stalled, heldOnce>>
          BY <3>2 DEF Lapse, LockLapses, HoldLapses, BackoffLapses, SlotLapses, WaitingLapses,
                      redis, run, ghosts
        <4> QED BY <3>0, <4>1, PaceSame
      <3>3. CASE UNCHANGED vars
        BY <3>0, <3>3, PaceSame DEF vars, redis, run, ghosts
      <3> QED BY <3>0, <3>1, <3>2, <3>3, PaceReceive, PaceStep, PaceFault DEF Next
    <2> QED BY <2>1, <2>2 DEF PaceInv
  <1>3. TypeOK /\ PaceInv => KillsPaced
    <2> SUFFICES ASSUME TypeOK, PaceInv, twice = {}, NEW s \in Server
                 PROVE killed[s] <= Cap(s) + Slack(stalled[s])
      BY DEF KillsPaced, Cap, Slack
    <2>1. /\ IsFiniteSet(Past(s))
          /\ killed[s] + Cardinality(Past(s)) <= Slack(stalled[s]) + Cap(s)
      BY DEF PaceInv, Pace, PaceOf
    <2>2. /\ killed[s] \in Nat /\ Cap(s) \in Nat /\ Slack(stalled[s]) \in Nat
          /\ Cardinality(Past(s)) \in Nat
      BY <2>1, FS_CardinalityType DEF TypeOK, Cap, Slack
    <2> QED BY <2>1, <2>2
  <1> QED BY <1>1, <1>2, <1>3, TypeCorrect, KeysInvariant, LockTokensOwned, PTL DEF Spec
=============================================================================
