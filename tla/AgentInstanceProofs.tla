------------------------- MODULE AgentInstanceProofs -------------------------
(***************************************************************************)
(* Proofs about AgentInstance: whoever owned the server is remembered, and *)
(* an owner that keeps polling keeps the server, for any number of         *)
(* processes and any timeouts.                                             *)
(***************************************************************************)
EXTENDS AgentInstance, FiniteSetTheorems, TLAPS

-----------------------------------------------------------------------------
(* The inductive invariant.                                                *)

\* The list names processes that owned the server, one to a place, and never
\* the owner.
ListOK ==
    /\ owner # None => owner \in owned /\ displaced[owner] = 0
    /\ \A q \in Instance : displaced[q] > 0 => q \in owned
    /\ \A q, r \in Instance : displaced[q] > 0 /\ displaced[q] = displaced[r] => q = r
    /\ owner = None => owned = {}

\* Since a listed process gave the server up, the owner and those ahead of it on
\* the list have had it, and nobody else: its place is their number.
PlaceOK ==
    /\ \A q \in Instance : owner = q \/ q \notin owned => successors[q] = {}
    /\ \A q \in Instance : displaced[q] > 0 =>
          /\ successors[q] = {owner} \cup NewerThan(displaced, q)
          /\ Cardinality(successors[q]) = displaced[q]

\* The owner's stamp lags behind its last granted poll by less than
\* SEEN_REFRESH, also while a poll that will not write it is under way.
StampOK ==
    /\ \A q \in Instance : owner = q => age =< since[q] + SEEN_REFRESH - 1
    /\ \A p \in Process : poll[p] = "recent" /\ owner = p => age < SEEN_REFRESH

IInv == TypeOK /\ ListOK /\ PlaceOK /\ Remembered /\ StampOK

\* The processes are finitely many, and so is every set of them.
LEMMA FiniteInstances ==
    ASSUME NEW S, S \subseteq Instance
    PROVE  IsFiniteSet(S) /\ Cardinality(S) \in Nat
<1>1. IsFiniteSet(Instance)
  BY InstanceAssumption, FS_Union DEF Instance
<1> QED
  BY <1>1, FS_Subset, FS_CardinalityType

\* What a takeover does to the list: the new owner is off it, the old one is its
\* newest entry, an entry behind the new owner's stays where it is, the others
\* move back by one, and the one that would be past the end is dropped.
LEMMA EntryCases ==
    ASSUME TypeOK, NEW p \in Process, owner # p, NEW q \in Instance
    PROVE  /\ Entry(p, q) \in 0 .. DISPLACED_KEEP
           /\ q = p => Entry(p, q) = 0
           /\ q = owner => Entry(p, q) = 1
           /\ q \notin {p, owner} /\ displaced[q] = 0 => Entry(p, q) = 0
           /\ q \notin {p, owner} /\ displaced[q] > 0
                /\ (displaced[p] = 0 \/ displaced[q] < displaced[p]) =>
                  Entry(p, q) = IF displaced[q] = DISPLACED_KEEP THEN 0 ELSE displaced[q] + 1
           /\ q \notin {p, owner} /\ displaced[p] > 0 /\ displaced[p] =< displaced[q] =>
                  Entry(p, q) = displaced[q]
<1>1. /\ DISPLACED_KEEP \in Nat \ {0}
      /\ displaced[q] \in 0 .. DISPLACED_KEEP /\ displaced[p] \in 0 .. DISPLACED_KEEP
  BY InstanceAssumption DEF TypeOK, Instance
<1> QED
  BY <1>1 DEF Entry, Place

\* The initial state satisfies the invariant.
LEMMA IInvInit == Init => IInv
<1> SUFFICES ASSUME Init PROVE IInv
  OBVIOUS
<1> USE InstanceAssumption
<1>1. CASE NewServer
  <2>1. TypeOK
    BY <1>1 DEF Init, NewServer, TypeOK, LongAgo
  <2>2. ListOK /\ PlaceOK /\ Remembered
    BY <1>1 DEF NewServer, ListOK, PlaceOK, Remembered, Instance
  <2>3. StampOK
    BY <1>1 DEF Init, NewServer, StampOK, Instance
  <2> QED
    BY <2>1, <2>2, <2>3 DEF IInv
<1>2. CASE UsedServer
  <2>1. owner \in Instance /\ Former \subseteq Instance
    BY <1>2 DEF UsedServer, Instance
  <2>2. \A q \in Instance : NewerThan(displaced, q) \subseteq Instance
    BY DEF NewerThan
  <2>3. TypeOK
    <3>1. successors \in [Instance -> SUBSET Instance]
      BY <1>2, <2>1, <2>2 DEF UsedServer
    <3>2. valid \in SUBSET (Instance \X {"ref", "reg", "hb"})
      BY <1>2, <2>1 DEF UsedServer
    <3>3. age \in 0 .. LongAgo /\ since \in [Instance -> 0 .. LongAgo]
      BY <1>2 DEF UsedServer, LongAgo
    <3> QED
      BY <1>2, <2>1, <3>1, <3>2, <3>3 DEF Init, UsedServer, TypeOK
  <2>4. ListOK
    BY <1>2, <2>1 DEF UsedServer, ListOK, IsList, Instance
  <2>5. PlaceOK
    <3>1. \A q \in Instance : owner = q \/ q \notin owned => successors[q] = {}
      BY <1>2 DEF UsedServer
    <3>2. ASSUME NEW q \in Instance, displaced[q] > 0
          PROVE  /\ successors[q] = {owner} \cup NewerThan(displaced, q)
                 /\ Cardinality(successors[q]) = displaced[q]
      <4>1. successors[q] = NewerThan(displaced, q) \cup {owner}
        BY <1>2, <3>2 DEF UsedServer
      <4>2. owner \notin NewerThan(displaced, q)
        BY <2>1, <2>3, <2>4 DEF NewerThan, ListOK, TypeOK
      <4>3. IsFiniteSet(NewerThan(displaced, q))
        BY <2>2, FiniteInstances
      <4>4. Cardinality(NewerThan(displaced, q) \cup {owner})
              = Cardinality(NewerThan(displaced, q)) + 1
        BY <4>2, <4>3, FS_AddElement
      <4>5. Cardinality(NewerThan(displaced, q)) = displaced[q] - 1
        BY <1>2, <3>2 DEF UsedServer, IsList
      <4>6. displaced[q] \in Int
        BY <2>3 DEF TypeOK
      <4> QED
        BY <4>1, <4>4, <4>5, <4>6
    <3> QED
      BY <3>1, <3>2 DEF PlaceOK
  <2>6. Remembered
    BY <1>2, <2>1 DEF UsedServer, Remembered
  <2>7. StampOK
    BY <1>2, <2>3 DEF UsedServer, StampOK, Init, TypeOK, LongAgo, Instance
  <2> QED
    BY <2>3, <2>4, <2>5, <2>6, <2>7 DEF IInv
<1> QED
  BY <1>1, <1>2 DEF Init

-----------------------------------------------------------------------------
(* Steps.                                                                  *)

\* Steps that decide no poll and let no time pass keep the parts of the
\* invariant about ownership.
LEMMA ElsewhereKeeps ==
    ASSUME IInv, UNCHANGED <<rowVars, poll, history>>
    PROVE  ListOK' /\ PlaceOK' /\ Remembered' /\ StampOK'
  BY DEF IInv, ListOK, PlaceOK, NewerThan, Remembered, StampOK, rowVars, history

\* Processes and tokens: the types.
LEMMA ProcessSteps ==
    ASSUME TypeOK, NEW p \in Process, NEW c \in BOOLEAN,
           \/ Start(p, c) \/ Stop(p) \/ Reauthenticate(p) \/ RegisterRead(p)
           \/ RegisterCommit(p) \/ RegisterAnswer(p, c) \/ HeartbeatRead(p)
           \/ HeartbeatCommit(p) \/ HeartbeatAnswer(p, c)
    PROVE  TypeOK' /\ UNCHANGED <<rowVars, poll, history>>
<1> USE InstanceAssumption DEF procVars, rowVars, history
<1>1. CASE Start(p, c)
  BY <1>1 DEF Start, TypeOK, Instance
<1>2. CASE Stop(p)
  BY <1>2 DEF Stop, TypeOK
<1>3. CASE Reauthenticate(p)
  BY <1>3 DEF Reauthenticate, TypeOK
<1>4. CASE RegisterRead(p)
  BY <1>4 DEF RegisterRead, TypeOK
<1>5. CASE RegisterCommit(p)
  BY <1>5 DEF RegisterCommit, TypeOK, Instance
<1>6. CASE RegisterAnswer(p, c)
  <2>1. Adopt(p, "reg") \in SUBSET (Instance \X {"ref", "reg", "hb"})
    BY DEF Adopt, TypeOK, Instance
  <2> QED
    BY <1>6, <2>1 DEF RegisterAnswer, TypeOK
<1>7. CASE HeartbeatRead(p)
  BY <1>7 DEF HeartbeatRead, TypeOK
<1>8. CASE HeartbeatCommit(p)
  BY <1>8 DEF HeartbeatCommit, TypeOK, Instance
<1>9. CASE HeartbeatAnswer(p, c)
  <2>1. Adopt(p, "hb") \in SUBSET (Instance \X {"ref", "reg", "hb"})
    BY DEF Adopt, TypeOK, Instance
  <2> QED
    BY <1>9, <2>1 DEF HeartbeatAnswer, TypeOK
<1> QED
  BY <1>1, <1>2, <1>3, <1>4, <1>5, <1>6, <1>7, <1>8, <1>9

\* A poll notes what it read of the row.
LEMMA PollReadStep ==
    ASSUME IInv, NEW p \in Process, PollRead(p)
    PROVE  IInv'
<1> USE InstanceAssumption DEF procVars, rowVars, history
<1>1. TypeOK'
  BY DEF PollRead, IInv, TypeOK
<1>2. ListOK' /\ PlaceOK' /\ Remembered'
  BY DEF PollRead, IInv, ListOK, PlaceOK, NewerThan, Remembered
<1>3. StampOK'
  BY DEF PollRead, IInv, TypeOK, StampOK
<1> QED
  BY <1>1, <1>2, <1>3 DEF IInv

\* The three outcomes of claim_poll.
LEMMA ClaimPollCases ==
    ASSUME TypeOK, NEW p \in Process, ClaimPoll(p)
    PROVE  \/ /\ poll[p] = "recent" \/ IsRefused(p)
              /\ UNCHANGED <<rowVars, owned, successors>>
              /\ since' = since \/ (/\ poll[p] = "recent"
                                    /\ since' = [since EXCEPT ![p] = 0])
           \/ /\ owner \in {None, p}
              /\ owner' = p /\ age' = 0 /\ owned' = owned \cup {p}
              /\ UNCHANGED <<displaced, successors>>
              /\ since' = [since EXCEPT ![p] = 0]
           \/ /\ owner \notin {None, p} /\ ~ IsRefused(p) /\ TakeOver(p)
              /\ since' = [since EXCEPT ![p] = 0]
<1>1. poll[p] \in {"recent", "claim"}
  BY DEF ClaimPoll, TypeOK
<1>2. CASE poll[p] = "recent"
  BY <1>2 DEF ClaimPoll
<1>3. CASE poll[p] = "claim" /\ IsRefused(p)
  <2>1. owner \notin {None, p}
    BY <1>3 DEF IsRefused, IsDisplaced
  <2> QED
    BY <1>3, <2>1 DEF ClaimPoll
<1>4. CASE poll[p] = "claim" /\ ~ IsRefused(p) /\ owner \in {None, p}
  BY <1>4 DEF ClaimPoll
<1>5. CASE poll[p] = "claim" /\ ~ IsRefused(p) /\ owner \notin {None, p}
  BY <1>5 DEF ClaimPoll
<1> QED
  BY <1>1, <1>2, <1>3, <1>4, <1>5

\* A takeover keeps what the list says of the successors.
LEMMA TakeOverPlaces ==
    ASSUME TypeOK, ListOK, PlaceOK, Remembered, NEW p \in Process,
           owner \notin {None, p}, TakeOver(p)
    PROVE  ListOK' /\ PlaceOK' /\ Remembered'
<1> USE InstanceAssumption
<1>1. /\ owner' = p /\ owned' = owned \cup {p}
      /\ displaced' = [q \in Instance |-> Entry(p, q)]
      /\ successors' = [q \in Instance |-> IF q = p \/ q \notin owned THEN {}
                                           ELSE successors[q] \cup {p}]
  BY DEF TakeOver
<1>2. /\ p \in Instance /\ owner \in Instance /\ owner \in owned /\ owned \subseteq Instance
      /\ displaced[owner] = 0 /\ DISPLACED_KEEP \in Nat \ {0} /\ p # None
      /\ \A q \in Instance : displaced[q] \in 0 .. DISPLACED_KEEP
  BY DEF Instance, TypeOK, ListOK
<1>3. \A q \in Instance :
        /\ displaced'[q] \in 0 .. DISPLACED_KEEP
        /\ q = p => displaced'[q] = 0
        /\ q = owner => displaced'[q] = 1
        /\ q \notin {p, owner} /\ displaced[q] = 0 => displaced'[q] = 0
        /\ q \notin {p, owner} /\ displaced[q] > 0
             /\ (displaced[p] = 0 \/ displaced[q] < displaced[p]) =>
               displaced'[q] = IF displaced[q] = DISPLACED_KEEP THEN 0 ELSE displaced[q] + 1
        /\ q \notin {p, owner} /\ displaced[p] > 0 /\ displaced[p] =< displaced[q] =>
               displaced'[q] = displaced[q]
  BY <1>1, EntryCases
<1>4. \A q, r \in Instance : displaced[q] > 0 /\ displaced[q] = displaced[r] => q = r
  BY DEF ListOK
<1>5. ListOK'
  <2>1. \A q, r \in Instance : displaced'[q] > 0 /\ displaced'[q] = displaced'[r] => q = r
    BY <1>2, <1>3, <1>4
  <2>2. \A q \in Instance : displaced'[q] > 0 => q \in owned
    BY <1>2, <1>3 DEF ListOK
  <2> QED
    BY <1>1, <1>2, <1>3, <2>1, <2>2 DEF ListOK
<1>6. ASSUME NEW q \in owned, q # p
      PROVE  /\ q \in Instance
             /\ successors'[q] = successors[q] \cup {p}
             /\ IsFiniteSet(successors[q]) /\ Cardinality(successors[q]) \in Nat
             /\ p \notin successors[q] =>
                    Cardinality(successors'[q]) = Cardinality(successors[q]) + 1
             /\ p \in successors[q] => successors'[q] = successors[q]
  <2>1. q \in Instance /\ successors[q] \subseteq Instance
    BY <1>2, <1>6 DEF TypeOK
  <2>2. successors'[q] = successors[q] \cup {p}
    BY <1>1, <1>6, <2>1
  <2>3. IsFiniteSet(successors[q]) /\ Cardinality(successors[q]) \in Nat
    BY <2>1, FiniteInstances
  <2>4. p \notin successors[q] =>
            Cardinality(successors[q] \cup {p}) = Cardinality(successors[q]) + 1
    BY <2>3, FS_AddElement
  <2> QED
    BY <2>1, <2>2, <2>3, <2>4
\* The old owner: p is the first after it.
<1>7. successors'[owner] = {p} /\ Cardinality(successors'[owner]) = 1
  <2>1. successors[owner] = {}
    BY <1>2 DEF PlaceOK
  <2>2. successors'[owner] = {p}
    BY <1>2, <1>6, <2>1
  <2> QED
    BY <2>2, FS_Singleton
\* A listed process: p counts unless it is ahead of it already.
<1>8. ASSUME NEW q \in Instance, q \notin {p, owner}, displaced[q] > 0
      PROVE  /\ displaced[p] = 0 \/ displaced[q] < displaced[p] =>
                    /\ p \notin successors[q]
                    /\ Cardinality(successors'[q]) = displaced[q] + 1
             /\ displaced[p] > 0 /\ displaced[p] =< displaced[q] =>
                    /\ p \in successors[q] /\ displaced[p] < displaced[q]
                    /\ Cardinality(successors'[q]) = displaced[q]
  <2>1. q \in owned
    BY <1>8 DEF ListOK
  <2>2. /\ successors[q] = {owner} \cup NewerThan(displaced, q)
        /\ Cardinality(successors[q]) = displaced[q]
    BY <1>8 DEF PlaceOK
  <2>3. p \in successors[q] <=> 0 < displaced[p] /\ displaced[p] < displaced[q]
    BY <1>2, <2>2 DEF NewerThan
  <2>4. displaced[p] # displaced[q]
    BY <1>2, <1>4, <1>8
  <2>5. displaced[p] \in Int /\ displaced[q] \in Int
    BY <1>2, <1>8
  <2>6. CASE p \in successors[q]
    <3>1. successors'[q] = successors[q]
      BY <1>6, <1>8, <2>1, <2>6
    <3> QED
      BY <2>2, <2>3, <2>5, <2>6, <3>1
  <2>7. CASE p \notin successors[q]
    <3>1. Cardinality(successors'[q]) = displaced[q] + 1
      BY <1>6, <1>8, <2>1, <2>2, <2>7
    <3> QED
      BY <2>3, <2>4, <2>5, <2>7, <3>1
  <2> QED
    BY <2>6, <2>7
<1>9. PlaceOK'
  <2>1. \A q \in Instance : owner' = q \/ q \notin owned' => successors'[q] = {}
    BY <1>1
  <2>2. ASSUME NEW q \in Instance, displaced'[q] > 0
        PROVE  /\ successors'[q] = {p} \cup NewerThan(displaced', q)
               /\ Cardinality(successors'[q]) = displaced'[q]
    <3>1. CASE q = owner
      <4>1. NewerThan(displaced', q) = {}
        BY <1>2, <1>3, <3>1 DEF NewerThan
      <4> QED
        BY <1>3, <1>7, <3>1, <4>1
    <3>2. CASE q # owner
      <4>1. q \notin {p, owner} /\ displaced[q] > 0 /\ q \in owned
        BY <1>2, <1>3, <2>2, <3>2 DEF ListOK
      <4>2. Cardinality(successors'[q]) = displaced'[q]
        BY <1>2, <1>3, <1>8, <2>2, <4>1
      <4>3. \A r \in Instance : r \notin {p, owner} =>
              (0 < displaced[r] /\ displaced[r] < displaced[q]
                 <=> 0 < displaced'[r] /\ displaced'[r] < displaced'[q])
        BY <1>2, <1>3, <1>4, <2>2, <4>1
      <4>4. displaced'[owner] = 1 /\ 1 < displaced'[q] /\ displaced'[p] = 0
        BY <1>2, <1>3, <1>4, <2>2, <4>1
      <4>5. successors'[q] = {p} \cup {owner} \cup NewerThan(displaced, q)
        BY <1>6, <4>1 DEF PlaceOK
      <4>6. {p} \cup {owner} \cup NewerThan(displaced, q) = {p} \cup NewerThan(displaced', q)
        BY <1>2, <4>3, <4>4 DEF NewerThan
      <4> QED
        BY <4>2, <4>5, <4>6
    <3> QED
      BY <3>1, <3>2
  <2> QED
    BY <1>1, <2>1, <2>2 DEF PlaceOK
<1>10. Remembered'
  <2>0. \A q \in owned' : q = owner' \/ (q \in owned /\ q # p)
    BY <1>1
  <2>a. \A q \in owned : displaced'[q] = 0 \/ displaced'[q] > 0
    BY <1>2, <1>3
  <2> SUFFICES ASSUME NEW q \in owned, q # p, displaced'[q] = 0
               PROVE  Cardinality(successors'[q]) > DISPLACED_KEEP
    BY <2>0, <2>a DEF Remembered
  <2>1. q \in Instance /\ q # owner
    BY <1>2, <1>3
  <2>2. CASE displaced[q] > 0
    BY <1>2, <1>3, <1>8, <2>1, <2>2
  <2>3. CASE displaced[q] = 0
    <3>1. Cardinality(successors[q]) > DISPLACED_KEEP
      BY <2>1, <2>3 DEF Remembered
    <3> QED
      BY <1>2, <1>6, <3>1
  <2> QED
    BY <1>2, <2>1, <2>2, <2>3
<1> QED
  BY <1>5, <1>9, <1>10

\* Deciding a poll keeps the invariant: stamping, refusing, taking over.
LEMMA ClaimPollStep ==
    ASSUME IInv, NEW p \in Process, ClaimPoll(p)
    PROVE  IInv'
<1> USE InstanceAssumption
<1>1. /\ poll' = [poll EXCEPT ![p] = "idle"]
      /\ UNCHANGED <<started, alive, valid, reg, hb, rotations>>
  BY DEF ClaimPoll, procVars
<1>2. TypeOK /\ ListOK /\ PlaceOK /\ Remembered /\ StampOK
  BY DEF IInv
<1>3. CASE /\ poll[p] = "recent" \/ IsRefused(p)
           /\ UNCHANGED <<rowVars, owned, successors>>
           /\ since' = since \/ (/\ poll[p] = "recent"
                                 /\ since' = [since EXCEPT ![p] = 0])
  <2> USE DEF rowVars
  <2>1. TypeOK'
    BY <1>1, <1>2, <1>3 DEF TypeOK, LongAgo
  <2>2. ListOK' /\ PlaceOK' /\ Remembered'
    BY <1>2, <1>3 DEF ListOK, PlaceOK, NewerThan, Remembered
  <2>3. StampOK'
    BY <1>1, <1>2, <1>3 DEF StampOK, TypeOK, LongAgo
  <2> QED
    BY <2>1, <2>2, <2>3 DEF IInv
<1>4. CASE /\ owner \in {None, p}
           /\ owner' = p /\ age' = 0 /\ owned' = owned \cup {p}
           /\ UNCHANGED <<displaced, successors>>
           /\ since' = [since EXCEPT ![p] = 0]
  <2>1. TypeOK' /\ p \in Instance
    BY <1>1, <1>2, <1>4 DEF TypeOK, LongAgo, Instance
  <2>2. displaced[p] = 0 /\ \A q \in Instance : displaced[q] > 0 => owner = p
    BY <1>2, <1>4, <2>1 DEF ListOK, TypeOK
  <2>3. ListOK'
    BY <1>2, <1>4, <2>2 DEF ListOK
  <2>4. PlaceOK'
    <3>1. successors[p] = {}
      BY <1>2, <1>4, <2>1 DEF PlaceOK, ListOK
    <3> QED
      BY <1>2, <1>4, <2>2, <3>1 DEF PlaceOK, NewerThan
  <2>5. Remembered'
    <3>1. owner = None => owned' = {p}
      BY <1>2, <1>4 DEF ListOK
    <3>2. owner = p => owned' = owned
      BY <1>2, <1>4 DEF ListOK
    <3> QED
      BY <1>2, <1>4, <3>1, <3>2 DEF Remembered
  <2>6. StampOK'
    BY <1>1, <1>2, <1>4, <2>1 DEF StampOK, TypeOK, Instance
  <2> QED
    BY <2>1, <2>3, <2>4, <2>5, <2>6 DEF IInv
<1>5. CASE /\ owner \notin {None, p} /\ ~ IsRefused(p) /\ TakeOver(p)
           /\ since' = [since EXCEPT ![p] = 0]
  <2>1. /\ owner' = p /\ age' = 0 /\ owned' = owned \cup {p}
        /\ displaced' = [q \in Instance |-> Entry(p, q)]
        /\ successors' = [q \in Instance |-> IF q = p \/ q \notin owned THEN {}
                                             ELSE successors[q] \cup {p}]
    BY <1>5 DEF TakeOver
  <2>2. p \in Instance /\ \A q \in Instance : Entry(p, q) \in 0 .. DISPLACED_KEEP
    BY <1>2, <1>5, EntryCases DEF Instance
  <2>3. successors' \in [Instance -> SUBSET Instance]
    BY <1>2, <2>1, <2>2 DEF TypeOK
  <2>4. TypeOK'
    BY <1>1, <1>2, <1>5, <2>1, <2>2, <2>3 DEF TypeOK, LongAgo
  <2>5. ListOK' /\ PlaceOK' /\ Remembered'
    BY <1>2, <1>5, TakeOverPlaces
  <2>6. StampOK'
    BY <1>1, <1>2, <1>5, <2>1, <2>2 DEF StampOK, TypeOK, Instance
  <2> QED
    BY <2>4, <2>5, <2>6 DEF IInv
<1> QED
  BY <1>2, <1>3, <1>4, <1>5, ClaimPollCases

\* Time passes alike for the stamp and for the owner's last poll.
LEMMA TickStep ==
    ASSUME IInv, Tick
    PROVE  IInv'
<1> USE InstanceAssumption DEF LongAgo, Later, Instance
<1>1. TypeOK'
  BY DEF Tick, IInv, TypeOK, procVars
<1>2. ListOK' /\ PlaceOK' /\ Remembered'
  BY DEF Tick, IInv, ListOK, PlaceOK, NewerThan, Remembered
<1>3. StampOK'
  BY DEF Tick, IInv, StampOK, TypeOK
<1> QED
  BY <1>1, <1>2, <1>3 DEF IInv

\* Every step keeps the invariant.
LEMMA IInvNext == IInv /\ [Next]_vars => IInv'
<1> SUFFICES ASSUME IInv, [Next]_vars PROVE IInv'
  OBVIOUS
<1>1. CASE \E p \in Process, c \in BOOLEAN :
             \/ Start(p, c) \/ Stop(p) \/ Reauthenticate(p) \/ RegisterRead(p)
             \/ RegisterCommit(p) \/ RegisterAnswer(p, c) \/ HeartbeatRead(p)
             \/ HeartbeatCommit(p) \/ HeartbeatAnswer(p, c)
  BY <1>1, ProcessSteps, ElsewhereKeeps DEF IInv
<1>2. CASE \E p \in Process : PollRead(p)
  BY <1>2, PollReadStep
<1>3. CASE \E p \in Process : ClaimPoll(p)
  BY <1>3, ClaimPollStep
<1>4. CASE Tick
  BY <1>4, TickStep
<1>5. CASE UNCHANGED vars
  <2>1. UNCHANGED <<rowVars, poll, history>>
    BY <1>5 DEF vars
  <2>2. TypeOK'
    BY <1>5 DEF IInv, TypeOK, vars, procVars, rowVars, history
  <2> QED
    BY <2>1, <2>2, ElsewhereKeeps DEF IInv
<1> QED
  BY <1>1, <1>2, <1>3, <1>4, <1>5 DEF Next

-----------------------------------------------------------------------------
(* Theorems.                                                               *)

\* The invariant holds in every reachable state.
LEMMA Invariance == Spec => []IInv
  BY IInvInit, IInvNext, PTL DEF Spec

\* The variables keep their types; in particular the displaced list never
\* outgrows DISPLACED_KEEP.
THEOREM TypeCorrect == Spec => []TypeOK
<1>1. IInv => TypeOK
  BY DEF IInv
<1> QED
  BY <1>1, Invariance, PTL

\* Every process that owned the server is remembered, until more than
\* DISPLACED_KEEP others have owned it since.
THEOREM OwnersRemembered == Spec => []Remembered
<1>1. IInv => Remembered
  BY DEF IInv
<1> QED
  BY <1>1, Invariance, PTL

\* Only claim_poll changes the owner.
LEMMA OwnerChanges ==
    ASSUME IInv, [Next]_vars, owner' # owner
    PROVE  \E p \in Process : ClaimPoll(p)
<1> USE DEF procVars, rowVars, history
<1>1. ASSUME NEW p \in Process, NEW c \in BOOLEAN,
             \/ Start(p, c) \/ Stop(p) \/ Reauthenticate(p) \/ RegisterRead(p)
             \/ RegisterCommit(p) \/ RegisterAnswer(p, c) \/ HeartbeatRead(p)
             \/ HeartbeatCommit(p) \/ HeartbeatAnswer(p, c)
      PROVE  FALSE
  BY <1>1, ProcessSteps DEF IInv
<1>2. ASSUME NEW p \in Process, PollRead(p)
      PROVE  FALSE
  BY <1>2 DEF PollRead
<1>3. CASE Tick
  BY <1>3 DEF Tick
<1>4. CASE UNCHANGED vars
  BY <1>4 DEF vars
<1> QED
  BY <1>1, <1>2, <1>3, <1>4 DEF Next

\* An owner that keeps polling is never mistaken for a departed one: it loses
\* the server only to a process that never had it, or after being silent.
THEOREM BusyOwnerKeeps == Spec => OwnerKeeps
<1>1. ASSUME IInv, [Next]_vars, owner' # owner, owner # None,
             owner' \in owned, ~ (Cardinality(successors[owner']) > DISPLACED_KEEP)
      PROVE  since[owner] > OWNER_GONE_AFTER - SEEN_REFRESH
  <2>1. PICK p \in Process : ClaimPoll(p)
    BY <1>1, OwnerChanges
  <2>2. owner \notin {None, p} /\ ~ IsRefused(p) /\ owner' = p
    BY <1>1, <2>1, ClaimPollCases DEF IInv, TakeOver, rowVars
  <2>3. TypeOK /\ Remembered /\ StampOK /\ owner \in Instance
    BY <1>1 DEF IInv, TypeOK
  <2>4. displaced[p] > 0
    BY <1>1, <2>2, <2>3 DEF Remembered
  <2>5. ~ (age =< OWNER_GONE_AFTER)
    BY <2>2, <2>4 DEF IsRefused, IsDisplaced, OwnerLive
  <2>6. age =< since[owner] + SEEN_REFRESH - 1
    BY <2>3 DEF StampOK
  <2> QED
    BY <2>3, <2>5, <2>6, InstanceAssumption DEF TypeOK, LongAgo
<1>2. IInv /\ [Next]_vars =>
        [owner' # owner /\ owner # None =>
            \/ owner' \notin owned
            \/ Cardinality(successors[owner']) > DISPLACED_KEEP
            \/ since[owner] > OWNER_GONE_AFTER - SEEN_REFRESH]_vars
  BY <1>1
<1> QED
  BY <1>2, Invariance, PTL DEF Spec, OwnerKeeps
=============================================================================
