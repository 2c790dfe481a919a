------------------------- MODULE DNSAgentApplyProofs -------------------------
(***************************************************************************)
(* Theorems about DNSAgentApply: its type invariant (with the size of the  *)
(* guard's file), CondemnedWaits and OkIsLive hold in every behaviour of   *)
(* Spec, for any set of bundles, finite or not, any choice of the bundles  *)
(* that kill or fail, any bound and any limit.                             *)
(*                                                                         *)
(* None of the three is inductive.  CondemnedWaits rests on Watched: a     *)
(* watched death is a counted one, but for the start that has not yet read *)
(* the marker.  OkIsLive rests on Live (an ok is about the structure the   *)
(* agent takes for live, _current_structural_etag) and on following that   *)
(* fingerprint through every step, the failed reloads included.            *)
(***************************************************************************)
EXTENDS DNSAgentApply, FiniteSetTheorems, TLAPS

\* The bundles the guard's file names.
Dead(count) == {b \in Bundle : count[b] > 0}

\* Finite, whatever Bundle is: Cardinality means nothing otherwise.
FileFinite == IsFiniteSet(Dead(deaths))

\* A bundle's watched deaths are counted ones, except for the last one before
\* startup has turned the marker into a count.
Watched ==
    \A b \in Bundle :
        observed[b] <= deaths[b] + (IF pc = "down" /\ armed = b THEN 1 ELSE 0)

\* Which applies are in flight where, and where they return to.
Phases ==
    /\ pc \in {"down", "launch"} => job = None
    /\ pc \in {"down", "load"} => currentStruct = None
    /\ pc = "load" /\ job # None =>
         job.ret = "launch" /\ current # None /\ ~HeldBack(current)
    /\ pc \in {"top", "ask"} /\ job # None => job.ret # "launch"
    /\ job # None /\ job.kind \in {"poll", "revert"} => job.ret = "top"
    /\ job # None /\ job.kind \in {"boot", "bootprev", "bootfall"} => pc = "load"

\* What the agent takes for live is live if anything is, and an ok is about it.
\* Before the daemon starts it is the structure of the tree it will start from.
Live ==
    /\ daemon \in Bundle /\ currentStruct # None => S(daemon) = currentStruct
    /\ status[1] = "ok" /\ status[2] # None =>
         currentStruct # None /\ S(status[2]) = currentStruct
    /\ pc = "launch" /\ currentStruct # None => tree # None /\ S(tree) = currentStruct

IInv == TypeOK /\ FileFinite /\ Watched /\ Phases /\ CondemnedWaits /\ Live

-----------------------------------------------------------------------------
(* Lemmas on the operators. *)

\* A choice is to apply nothing, or a bundle in one of the ways an apply has.
IsChoice(c) == c = NoChoice \/ (c = Choice(c.kind, c.bundle) /\ c.kind \in Kinds /\ c.bundle \in Bundle)

IsCache(c) == c.kind = "cache"

\* What tells the special values apart, and a bundle's structure from None.
LEMMA Values ==
    /\ None \notin Bundle /\ None \notin Struct
    /\ Half \notin MaybeBundle /\ Exited \notin MaybeBundle
    /\ \A b \in Bundle : S(b) \in Struct /\ S(b) # None
BY ConstantsAssumption DEF Bundle, S, MaybeBundle

\* No choice of an apply is the choice of none.
LEMMA ChoiceIsNone ==
    ASSUME NEW k \in Kinds, NEW b PROVE Choice(k, b) # NoChoice
BY DEF Choice, NoChoice, Kinds

\* _previous_usable answers for a bundle that is on disk and not condemned.
LEMMA UsableIsFine ==
    ASSUME TypeOK, NEW b, NEW early \in BOOLEAN, PreviousUsable(b, early)
    PROVE  previous \in Bundle /\ ~Condemned(previous)
BY Values DEF TypeOK, PreviousUsable, MaybeBundle

\* What _boot_hold_fallback applies: the held bundle or the last-known-good, and a
\* condemned one only as the cache once its backoff has run out.
LEMMA HoldChoices ==
    ASSUME TypeOK, NEW q, NEW failed, NEW c, c = HoldChoice(q, failed)
    PROVE  /\ IsChoice(c)
           /\ c # NoChoice => c.kind \in {"cache", "heldback", "holdprev"}
           /\ c # NoChoice /\ Condemned(c.bundle) => IsCache(c)
           /\ c # NoChoice /\ Condemned(c.bundle) => q.due
           /\ c # NoChoice /\ Condemned(c.bundle) =>
                Condemned(hold) /\ ~(previous # failed /\ PreviousUsable(hold, FALSE))
<1>1. hold = None \/ hold \in Bundle
  BY DEF TypeOK, MaybeBundle
<1>2. CASE hold = None \/ onPrevious
  <2>1. c = NoChoice
    BY <1>2 DEF HoldChoice
  <2> QED
    BY <2>1 DEF IsChoice
<1>3. CASE ~(hold = None \/ onPrevious) /\ ~Condemned(hold) /\ q.etag # hold
  <2>1. c = Choice(IF failed = None THEN "cache" ELSE "heldback", hold)
    BY <1>3 DEF HoldChoice
  <2>2. IsChoice(c) /\ c.kind \in {"cache", "heldback"} /\ c.bundle = hold
    BY <1>1, <1>3, <2>1 DEF IsChoice, Choice, Kinds
  <2>3. ~Condemned(c.bundle)
    BY <1>3, <2>2
  <2> QED
    BY <2>2, <2>3
<1>4. CASE /\ ~(hold = None \/ onPrevious) /\ (Condemned(hold) \/ q.etag = hold)
           /\ previous # failed /\ PreviousUsable(hold, FALSE)
  <2>1. c = Choice("holdprev", previous)
    BY <1>4 DEF HoldChoice
  <2>2. previous \in Bundle /\ ~Condemned(previous)
    BY <1>4, UsableIsFine
  <2>3. IsChoice(c) /\ c.kind = "holdprev" /\ c.bundle = previous
    BY <2>1, <2>2 DEF IsChoice, Choice, Kinds
  <2>4. ~Condemned(c.bundle)
    BY <2>2, <2>3
  <2> QED
    BY <2>3, <2>4
<1>5. CASE /\ ~(hold = None \/ onPrevious) /\ (Condemned(hold) \/ q.etag = hold)
           /\ ~(previous # failed /\ PreviousUsable(hold, FALSE))
  <2>1. CASE RetryDue(q)
    <3>1. c = Choice("cache", hold)
      BY <1>5, <2>1 DEF HoldChoice
    <3>2. IsChoice(c) /\ c.kind = "cache" /\ c.bundle = hold
      BY <1>1, <1>5, <3>1 DEF IsChoice, Choice, Kinds
    <3>3. Condemned(c.bundle) => Condemned(hold)
      BY <3>2
    <3> QED
      BY <1>5, <2>1, <3>2, <3>3 DEF RetryDue, IsCache
  <2>2. CASE ~RetryDue(q)
    <3>1. c = NoChoice
      BY <1>5, <2>2 DEF HoldChoice
    <3> QED
      BY <3>1 DEF IsChoice
  <2> QED
    BY <2>1, <2>2
<1> QED
  BY <1>2, <1>3, <1>4, <1>5

\* The hold's time limit never has a condemned bundle applied (_boot_hold_max_wait).
LEMMA MaxWaitChoices ==
    ASSUME TypeOK, NEW c, c = MaxWaitChoice
    PROVE  /\ IsChoice(c)
           /\ c # NoChoice => /\ c.kind \in {"cache", "heldback", "holdprev"}
                              /\ ~Condemned(c.bundle)
<1>1. CASE ~(waited = "over" /\ hold # None /\ (Condemned(hold) => PreviousUsable(hold, FALSE)))
  <2>1. c = NoChoice
    BY <1>1 DEF MaxWaitChoice
  <2> QED
    BY <2>1 DEF IsChoice
<1>2. CASE waited = "over" /\ hold # None /\ (Condemned(hold) => PreviousUsable(hold, FALSE))
  <2>1. c = HoldChoice(quarantine, None)
    BY <1>2 DEF MaxWaitChoice
  <2>2. /\ IsChoice(c)
        /\ c # NoChoice => c.kind \in {"cache", "heldback", "holdprev"}
    BY <2>1, HoldChoices
  <2>3. ASSUME c # NoChoice, Condemned(c.bundle) PROVE FALSE
    <3>1. Condemned(hold) /\ ~(previous # None /\ PreviousUsable(hold, FALSE))
      BY <2>1, <2>3, HoldChoices
    <3> QED
      BY <1>2, <3>1 DEF PreviousUsable
  <2> QED
    BY <2>2, <2>3
<1> QED
  BY <1>1, <1>2

\* What _guarded_apply's caller leaves, whether it applies something or goes on.
LEMMA ProceedStep ==
    ASSUME TypeOK, NEW c, IsChoice(c),
           NEW marker \in MaybeBundle, NEW etag \in MaybeBundle, NEW failed \in MaybeBundle,
           NEW then \in MaybeBundle \cup {Keep}, NEW ret \in {"launch", "top", "ask"},
           Proceed(c, marker, etag, failed, then, ret)
    PROVE  /\ job' \in Jobs \cup {None}
           /\ armed' \in MaybeBundle /\ currentEtag' \in MaybeBundle /\ applied' \in BOOLEAN
           /\ pc' \in {pc, ret}
           /\ \/ job' = None /\ pc' = ret
              \/ /\ c # NoChoice /\ pc' = pc
                 /\ job'.kind = c.kind /\ job'.bundle = c.bundle /\ job'.ret = ret
<1>1. CASE c = NoChoice
  <2>1. Return(marker, etag, then, ret)
    BY <1>1 DEF Proceed
  <2> QED
    BY <2>1 DEF Return, TypeOK, MaybeBundle
<1>2. CASE c # NoChoice
  <2>1. Begin(c, etag, failed, then, ret)
    BY <1>2 DEF Proceed
  <2>2. c.kind \in Kinds /\ c.bundle \in Bundle
    BY <1>2 DEF IsChoice
  <2> QED
    BY <1>2, <2>1, <2>2 DEF Begin, Jobs, MaybeBundle
<1> QED
  BY <1>1, <1>2

\* Counting a death of b, and forgetting the bundle Forgotten names, leaves at most
\* MAX_TRACKED bundles in the file.
LEMMA FileStaysSmall ==
    ASSUME NEW count \in [Bundle -> 0..DeathCap], IsFiniteSet(Dead(count)),
           Cardinality(Dead(count)) <= MAX_TRACKED,
           NEW b \in Bundle, NEW counted \in [Bundle -> 0..DeathCap],
           \A c \in Bundle : counted[c] = IF c = b THEN Plus(count[c]) ELSE count[c],
           NEW out \in Forgotten(counted, b), NEW after \in [Bundle -> 0..DeathCap],
           \A c \in Bundle : after[c] = IF c \in out THEN 0 ELSE counted[c]
    PROVE  /\ IsFiniteSet(Dead(after)) /\ Cardinality(Dead(after)) <= MAX_TRACKED
           /\ after[b] = Plus(count[b]) /\ after[b] > 0
           /\ \A c \in Bundle : after[c] \in {0, counted[c]}
<1> DEFINE O == Others(counted, b)
<1>0. MAX_TRACKED \in Nat \ {0} /\ DeathCap \in Nat \ {0}
  BY ConstantsAssumption
<1>1. /\ Plus(count[b]) \in 1..DeathCap
      /\ counted[b] = Plus(count[b])
      /\ \A c \in Bundle \ {b} : counted[c] = count[c]
  BY <1>0 DEF Plus
<1>2. O = Dead(count) \ {b}
  BY <1>1 DEF Others, Dead
<1>2a. O = Others(counted, b)
  OBVIOUS
<1> HIDE DEF O
<1>3. IsFiniteSet(O) /\ Cardinality(O) \in Nat /\ Cardinality(O) <= MAX_TRACKED /\ b \notin O
  <2>1. Cardinality(Dead(count)) \in Nat
    BY FS_CardinalityType
  <2>2. IsFiniteSet(O) /\ Cardinality(O) \in Nat /\ Cardinality(O) <= Cardinality(Dead(count))
    BY <1>2, FS_Subset, FS_CardinalityType
  <2> QED
    BY <1>0, <1>2, <2>1, <2>2
<1>4. b \notin out
  BY <1>2, <1>2a DEF Forgotten, Fewest
<1>5. after[b] = Plus(count[b]) /\ after[b] > 0 /\ \A c \in Bundle : after[c] \in {0, counted[c]}
  BY <1>0, <1>1, <1>4
<1>6. CASE Cardinality(O) < MAX_TRACKED
  <2>1. out = {}
    BY <1>2a, <1>6 DEF Forgotten
  <2>2. Dead(after) = O \cup {b}
    BY <1>1, <1>2a, <1>5, <2>1 DEF Dead, Others
  <2>3. IsFiniteSet(Dead(after)) /\ Cardinality(Dead(after)) = Cardinality(O) + 1
    BY <1>3, <2>2, FS_AddElement
  <2> QED
    BY <1>0, <1>3, <1>4, <1>5, <1>6, <2>3
<1>7. CASE ~(Cardinality(O) < MAX_TRACKED)
  <2>1. PICK c \in O : out = {c}
    BY <1>2a, <1>7 DEF Forgotten, Fewest
  <2>2. Dead(after) = (O \ {c}) \cup {b}
    BY <1>1, <1>2a, <1>4, <1>5, <2>1 DEF Dead, Others
  <2>3. IsFiniteSet(O \ {c}) /\ Cardinality(O \ {c}) = Cardinality(O) - 1
    BY <1>3, <2>1, FS_RemoveElement
  <2>4. IsFiniteSet(Dead(after)) /\ Cardinality(Dead(after)) = Cardinality(O)
    <3> DEFINE P == O \ {c}
    <3>1. b \notin P /\ IsFiniteSet(P) /\ Cardinality(P) = Cardinality(O) - 1 /\ Dead(after) = P \cup {b}
      BY <1>3, <2>2, <2>3
    <3> HIDE DEF P
    <3>2. IsFiniteSet(P \cup {b}) /\ Cardinality(P \cup {b}) = Cardinality(P) + 1
      BY <3>1, FS_AddElement
    <3> QED
      BY <1>3, <3>1, <3>2
  <2> QED
    BY <1>3, <1>4, <1>5, <2>4
<1> QED
  BY <1>6, <1>7

\* With no marker a watched death is a counted one, so a condemned bundle is held back.
LEMMA CondemnedHeldBack ==
    ASSUME TypeOK, Watched, pc # "down", NEW b \in Bundle, Condemned(b)
    PROVE  HeldBack(b)
<1>1. observed[b] <= deaths[b] /\ observed[b] \in Int /\ deaths[b] \in Int
  BY DEF TypeOK, Watched
<1> QED
  BY <1>1, ConstantsAssumption DEF Condemned, HeldBack

-----------------------------------------------------------------------------
(* The inductive invariant. *)

\* The process and the daemon are gone; the marker stays, or was removed.
LEMMA DownStep ==
    ASSUME IInv, Down, armed' \in {armed, None}, UNCHANGED <<served, cp>>, events' \in 0..MaxEvents,
           observed' \in [Bundle -> 0..DeathCap],
           \A b \in Bundle : observed'[b] <= deaths[b] + (IF armed' = b THEN 1 ELSE 0)
    PROVE  IInv'
<1>1. TypeOK'
  BY DEF IInv, TypeOK, Down, MaybeBundle, Verdict
<1>2. FileFinite'
  BY DEF IInv, FileFinite, Dead, Down
<1>3. Watched'
  BY DEF IInv, Watched, Down
<1>4. Phases' /\ CondemnedWaits' /\ Live'
  BY Values DEF IInv, Phases, CondemnedWaits, Live, Down
<1> QED
  BY <1>1, <1>2, <1>3, <1>4 DEF IInv

LEMMA IInvInit == Init => IInv
<1> SUFFICES ASSUME Init PROVE IInv
  OBVIOUS
<1>1. Dead(deaths) = {}
  BY DEF Init, Dead
<1>2. FileFinite /\ Cardinality(Dead(deaths)) = 0
  BY <1>1, FS_EmptySet DEF FileFinite
<1>3. TypeOK
  <2>1. deaths \in [Bundle -> 0..DeathCap] /\ observed \in [Bundle -> 0..DeathCap]
    BY ConstantsAssumption DEF Init
  <2>2. Cardinality({b \in Bundle : deaths[b] > 0}) <= MAX_TRACKED
    BY <1>2, ConstantsAssumption DEF Dead
  <2>3. events \in 0..MaxEvents
    BY ConstantsAssumption DEF Init
  <2> QED
    BY <2>1, <2>2, <2>3 DEF Init, TypeOK, MaybeBundle, NoQuarantine, Verdict
<1>4. Watched /\ Phases /\ CondemnedWaits /\ Live
  BY DEF Init, Watched, Phases, CondemnedWaits, Live
<1> QED
  BY <1>2, <1>3, <1>4 DEF IInv

\* Counting an event, or not, keeps the count within its bound.
LEMMA EventStep ==
    ASSUME TypeOK, Event \/ UNCHANGED events PROVE events' \in 0..MaxEvents
BY ConstantsAssumption DEF Event, TypeOK

\* The guard's part of the invariant: it changes with deaths, observed, armed, pc.
LEMMA GuardKept ==
    ASSUME IInv, UNCHANGED <<deaths, observed>>, pc # "down", pc' # "down"
    PROVE  FileFinite' /\ Watched'
BY DEF IInv, FileFinite, Watched, Dead, TypeOK

\* Startup, and what of an apply it precedes.
LEMMA BootStep == ASSUME IInv, Boot PROVE IInv'
<1> USE DEF IInv
<1>1. CASE Startup
  <2>0. job = None /\ job' = None /\ currentStruct = None /\ pc' = "load" /\ armed' = None
    BY <1>1 DEF Startup, Phases
  <2>1. /\ deaths' \in [Bundle -> 0..DeathCap] /\ IsFiniteSet(Dead(deaths'))
        /\ Cardinality(Dead(deaths')) <= MAX_TRACKED
        /\ observed' \in [Bundle -> 0..DeathCap]
        /\ \A b \in Bundle : observed'[b] <= deaths'[b]
    <3>1. CASE armed = None
      BY <1>1, <3>1, Values DEF Startup, TypeOK, FileFinite, Watched, Dead
    <3>2. CASE armed # None
      <4> DEFINE counted == [deaths EXCEPT ![armed] = Plus(@)]
      <4>1. PICK out \in Forgotten(counted, armed) :
              /\ deaths' = [b \in Bundle |-> IF b \in out THEN 0 ELSE counted[b]]
              /\ observed' = [b \in Bundle |-> IF deaths'[b] = 0 THEN 0 ELSE observed[b]]
        BY <1>1, <3>2 DEF Startup
      <4>2. armed \in Bundle
        BY <3>2 DEF TypeOK, MaybeBundle
      <4>3. /\ deaths \in [Bundle -> 0..DeathCap] /\ observed \in [Bundle -> 0..DeathCap]
            /\ IsFiniteSet(Dead(deaths)) /\ Cardinality(Dead(deaths)) <= MAX_TRACKED
        BY DEF TypeOK, FileFinite, Dead
      <4>4. /\ deaths' \in [Bundle -> 0..DeathCap]
            /\ IsFiniteSet(Dead(deaths')) /\ Cardinality(Dead(deaths')) <= MAX_TRACKED
            /\ deaths'[armed] = Plus(deaths[armed])
            /\ \A c \in Bundle : deaths'[c] \in {0, counted[c]}
        <5>1. /\ counted \in [Bundle -> 0..DeathCap]
              /\ \A c \in Bundle : counted[c] = IF c = armed THEN Plus(deaths[c]) ELSE deaths[c]
          BY <4>2, <4>3, ConstantsAssumption DEF Plus
        <5>2. /\ deaths' \in [Bundle -> 0..DeathCap]
              /\ \A c \in Bundle : deaths'[c] = IF c \in out THEN 0 ELSE counted[c]
          BY <4>1, <5>1, ConstantsAssumption
        <5> HIDE DEF counted
        <5> QED
          BY <4>1, <4>2, <4>3, <5>1, <5>2, FileStaysSmall
      <4>5. observed' \in [Bundle -> 0..DeathCap]
        BY <4>1, <4>3, ConstantsAssumption
      <4>6. ASSUME NEW b \in Bundle PROVE observed'[b] <= deaths'[b]
        <5>1. observed[b] <= deaths[b] + (IF armed = b THEN 1 ELSE 0)
          BY <1>1 DEF Startup, Watched
        <5>2. deaths'[b] # 0 => deaths'[b] = IF b = armed THEN Plus(deaths[b]) ELSE deaths[b]
          BY <4>2, <4>3, <4>4
        <5>3. observed'[b] = IF deaths'[b] = 0 THEN 0 ELSE observed[b]
          BY <4>1
        <5> QED
          BY <4>3, <4>4, <5>1, <5>2, <5>3, ConstantsAssumption DEF Plus
      <4> QED
        BY <4>4, <4>5, <4>6
    <3> QED
      BY <3>1, <3>2
  <2>2. TypeOK'
    BY <1>1, <2>0, <2>1 DEF Startup, TypeOK, Dead, world, MaybeBundle
  <2>3. FileFinite' /\ Watched'
    BY <2>0, <2>1 DEF FileFinite, Watched
  <2>4. Phases' /\ CondemnedWaits' /\ Live'
    BY <1>1, <2>0 DEF Startup, Phases, CondemnedWaits, Live, world
  <2> QED
    BY <2>2, <2>3, <2>4
<1>2. CASE HoldCache
  <2>0. job = None /\ pc = "load"
    BY <1>2 DEF HoldCache, Phases
  <2>1. TypeOK'
    BY <1>2 DEF HoldCache, QuarantineHeld, Record, TypeOK, world, MaybeBundle, Verdict
  <2>2. FileFinite' /\ Watched'
    BY <1>2, GuardKept DEF HoldCache
  <2>3. Phases' /\ CondemnedWaits' /\ Live'
    BY <1>2, <2>0 DEF HoldCache, Phases, CondemnedWaits, Live, world
  <2> QED
    BY <2>1, <2>2, <2>3
<1>3. CASE ApplyCache
  <2>0. /\ current \in Bundle /\ ~HeldBack(current) /\ ~Condemned(current)
        /\ pc = "load" /\ pc' = "load"
    BY <1>3, CondemnedHeldBack DEF ApplyCache, TypeOK, MaybeBundle, Begin
  <2>1. /\ BootChoice.kind \in {"boot", "bootprev"} /\ BootChoice.bundle \in Bundle
        /\ ~Condemned(BootChoice.bundle)
        /\ BootChoice.kind = "bootprev" => previous \in Bundle
    <3>1. CASE Blocks(quarantine, current, None) /\ PreviousUsable(current, TRUE)
      <4>1. BootChoice = Choice("bootprev", previous)
        BY <3>1 DEF BootChoice
      <4>2. previous \in Bundle /\ ~Condemned(previous)
        BY <3>1, UsableIsFine
      <4>3. BootChoice.kind = "bootprev" /\ BootChoice.bundle = previous
        BY <4>1 DEF Choice
      <4> QED
        BY <4>2, <4>3
    <3>2. CASE ~(Blocks(quarantine, current, None) /\ PreviousUsable(current, TRUE))
      <4>1. BootChoice = Choice("boot", current)
        BY <3>2 DEF BootChoice
      <4>2. BootChoice.kind = "boot" /\ BootChoice.bundle = current
        BY <4>1 DEF Choice
      <4> QED
        BY <2>0, <4>2
    <3> QED
      BY <3>1, <3>2
  <2>2. /\ job' \in Jobs /\ job'.kind \in {"boot", "bootprev"} /\ ~Condemned(job'.bundle)
        /\ job'.ret = "launch" /\ armed' \in Bundle /\ currentEtag' \in Bundle /\ applied' = FALSE
    BY <1>3, <2>1 DEF ApplyCache, Begin, Jobs, Kinds, MaybeBundle
  <2>3. TypeOK'
    <3>1. status' \in Verdict \X MaybeBundle
      BY <1>3, <2>1 DEF ApplyCache, TypeOK, MaybeBundle, Verdict
    <3>2. {current, previous, tree, armed, hold, died, currentEtag}' \subseteq MaybeBundle
      BY <1>3, <2>2 DEF ApplyCache, TypeOK, MaybeBundle
    <3>3. /\ (job \in Jobs \cup {None} /\ pc \in {"down", "load", "launch", "top", "ask"})'
          /\ applied' \in BOOLEAN
      BY <2>0, <2>2
    <3> QED
      BY <1>3, <3>1, <3>2, <3>3 DEF ApplyCache, TypeOK, Jobs, Kinds, world
  <2>4. FileFinite' /\ Watched'
    BY <1>3, <2>0, GuardKept DEF ApplyCache
  <2>5. Phases' /\ Live'
    BY <1>3, <2>0, <2>1, <2>2 DEF ApplyCache, Phases, Live, world, HeldBack
  <2>6. CondemnedWaits'
    BY <1>3, <2>2 DEF ApplyCache, CondemnedWaits, Condemned
  <2> QED
    BY <2>3, <2>4, <2>5, <2>6
<1>4. CASE NoCache
  <2>0. job = None
    BY <1>4 DEF NoCache, Phases
  <2>1. TypeOK'
    BY <1>4 DEF NoCache, TypeOK, world, disk, MaybeBundle
  <2>2. FileFinite' /\ Watched'
    BY <1>4, GuardKept DEF NoCache, disk
  <2>3. Phases' /\ CondemnedWaits' /\ Live'
    BY <1>4, <2>0 DEF NoCache, Phases, CondemnedWaits, Live, world, disk
  <2> QED
    BY <2>1, <2>2, <2>3
<1>5. CASE StartDaemon
  <2>0. job = None
    BY <1>5 DEF StartDaemon, Phases
  <2>1. TypeOK'
    BY <1>5 DEF StartDaemon, TypeOK, world, disk, MaybeBundle
  <2>2. FileFinite' /\ Watched'
    BY <1>5, GuardKept DEF StartDaemon, disk
  <2>3. Phases' /\ CondemnedWaits' /\ Live'
    BY <1>5, <2>0, Values DEF StartDaemon, Phases, CondemnedWaits, Live, world, disk, TypeOK, MaybeBundle
  <2> QED
    BY <2>1, <2>2, <2>3
<1> QED
  BY <1>1, <1>2, <1>3, <1>4, <1>5 DEF Boot

\* What every handler that may apply a bundle keeps, given what its choice promises.
LEMMA ProceedKeeps ==
    ASSUME IInv, NEW c, IsChoice(c),
           NEW marker \in MaybeBundle, NEW etag \in MaybeBundle, NEW failed \in MaybeBundle,
           NEW then \in MaybeBundle \cup {Keep}, NEW ret \in {"launch", "top", "ask"},
           Proceed(c, marker, etag, failed, then, ret),
           UNCHANGED <<deaths, observed>>, pc \in {"load", "top", "ask"},
           pc = "load" => /\ ret = "launch" /\ current # None /\ ~HeldBack(current)
                          /\ current' = current /\ currentStruct' = None,
           pc # "load" => ret # "launch",
           c # NoChoice /\ c.kind \in {"poll", "revert"} => ret = "top",
           c # NoChoice /\ c.kind \in {"boot", "bootprev", "bootfall"} => pc = "load",
           c # NoChoice /\ Condemned(c.bundle) /\ c.kind # "poll"
             => c.kind = "cache" /\ ret = "top" /\ quarantine'.due
    PROVE  FileFinite' /\ Watched' /\ Phases' /\ CondemnedWaits'
<1>0. TypeOK
  BY DEF IInv
<1>1. /\ pc' \in {pc, ret}
      /\ \/ job' = None /\ pc' = ret
         \/ /\ c # NoChoice /\ pc' = pc
            /\ job'.kind = c.kind /\ job'.bundle = c.bundle /\ job'.ret = ret
  BY <1>0, ProceedStep
<1>2. FileFinite' /\ Watched'
  BY <1>1, GuardKept
<1>3. Phases'
  BY <1>1 DEF Phases, HeldBack
<1>4. CondemnedWaits'
  BY <1>1 DEF CondemnedWaits, Condemned
<1> QED
  BY <1>2, <1>3, <1>4

\* A poll: the hold's time limit, the request and its answer.
LEMMA PollStep == ASSUME IInv, Poll PROVE IInv'
<1> USE DEF IInv
<1>0. /\ armed \in MaybeBundle /\ currentEtag \in MaybeBundle /\ served \in MaybeBundle
      /\ None \in MaybeBundle /\ IfNoneMatch \in MaybeBundle
  BY DEF TypeOK, MaybeBundle, IfNoneMatch
<1>1. CASE TopOfPoll
  <2> DEFINE c == MaxWaitChoice
  <2>1. /\ IsChoice(c)
        /\ c # NoChoice => c.kind \in {"cache", "heldback", "holdprev"} /\ ~Condemned(c.bundle)
    BY MaxWaitChoices
  <2>2. Proceed(c, armed, currentEtag, None, Keep, "ask") /\ pc = "top"
    BY <1>1 DEF TopOfPoll
  <2> HIDE DEF c
  <2>3. /\ job' \in Jobs \cup {None} /\ pc' \in {"top", "ask"}
        /\ armed' \in MaybeBundle /\ currentEtag' \in MaybeBundle /\ applied' \in BOOLEAN
    BY <1>0, <2>1, <2>2, ProceedStep
  <2>4. FileFinite' /\ Watched' /\ Phases' /\ CondemnedWaits'
    BY <1>0, <1>1, <2>1, <2>2, ProceedKeeps DEF TopOfPoll
  <2>5. TypeOK'
    BY <1>1, <2>3 DEF TopOfPoll, TypeOK, Jobs, Kinds, world
  <2>6. Live'
    BY <1>1, <2>3 DEF TopOfPoll, Live, world
  <2> QED
    BY <2>4, <2>5, <2>6
<1>2. CASE AskFails
  <2> DEFINE c == HoldChoice(quarantine, None)
  <2>0. c = HoldChoice(quarantine, None)
    OBVIOUS
  <2>2. PICK then \in {Keep, None} : Proceed(c, armed, IfNoneMatch, None, then, "top")
    BY <1>2 DEF AskFails
  <2> HIDE DEF c
  <2>1. /\ IsChoice(c)
        /\ c # NoChoice => c.kind \in {"cache", "heldback", "holdprev"}
        /\ c # NoChoice /\ Condemned(c.bundle) => c.kind = "cache"
        /\ c # NoChoice /\ Condemned(c.bundle) => quarantine.due
    <3>1. /\ IsChoice(c)
          /\ c # NoChoice => c.kind \in {"cache", "heldback", "holdprev"}
          /\ c # NoChoice /\ Condemned(c.bundle) => IsCache(c)
          /\ c # NoChoice /\ Condemned(c.bundle) => quarantine.due
      BY <2>0, HoldChoices
    <3> QED
      BY <3>1 DEF IsCache
  <2>3. /\ job' \in Jobs \cup {None} /\ pc' \in {"top", "ask"}
        /\ armed' \in MaybeBundle /\ currentEtag' \in MaybeBundle /\ applied' \in BOOLEAN
    BY <1>0, <1>2, <2>1, <2>2, ProceedStep DEF AskFails
  <2>4. FileFinite' /\ Watched' /\ Phases' /\ CondemnedWaits'
    BY <1>0, <1>2, <2>1, <2>2, ProceedKeeps DEF AskFails
  <2>5. TypeOK'
    BY <1>2, <2>3 DEF AskFails, Answered, TypeOK, Jobs, Kinds, world
  <2>6. Live'
    BY <1>2, <2>3 DEF AskFails, Live, world
  <2> QED
    BY <2>4, <2>5, <2>6
<1>3. CASE AskNothing
  <2>1. TypeOK'
    BY <1>0, <1>3 DEF AskNothing, Answered, TypeOK, world, disk
  <2>2. FileFinite' /\ Watched'
    BY <1>3, GuardKept DEF AskNothing, disk
  <2>3. Phases' /\ CondemnedWaits' /\ Live'
    BY <1>3 DEF AskNothing, Phases, CondemnedWaits, Live, world, disk
  <2> QED
    BY <2>1, <2>2, <2>3
<1>4. CASE AskRecords
  <2>1. TypeOK'
    <3>1. status' \in Verdict \X MaybeBundle
      BY <1>0, <1>4 DEF AskRecords, TypeOK, Verdict
    <3>2. {current, previous, tree, armed, hold, died, currentEtag}' \subseteq MaybeBundle
      BY <1>0, <1>4 DEF AskRecords, Bundle200, TypeOK
    <3>3. quarantine' \in [etag : MaybeBundle, structural : Struct \cup {None}, due : BOOLEAN]
      BY <1>0, <1>4 DEF AskRecords, Bundle200, QuarantineFor, NoQuarantine, TypeOK
    <3> QED
      BY <1>4, <3>1, <3>2, <3>3 DEF AskRecords, TypeOK, world
  <2>2. FileFinite' /\ Watched'
    BY <1>4, GuardKept DEF AskRecords, Bundle200
  <2>3. Phases' /\ CondemnedWaits'
    BY <1>4 DEF AskRecords, Bundle200, Phases, CondemnedWaits
  <2>4. Live'
    BY <1>4, Values DEF AskRecords, Live, TypeOK, world
  <2> QED
    BY <2>1, <2>2, <2>3, <2>4
<1>5. CASE AskQuarantined
  <2> DEFINE c == HoldChoice(QuarantineFor(served), None)
  <2>1. /\ IsChoice(c)
        /\ c # NoChoice => c.kind \in {"cache", "heldback", "holdprev"}
        /\ c # NoChoice /\ Condemned(c.bundle) => QuarantineFor(served).due
    BY HoldChoices
  <2>2. Proceed(c, armed, IfNoneMatch, None, served, "top") /\ pc = "ask"
    BY <1>5 DEF AskQuarantined, Bundle200
  <2>3. c # NoChoice => ~Condemned(c.bundle)
    BY <1>5, <2>1 DEF AskQuarantined, Blocks
  <2> HIDE DEF c
  <2>4. /\ job' \in Jobs \cup {None} /\ pc' \in {"top", "ask"}
        /\ armed' \in MaybeBundle /\ currentEtag' \in MaybeBundle /\ applied' \in BOOLEAN
    BY <1>0, <2>1, <2>2, ProceedStep
  <2>5. FileFinite' /\ Watched' /\ Phases' /\ CondemnedWaits'
    BY <1>0, <1>5, <2>1, <2>2, <2>3, ProceedKeeps DEF AskQuarantined
  <2>6. TypeOK'
    <3>1. {current, previous, tree, armed, hold, died, currentEtag}' \subseteq MaybeBundle
      BY <1>0, <1>5, <2>4 DEF AskQuarantined, Bundle200, TypeOK
    <3>2. quarantine' \in [etag : MaybeBundle, structural : Struct \cup {None}, due : BOOLEAN]
      BY <1>0, <1>5 DEF AskQuarantined, Bundle200, QuarantineFor, NoQuarantine, TypeOK
    <3> QED
      BY <1>5, <2>4, <3>1, <3>2 DEF AskQuarantined, Answered, TypeOK, Jobs, Kinds, world
  <2>7. Live'
    BY <1>5, <2>4 DEF AskQuarantined, Live, world
  <2> QED
    BY <2>5, <2>6, <2>7
<1>6. CASE AskApply
  <2> DEFINE c == Choice("poll", served)
  <2>1. IsChoice(c) /\ c.kind = "poll" /\ c # NoChoice
    BY DEF IsChoice, Choice, Kinds, TypeOK, NoChoice
  <2>2. Proceed(c, armed, IfNoneMatch, None, served, "top") /\ pc = "ask"
    BY <1>6, <2>1 DEF AskApply, Bundle200, Proceed
  <2> HIDE DEF c
  <2>4. /\ job' \in Jobs \cup {None} /\ pc' \in {"top", "ask"}
        /\ armed' \in MaybeBundle /\ currentEtag' \in MaybeBundle /\ applied' \in BOOLEAN
    BY <1>0, <2>1, <2>2, ProceedStep
  <2>5. FileFinite' /\ Watched' /\ Phases' /\ CondemnedWaits'
    BY <1>0, <1>6, <2>1, <2>2, ProceedKeeps DEF AskApply
  <2>6. TypeOK'
    <3>1. {current, previous, tree, armed, hold, died, currentEtag}' \subseteq MaybeBundle
      BY <1>0, <1>6, <2>4 DEF AskApply, Bundle200, TypeOK
    <3>2. quarantine' \in [etag : MaybeBundle, structural : Struct \cup {None}, due : BOOLEAN]
      BY <1>0, <1>6 DEF AskApply, Bundle200, QuarantineFor, NoQuarantine, TypeOK
    <3> QED
      BY <1>6, <2>4, <3>1, <3>2 DEF AskApply, Answered, TypeOK, Jobs, Kinds, world
  <2>7. Live'
    BY <1>6, <2>4 DEF AskApply, Live, world
  <2> QED
    BY <2>5, <2>6, <2>7
<1> QED
  BY <1>1, <1>2, <1>3, <1>4, <1>5, <1>6 DEF Poll, Ask

\* The end of an apply that works: what went live is what the agent takes for live.
LEMMA ApplyOkStep == ASSUME IInv, ApplyOk PROVE IInv'
<1> USE DEF IInv
<1>0. /\ job \in Jobs /\ job.bundle \in Bundle /\ job.ret \in {"launch", "top", "ask"}
      /\ pc \in {"load", "top", "ask"}
  BY DEF ApplyOk, TypeOK, Jobs, Kinds, Phases
<1>1. TypeOK'
  <2>1. status' \in Verdict \X MaybeBundle /\ previous' \in MaybeBundle
    BY <1>0 DEF ApplyOk, Reported, TypeOK, Verdict, MaybeBundle
  <2>2. currentEtag' \in MaybeBundle /\ hold' \in MaybeBundle
    BY <1>0 DEF ApplyOk, TypeOK, Jobs, MaybeBundle
  <2>3. {current, previous, tree, armed, hold, died, currentEtag}' \subseteq MaybeBundle
    BY <1>0, <2>1, <2>2 DEF ApplyOk, TypeOK, MaybeBundle
  <2>4. /\ quarantine' \in [etag : MaybeBundle, structural : Struct \cup {None}, due : BOOLEAN]
        /\ currentStruct' \in Struct \cup {None}
        /\ waited' \in {"no", "some", "over"} /\ onPrevious' \in BOOLEAN
        /\ daemon' \in MaybeBundle \cup {Half, Exited}
    BY <1>0, Values DEF ApplyOk, TypeOK, NoQuarantine, MaybeBundle
  <2> QED
    BY <1>0, <2>1, <2>3, <2>4 DEF ApplyOk, TypeOK, world
<1>2. FileFinite' /\ Watched'
  BY <1>0, GuardKept DEF ApplyOk
<1>3. Phases' /\ CondemnedWaits'
  BY <1>0 DEF ApplyOk, Phases, CondemnedWaits
<1>4. Live'
  BY <1>0, Values DEF ApplyOk, Reported, Live
<1> QED
  BY <1>1, <1>2, <1>3, <1>4

\* The end of an apply that fails, whatever it was.
LEMMA RefusedStep == ASSUME IInv, Refused PROVE IInv'
<1> USE DEF IInv
<1>0. /\ job \in Jobs /\ job # None /\ job.bundle \in Bundle /\ S(job.bundle) \in Struct
      /\ job.ret \in {"launch", "top", "ask"} /\ job.failed \in MaybeBundle
      /\ job.then \in MaybeBundle \cup {Keep}
      /\ pc \in {"load", "top", "ask"} /\ None \in MaybeBundle /\ job.bundle \in MaybeBundle
      /\ currentEtag \in MaybeBundle
  BY Values DEF Refused, TypeOK, Jobs, Kinds, Phases, MaybeBundle
<1>1. /\ pc = "load" => job.ret = "launch" /\ current # None /\ ~HeldBack(current) /\ currentStruct = None
      /\ pc # "load" => job.ret # "launch"
      /\ job.kind \in {"poll", "revert"} => job.ret = "top"
      /\ job.kind \in {"boot", "bootprev", "bootfall"} => pc = "load"
  BY <1>0 DEF Phases
<1>2. events' \in 0..MaxEvents /\ UNCHANGED <<served, cp>>
  BY EventStep DEF Refused, Fault, world
<1>3. PICK reload \in BOOLEAN : ApplyFails(reload)
  BY DEF Refused
<1>4. /\ tree' \in MaybeBundle /\ daemon' \in MaybeBundle \cup {Half, Exited}
      /\ daemon' = daemon \/ daemon' \notin Bundle
  BY <1>0, <1>3, Values DEF ApplyFails, Disturbs, TypeOK, MaybeBundle
<1>5. /\ UNCHANGED <<current, previous, deaths, observed, died, hold, onPrevious, waited>>
      /\ tree' \in {tree, job.bundle}
  BY <1>3 DEF ApplyFails, Disturbs
\* What is common to the four outcomes: the choice made and the verdict.
<1>6. ASSUME NEW c, IsChoice(c), NEW failed \in MaybeBundle,
             Proceed(c, None, currentEtag, failed, job.then, job.ret),
             c # NoChoice => c.kind \in Kinds \ {"boot", "bootprev", "poll"},
             c # NoChoice /\ c.kind = "revert" => job.ret = "top",
             c # NoChoice /\ c.kind = "bootfall" => pc = "load",
             c # NoChoice /\ Condemned(c.bundle)
               => c.kind = "cache" /\ job.ret = "top" /\ quarantine'.due,
             quarantine' \in [etag : MaybeBundle, structural : Struct \cup {None}, due : BOOLEAN],
             currentStruct' \in {None, currentStruct}, status' \in Verdict \X MaybeBundle,
             status'[1] = "ok" => status' = status /\ currentStruct' = currentStruct
      PROVE  IInv'
  <2>1. /\ job' \in Jobs \cup {None} /\ pc' \in {pc, job.ret}
        /\ armed' \in MaybeBundle /\ currentEtag' \in MaybeBundle /\ applied' \in BOOLEAN
    BY <1>0, <1>6, ProceedStep
  <2>2. FileFinite' /\ Watched' /\ Phases' /\ CondemnedWaits'
    BY <1>0, <1>1, <1>5, <1>6, ProceedKeeps
  <2>3. TypeOK'
    <3>1. {current, previous, tree, armed, hold, died, currentEtag}' \subseteq MaybeBundle
      BY <1>4, <1>5, <2>1 DEF TypeOK
    <3> QED
      BY <1>0, <1>2, <1>4, <1>5, <1>6, <2>1, <3>1 DEF TypeOK, Jobs, Kinds
  <2>4. Live'
    BY <1>0, <1>1, <1>4, <1>6, <2>1 DEF Live
  <2> QED
    BY <2>2, <2>3, <2>4
<1>7. CASE CacheFails
  <2> DEFINE usable == PreviousUsable(job.bundle, job.kind = "boot")
             fall == IF job.kind = "boot" THEN "bootfall" ELSE "cachefall"
             c == IF usable THEN Choice(fall, previous) ELSE NoChoice
  <2>1. /\ IsChoice(c)
        /\ c # NoChoice => c.kind \in {"bootfall", "cachefall"} /\ ~Condemned(c.bundle)
        /\ c # NoChoice /\ c.kind = "bootfall" => job.kind = "boot"
    <3>1. CASE usable
      <4>1. previous \in Bundle /\ ~Condemned(previous)
        BY <3>1, UsableIsFine
      <4>2. c.kind = fall /\ c.bundle = previous /\ c = Choice(c.kind, c.bundle)
        BY <3>1 DEF Choice
      <4> QED
        BY <4>1, <4>2 DEF IsChoice, Kinds
    <3>2. CASE ~usable
      BY <3>2 DEF IsChoice
    <3> QED
      BY <3>1, <3>2
  <2>2. Proceed(c, None, currentEtag, job.failed, job.then, job.ret)
    BY <1>7 DEF CacheFails
  <2>3. /\ quarantine' \in [etag : MaybeBundle, structural : Struct \cup {None}, due : BOOLEAN]
        /\ currentStruct' = currentStruct /\ status' \in {status, <<"no_previous", None>>}
    BY <1>0, <1>7 DEF CacheFails, Record
  <2> HIDE DEF usable, fall, c
  <2>4. status' \in Verdict \X MaybeBundle /\ (status'[1] = "ok" => status' = status)
    BY <2>3 DEF TypeOK, Verdict, MaybeBundle
  <2>5. IsChoice(c) /\ (c # NoChoice => c.kind \in Kinds \ {"boot", "bootprev", "poll"}
                                          /\ c.kind # "revert" /\ ~Condemned(c.bundle))
    BY <2>1 DEF IsChoice, Kinds
  <2> QED
    BY <1>0, <1>1, <1>6, <2>1, <2>2, <2>3, <2>4, <2>5
<1>8. CASE StandInFails
  <2>1. Proceed(NoChoice, None, currentEtag, job.failed, job.then, job.ret)
    BY <1>8 DEF StandInFails, Proceed, Return
  <2>2. status' \in Verdict \X MaybeBundle /\ status'[1] # "ok" /\ UNCHANGED <<quarantine, currentStruct>>
    BY <1>8 DEF StandInFails, Verdict, MaybeBundle
  <2>3. IsChoice(NoChoice) /\ quarantine \in [etag : MaybeBundle, structural : Struct \cup {None}, due : BOOLEAN]
    BY DEF IsChoice, TypeOK
  <2> QED
    BY <1>0, <1>6, <2>1, <2>2, <2>3
<1>9. CASE BundleFails(reload)
  <2> DEFINE usable == PreviousUsable(job.bundle, FALSE)
             c == IF usable /\ reload THEN Choice("revert", previous)
                    ELSE HoldChoice(quarantine', job.bundle)
  <2>1. /\ quarantine' = Record(job.bundle, S(job.bundle)) /\ job.ret = "top"
        /\ Proceed(c, None, currentEtag, job.bundle, job.then, job.ret)
        /\ currentStruct' = IF reload /\ ~usable THEN None ELSE currentStruct
        /\ status' = IF usable THEN (IF reload THEN status ELSE <<"reverted", previous>>)
                     ELSE <<"no_previous", None>>
    BY <1>1, <1>9 DEF BundleFails
  <2>2. /\ IsChoice(c)
        /\ c # NoChoice => c.kind \in {"revert", "cache", "heldback", "holdprev"} /\ ~Condemned(c.bundle)
    <3>1. CASE usable /\ reload
      <4>1. previous \in Bundle /\ ~Condemned(previous)
        BY <3>1, UsableIsFine
      <4>2. c.kind = "revert" /\ c.bundle = previous /\ c = Choice(c.kind, c.bundle)
        BY <3>1 DEF Choice
      <4> QED
        BY <4>1, <4>2 DEF IsChoice, Kinds
    <3>2. CASE ~(usable /\ reload)
      <4>1. c = HoldChoice(quarantine', job.bundle)
        BY <3>2
      <4>2. ~quarantine'.due
        BY <2>1 DEF Record
      <4> HIDE DEF c
      <4> QED
        BY <4>1, <4>2, HoldChoices
    <3> QED
      BY <3>1, <3>2
  <2>3. quarantine' \in [etag : MaybeBundle, structural : Struct \cup {None}, due : BOOLEAN]
    BY <1>0, <2>1 DEF Record
  <2>4. /\ currentStruct' \in {None, currentStruct} /\ status' \in Verdict \X MaybeBundle
        /\ status'[1] = "ok" => status' = status /\ currentStruct' = currentStruct
    <3> HIDE DEF usable
    <3> QED
      BY <2>1 DEF TypeOK, Verdict, MaybeBundle
  <2> HIDE DEF usable, c
  <2>5. c # NoChoice => c.kind \in Kinds \ {"boot", "bootprev", "bootfall", "poll"}
    BY <2>2 DEF Kinds
  <2> QED
    BY <1>0, <1>6, <2>1, <2>2, <2>3, <2>4, <2>5
<1>10. CASE RevertFails
  <2> DEFINE c == HoldChoice(quarantine, job.failed)
  <2>0. c = HoldChoice(quarantine, job.failed)
    OBVIOUS
  <2>1. /\ Proceed(c, None, currentEtag, job.failed, job.then, job.ret) /\ job.ret = "top"
        /\ quarantine' = quarantine /\ currentStruct' = None /\ status' = <<"revert_failed", None>>
    BY <1>1, <1>10 DEF RevertFails
  <2> HIDE DEF c
  <2>2. /\ IsChoice(c)
        /\ c # NoChoice => c.kind \in {"cache", "heldback", "holdprev"}
        /\ c # NoChoice /\ Condemned(c.bundle) => c.kind = "cache"
        /\ c # NoChoice /\ Condemned(c.bundle) => quarantine.due
    <3>1. /\ IsChoice(c)
          /\ c # NoChoice => c.kind \in {"cache", "heldback", "holdprev"}
          /\ c # NoChoice /\ Condemned(c.bundle) => IsCache(c)
          /\ c # NoChoice /\ Condemned(c.bundle) => quarantine.due
      BY <2>0, HoldChoices
    <3> QED
      BY <3>1 DEF IsCache
  <2>3. c # NoChoice => c.kind \in Kinds \ {"boot", "bootprev", "bootfall", "poll"} /\ c.kind # "revert"
    BY <2>2 DEF Kinds
  <2>4. /\ quarantine' \in [etag : MaybeBundle, structural : Struct \cup {None}, due : BOOLEAN]
        /\ status' \in Verdict \X MaybeBundle /\ status'[1] # "ok"
    BY <2>1 DEF TypeOK, Verdict, MaybeBundle
  <2> QED
    BY <1>0, <1>6, <2>1, <2>2, <2>3, <2>4
<1> QED
  BY <1>3, <1>7, <1>8, <1>9, <1>10 DEF ApplyFails

\* The settled bundle leaves the guard's file.
LEMMA SettleStep == ASSUME IInv, Settle PROVE IInv'
<1> USE DEF IInv
<1>0. armed \in Bundle /\ pc = "top" /\ job = None
  BY DEF Settle, TypeOK, MaybeBundle
<1>1. /\ deaths \in [Bundle -> 0..DeathCap] /\ observed \in [Bundle -> 0..DeathCap]
      /\ IsFiniteSet(Dead(deaths)) /\ Cardinality(Dead(deaths)) <= MAX_TRACKED
  BY DEF TypeOK, FileFinite, Dead
<1>2. /\ deaths' \in [Bundle -> 0..DeathCap] /\ observed' \in [Bundle -> 0..DeathCap]
      /\ \A b \in Bundle : deaths'[b] = IF b = armed THEN 0 ELSE deaths[b]
      /\ \A b \in Bundle : observed'[b] = IF b = armed THEN 0 ELSE observed[b]
  BY <1>0, <1>1, ConstantsAssumption DEF Settle
<1>3. IsFiniteSet(Dead(deaths')) /\ Cardinality(Dead(deaths')) <= MAX_TRACKED
  <2>1. Dead(deaths') \subseteq Dead(deaths)
    BY <1>2 DEF Dead
  <2>2. /\ IsFiniteSet(Dead(deaths')) /\ Cardinality(Dead(deaths')) <= Cardinality(Dead(deaths))
        /\ Cardinality(Dead(deaths)) \in Nat /\ Cardinality(Dead(deaths')) \in Nat
    BY <1>1, <2>1, FS_Subset, FS_CardinalityType
  <2> QED
    BY <1>1, <2>2, ConstantsAssumption
<1>4. TypeOK'
  <2>1. quarantine' \in [etag : MaybeBundle, structural : Struct \cup {None}, due : BOOLEAN]
    BY DEF Settle, TypeOK, NoQuarantine, MaybeBundle
  <2>2. {current, previous, tree, armed, hold, died, currentEtag}' \subseteq MaybeBundle
    BY DEF Settle, TypeOK, MaybeBundle
  <2> QED
    BY <1>2, <1>3, <2>1, <2>2 DEF Settle, TypeOK, Dead, world
<1>5. FileFinite' /\ Watched'
  <2>1. \A b \in Bundle : observed[b] <= deaths[b]
    BY <1>0, <1>1 DEF Watched
  <2>2. pc' = "top"
    BY <1>0 DEF Settle
  <2> QED
    BY <1>1, <1>2, <1>3, <2>1, <2>2 DEF FileFinite, Watched
<1>6. Phases' /\ CondemnedWaits' /\ Live'
  BY <1>0 DEF Settle, Phases, CondemnedWaits, Live
<1> QED
  BY <1>4, <1>5, <1>6

\* The ways the process, or the daemon alone, ends.
LEMMA DeathStep ==
    ASSUME IInv, \/ DaemonKilled \/ ContainerKilled \/ SupervisorExits
                 \/ PowerCut \/ OrderlyExit \/ DaemonCrashes
    PROVE  IInv'
<1>0. TypeOK /\ Watched
  BY DEF IInv
<1>1. \A b \in Bundle : /\ observed[b] \in 0..DeathCap /\ deaths[b] \in 0..DeathCap
                        /\ observed[b] <= deaths[b] + (IF armed = b THEN 1 ELSE 0)
                        /\ pc # "down" => observed[b] <= deaths[b]
  BY <1>0, ConstantsAssumption DEF Watched, TypeOK
<1>2. observed \in [Bundle -> 0..DeathCap] /\ armed \in MaybeBundle
  BY <1>0 DEF TypeOK
<1>3. CASE DaemonKilled \/ DaemonCrashes
  <2>0. /\ daemon' = Exited /\ events' \in 0..MaxEvents
        /\ UNCHANGED <<disk, memory, served, cp>>
    BY <1>0, <1>3, EventStep DEF DaemonKilled, DaemonCrashes, Fault, world
  <2>1. TypeOK'
    BY <1>0, <2>0 DEF TypeOK, disk, memory
  <2>2. FileFinite' /\ Watched'
    BY <1>0, <2>0 DEF IInv, FileFinite, Watched, Dead, disk, memory
  <2>3. Phases' /\ CondemnedWaits'
    BY <2>0 DEF IInv, Phases, CondemnedWaits, Condemned, HeldBack, disk, memory
  <2>4. Live'
    BY <2>0, Values DEF IInv, Live, disk, memory, MaybeBundle
  <2> QED
    BY <2>1, <2>2, <2>3, <2>4 DEF IInv
<1>4. CASE ContainerKilled
  BY <1>0, <1>1, <1>2, <1>4, DownStep, EventStep DEF ContainerKilled, world
<1>5. CASE SupervisorExits
  <2>1. observed' \in [Bundle -> 0..DeathCap]
    BY <1>2, <1>5, ConstantsAssumption DEF SupervisorExits, Plus, MaybeBundle
  <2>2. ASSUME NEW b \in Bundle
        PROVE  observed'[b] <= deaths[b] + (IF armed' = b THEN 1 ELSE 0)
    <3>1. observed'[b] = IF armed # None /\ b = armed THEN Plus(observed[b]) ELSE observed[b]
      BY <1>2, <1>5 DEF SupervisorExits, MaybeBundle
    <3>2. armed' = armed /\ observed[b] <= deaths[b]
      BY <1>1, <1>5 DEF SupervisorExits
    <3> QED
      BY <1>1, <3>1, <3>2, ConstantsAssumption DEF Plus
  <2> QED
    BY <1>0, <1>5, <2>1, <2>2, DownStep, EventStep DEF SupervisorExits, world
<1>6. CASE PowerCut
  BY <1>0, <1>1, <1>2, <1>6, DownStep, EventStep DEF PowerCut, Fault
<1>7. CASE OrderlyExit
  <2>1. \A b \in Bundle : observed'[b] <= deaths[b] + (IF armed' = b THEN 1 ELSE 0)
    BY <1>1, <1>7, Values DEF OrderlyExit
  <2> QED
    BY <1>0, <1>2, <1>7, <2>1, DownStep, EventStep DEF OrderlyExit, Fault
<1> QED
  BY <1>3, <1>4, <1>5, <1>6, <1>7

\* Timers, saves and the control plane's own changes.
LEMMA WorldStep ==
    ASSUME IInv, BackoffElapses \/ WaitElapses \/ Save \/ ControlPlane PROVE IInv'
<1> USE DEF IInv
<1>1. CASE BackoffElapses
  <2>1. TypeOK'
    <3>1. quarantine' \in [etag : MaybeBundle, structural : Struct \cup {None}, due : BOOLEAN]
      BY <1>1 DEF BackoffElapses, TypeOK
    <3> QED
      BY <1>1, <3>1 DEF BackoffElapses, TypeOK, memory, world
  <2>2. FileFinite' /\ Watched' /\ Phases' /\ Live'
    BY <1>1 DEF BackoffElapses, TypeOK, FileFinite, Dead, Watched, Phases, Live, HeldBack,
                memory, world
  <2>3. CondemnedWaits'
    <3>1. quarantine'.due
      BY <1>1 DEF BackoffElapses, TypeOK
    <3> QED
      BY <1>1, <3>1 DEF BackoffElapses, CondemnedWaits, Condemned, memory
  <2> QED
    BY <2>1, <2>2, <2>3
<1>2. CASE WaitElapses \/ Save \/ ControlPlane
  <2>1. /\ UNCHANGED <<disk, pc, job, died, currentEtag, currentStruct, hold, onPrevious, applied,
                       status, daemon>>
        /\ waited' \in {"no", "some", "over"} /\ served' \in Bundle
        /\ cp' \in {"up", "down", "empty"}
    BY <1>2 DEF WaitElapses, Save, ControlPlane, TypeOK, memory, world
  <2>2. events' \in 0..MaxEvents
    BY <1>2, EventStep DEF WaitElapses, Save, ControlPlane, world
  <2>3. TypeOK'
    BY <2>1, <2>2 DEF TypeOK, disk
  <2>4. FileFinite' /\ Watched' /\ Phases' /\ CondemnedWaits' /\ Live'
    BY <2>1 DEF FileFinite, Dead, Watched, Phases, CondemnedWaits, Condemned, Live, HeldBack, disk
  <2> QED
    BY <2>3, <2>4
<1> QED
  BY <1>1, <1>2

LEMMA IInvNext == IInv /\ [Next]_vars => IInv'
<1> SUFFICES ASSUME IInv, [Next]_vars PROVE IInv'
  OBVIOUS
<1>1. CASE Boot
  BY <1>1, BootStep
<1>2. CASE Finish
  BY <1>2, ApplyOkStep, RefusedStep DEF Finish
<1>3. CASE Poll
  BY <1>3, PollStep
<1>4. CASE Settle
  BY <1>4, SettleStep
<1>5. CASE \/ DaemonKilled \/ ContainerKilled \/ SupervisorExits
           \/ PowerCut \/ OrderlyExit \/ DaemonCrashes
  BY <1>5, DeathStep
<1>6. CASE BackoffElapses \/ WaitElapses \/ Save \/ ControlPlane
  BY <1>6, WorldStep
<1>7. CASE UNCHANGED vars
  <2>1. TypeOK'
    BY <1>7 DEF IInv, TypeOK, vars, disk, memory, world
  <2>2. FileFinite' /\ Watched' /\ Phases' /\ CondemnedWaits' /\ Live'
    BY <1>7 DEF IInv, FileFinite, Dead, Watched, Phases, CondemnedWaits, Condemned, Live,
                HeldBack, vars, disk, memory, world
  <2> QED
    BY <2>1, <2>2 DEF IInv
<1> QED
  BY <1>1, <1>2, <1>3, <1>4, <1>5, <1>6, <1>7 DEF Next

-----------------------------------------------------------------------------
(* Theorems. *)

\* The strengthened invariant holds in every reachable state.
THEOREM Invariance == Spec => []IInv
BY IInvInit, IInvNext, PTL DEF Spec

\* Type correctness: the guard's file names at most MAX_TRACKED bundles, however many
\* there are and whichever of them die (ApplyGuard.startup).
THEOREM TypeCorrect == Spec => []TypeOK
<1>1. IInv => TypeOK
  BY DEF IInv
<1> QED
  BY <1>1, Invariance, PTL

\* A bundle the daemon was seen to die on is never applied at startup, as a fallback or
\* for the hold's time limit; offline it waits for its backoff (_boot_hold_fallback).
THEOREM CondemnedAlwaysWaits == Spec => []CondemnedWaits
<1>1. IInv => CondemnedWaits
  BY DEF IInv
<1> QED
  BY <1>1, Invariance, PTL

\* An apply made for a startup hold.
HoldKinds == {"cache", "cachefall", "heldback", "holdprev"}

\* The agent begins to misjudge what is live only by such an apply: a failed apply of
\* the control plane's bundle, and a failed revert, make it forget the fingerprint.
LEMMA MisjudgedStep ==
    ASSUME IInv, [Next]_vars, Misjudged', ~Misjudged
    PROVE  job # None /\ job.kind \in HoldKinds
<1>1. TypeOK /\ Phases /\ Live
  BY DEF IInv
<1>2. /\ daemon' \in Bundle \cup {Half} /\ currentStruct' # None
      /\ ~(daemon' \in Bundle /\ S(daemon') = currentStruct')
      /\ job' # None => job'.kind # "revert"
  BY DEF Misjudged, Serves, Up
<1>3. ASSUME daemon' = daemon, currentStruct' = currentStruct PROVE job # None /\ job.kind = "revert"
  BY <1>2, <1>3 DEF Misjudged, Serves, Up
<1>4. CASE Boot
  <2>1. CASE StartDaemon
    <3>1. job = None /\ currentStruct' = currentStruct
      BY <1>1, <2>1 DEF StartDaemon, Phases
    <3>2. daemon' # daemon
      BY <1>3, <3>1
    <3>3. daemon' = tree /\ tree # None
      BY <1>2, <2>1, <3>2, ConstantsAssumption DEF StartDaemon
    <3>4. tree \in Bundle /\ S(tree) = currentStruct
      BY <1>1, <1>2, <2>1, <3>1, <3>3 DEF StartDaemon, Live, TypeOK, MaybeBundle
    <3> QED
      BY <1>2, <3>1, <3>3, <3>4
  <2>2. CASE Startup \/ HoldCache \/ ApplyCache \/ NoCache
    BY <1>1, <1>2, <2>2 DEF Startup, HoldCache, ApplyCache, NoCache, Phases
  <2> QED
    BY <1>4, <2>1, <2>2 DEF Boot
<1>5. CASE ApplyOk
  <2>1. job.bundle \in Bundle
    BY <1>1, <1>5 DEF ApplyOk, TypeOK, Jobs
  <2> QED
    BY <1>2, <1>5, <2>1 DEF ApplyOk
<1>6. CASE Refused
  <2>1. PICK reload \in BOOLEAN : ApplyFails(reload)
    BY <1>6 DEF Refused
  <2>2. job # None /\ (CacheFails \/ StandInFails \/ BundleFails(reload) \/ RevertFails)
    BY <2>1 DEF ApplyFails
  <2>3. CASE CacheFails \/ StandInFails
    <3>1. currentStruct' = currentStruct
      BY <2>3 DEF CacheFails, StandInFails
    <3>2. pc # "load"
      BY <1>1, <1>2, <3>1 DEF Phases
    <3> QED
      BY <1>1, <2>2, <2>3, <3>2 DEF CacheFails, StandInFails, Phases, HoldKinds
  <2>4. CASE BundleFails(reload)
    <3> DEFINE usable == PreviousUsable(job.bundle, FALSE)
    <3>1. CASE reload /\ ~usable
      BY <1>2, <2>4, <3>1 DEF BundleFails
    <3>2. CASE reload /\ usable
      <4> DEFINE c == Choice("revert", previous)
      <4>1. c # NoChoice /\ c.kind = "revert"
        BY ChoiceIsNone DEF Kinds, Choice
      <4>2. Proceed(c, None, currentEtag, job.bundle, job.then, job.ret)
        BY <2>4, <3>2 DEF BundleFails
      <4>3. job'.kind = "revert" /\ job' = [kind |-> c.kind, bundle |-> c.bundle, failed |-> job.bundle,
                                           then |-> job.then, ret |-> job.ret]
        BY <4>1, <4>2 DEF Proceed, Begin
      <4>4. job' \in Jobs
        <5>1. previous \in Bundle
          BY <1>1, <3>2, UsableIsFine
        <5>2. job \in Jobs
          BY <1>1, <2>2 DEF TypeOK
        <5> QED
          BY <4>3, <5>1, <5>2 DEF Jobs, Kinds, Choice, MaybeBundle
      <4>5. job' # None
        BY <4>4, ConstantsAssumption
      <4> QED
        BY <1>2, <4>3, <4>5
    <3>3. CASE ~reload
      <4>1. daemon' = daemon /\ currentStruct' = currentStruct /\ job.kind = "poll"
        BY <2>1, <2>4, <3>3 DEF ApplyFails, Disturbs, BundleFails
      <4> QED
        BY <1>3, <4>1
    <3> QED
      BY <3>1, <3>2, <3>3
  <2>5. CASE RevertFails
    BY <1>2, <2>5 DEF RevertFails
  <2> QED
    BY <2>2, <2>3, <2>4, <2>5
<1>7. CASE Poll
  <2>1. job = None /\ daemon' = daemon /\ currentStruct' = currentStruct
    BY <1>7 DEF Poll, Ask, TopOfPoll, AskFails, AskNothing, AskRecords, AskQuarantined, AskApply,
                Bundle200
  <2> QED
    BY <1>3, <2>1
<1>8. CASE Settle
  BY <1>3, <1>8 DEF Settle
<1>9. CASE DaemonKilled \/ DaemonCrashes
  BY <1>2, <1>9, ConstantsAssumption DEF DaemonKilled, DaemonCrashes
<1>10. CASE ContainerKilled \/ SupervisorExits \/ PowerCut \/ OrderlyExit
  BY <1>2, <1>10 DEF ContainerKilled, SupervisorExits, PowerCut, OrderlyExit, Down
<1>11. CASE BackoffElapses \/ WaitElapses \/ Save \/ ControlPlane \/ UNCHANGED vars
  <2>1. UNCHANGED <<job, daemon, currentStruct>>
    BY <1>11 DEF BackoffElapses, WaitElapses, Save, ControlPlane, vars, memory
  <2> QED
    BY <1>2, <1>3, <2>1
<1> QED
  BY <1>4, <1>5, <1>6, <1>7, <1>8, <1>9, <1>10, <1>11 DEF Next, Finish

\* An ok that the running daemon does not bear out comes only of an apply that was made
\* for a startup hold; no failed apply of the control plane's bundle, and no failed
\* revert, leads to one (_handle_apply_failure, _report_applied).
THEOREM OkIsAlwaysLive == Spec => OkIsLive
<1>1. IInv => (FalseOk => Misjudged)
  BY DEF IInv, Live, FalseOk, Misjudged
<1>2. IInv /\ [Next]_vars =>
        [Misjudged' => \/ Misjudged
                       \/ job # None /\ job.kind \in {"cache", "cachefall", "heldback",
                                                     "holdprev"}]_vars
  BY MisjudgedStep DEF HoldKinds
<1> QED
  BY <1>1, <1>2, Invariance, PTL DEF Spec, OkIsLive
=============================================================================
