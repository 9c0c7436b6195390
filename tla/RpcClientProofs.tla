-------------------------- MODULE RpcClientProofs --------------------------
(***************************************************************************)
(* The safety properties of RpcClient, for any number of calls, permits,   *)
(* retries and any delays, those that overflow an Instant included.        *)
(***************************************************************************)
EXTENDS RpcClient, FiniteSetTheorems, TLAPS

\* WorkerBackoff never leaves its bounds, whatever its multiplier.
LEMMA NextDelayBounds ==
    ASSUME NEW delay \in Nat
    PROVE  NextDelay(delay) \in MinDelay .. MaxDelay
  <1>1. delay * Larger(Multiplier, 1) \in Nat
    <2>1. Larger(Multiplier, 1) \in Nat
      BY BackoffAssumption DEF Larger
    <2> QED
      BY <2>1
  <1>2. \A n \in Nat : Smaller(Larger(n, MinDelay), MaxDelay) \in MinDelay .. MaxDelay
    BY BackoffAssumption DEF Larger, Smaller
  <1> QED
    BY <1>1, <1>2 DEF NextDelay

\* The sleep is a natural number of units.
LEMMA SleepsAreNat == \A delay \in Nat : Sleeps(delay) \subseteq Nat
  BY DEF Sleeps, Larger

\* The time until the instant that is registered: all of the delay, or none.
LEMMA TimeUntilIsNat ==
    \A delay \in Nat : /\ TimeUntil(delay) \in Nat
                       /\ delay <= FarthestDelay => TimeUntil(delay) = delay
  BY DEF TimeUntil

\* The calls at some labels are a finite set.
LEMMA CallsAtFinite ==
    ASSUME NEW S
    PROVE  IsFiniteSet(CallsAt(S)) /\ Cardinality(CallsAt(S)) \in Nat
  <1>1. CallsAt(S) \in SUBSET Calls
    BY DEF CallsAt
  <1> QED
    BY <1>1, RpcClientAssumption, FS_Subset, FS_CardinalityType

\* How a step of one call changes the number of calls at some labels.
LEMMA CallsAtMove ==
    ASSUME NEW S, at \in [Calls -> Labels], NEW c \in Calls, NEW l, GoesTo(c, l)
    PROVE  /\ at[c] \in S /\ l \notin S =>
                 Cardinality(CallsAt(S)') = Cardinality(CallsAt(S)) - 1
           /\ at[c] \notin S /\ l \in S =>
                 Cardinality(CallsAt(S)') = Cardinality(CallsAt(S)) + 1
           /\ (at[c] \in S <=> l \in S) =>
                 Cardinality(CallsAt(S)') = Cardinality(CallsAt(S))
  <1>1. \A d \in Calls : at'[d] = IF d = c THEN l ELSE at[d]
    BY DEF GoesTo
  <1>2. at[c] \in S /\ l \notin S => CallsAt(S)' = CallsAt(S) \ {c} /\ c \in CallsAt(S)
    BY <1>1 DEF CallsAt
  <1>3. at[c] \notin S /\ l \in S => CallsAt(S)' = CallsAt(S) \cup {c} /\ c \notin CallsAt(S)
    BY <1>1 DEF CallsAt
  <1>4. (at[c] \in S <=> l \in S) => CallsAt(S)' = CallsAt(S)
    BY <1>1 DEF CallsAt
  <1> QED
    BY <1>2, <1>3, <1>4, CallsAtFinite, FS_AddElement, FS_RemoveElement

\* A call that waits at the governor has a permit.
LEMMA GovernorHasPermit == Cardinality(CallsAt({"governor"})) <= Cardinality(CallsAt(Holding))
  <1>1. CallsAt({"governor"}) \in SUBSET CallsAt(Holding)
    BY DEF CallsAt, Holding
  <1> QED
    BY <1>1, CallsAtFinite, FS_Subset

\* A client that was just created has all its permits and no cooldown.
LEMMA InitInv == Init => RpcInv
  <1> SUFFICES ASSUME Init PROVE RpcInv
    OBVIOUS
  <1>1. TypeOK
    BY RpcClientAssumption, BackoffAssumption DEF Init, TypeOK, Labels
  <1>2. CallsAt(Holding) = {}
    BY DEF Init, CallsAt, Holding
  <1>3. PermitsAreKept
    BY <1>2, FS_EmptySet, RpcClientAssumption DEF Init, PermitsAreKept
  <1>4. SentHadPermit /\ DelayIsCovered /\ AttemptsLeft
    BY DEF Init, SentHadPermit, DelayIsCovered, AttemptsLeft
  <1> QED
    BY <1>1, <1>3, <1>4 DEF RpcInv

(***************************************************************************)
(* The steps.                                                              *)
(***************************************************************************)

\* A call goes on to some label, or sleeps where it is.
LEMMA StepGoes ==
    ASSUME NEW c \in Calls, CallStep(c)
    PROVE  UNCHANGED at \/ \E l \in Labels : GoesTo(c, l)
  BY DEF CallStep, CheckCooldown, RecheckCooldown, WaitCooldown, Acquire, Send, Respond, Ends,
         TransportFails, StepBackoff, SetUntil, SetLast, CheckActive, CheckQuiet, ResetBackoff,
         Labels

\* The times that Tick counts down stay natural numbers.
LEMMA LessIsNat == \A n \in Nat : Less(n) \in Nat /\ Less(n) <= n /\ LessOwed(n) \in Nat
  BY RpcClientAssumption DEF Less, LessOwed

\* Every step keeps the attempts of the calls within the retries.
LEMMA AttemptsNext ==
    ASSUME TypeOK, AttemptsLeft, [Next]_vars
    PROVE  AttemptsLeft' /\ attempt' \in [Calls -> 1 .. MaxRetries + 1]
  <1>1. /\ at \in [Calls -> Labels]
        /\ attempt \in [Calls -> 1 .. MaxRetries + 1]
        /\ MaxRetries \in Nat
    BY RpcClientAssumption DEF TypeOK
  <1>2. ASSUME NEW c \in Calls, SetLast(c)
        PROVE  AttemptsLeft' /\ attempt' \in [Calls -> 1 .. MaxRetries + 1]
    <2>1. attempt[c] \in 1 .. MaxRetries
      BY <1>1, <1>2 DEF SetLast, AttemptsLeft
    <2>2. /\ attempt' = [attempt EXCEPT ![c] = attempt[c] + 1]
          /\ at' = [at EXCEPT ![c] = "cooldown"]
      BY <1>2 DEF SetLast, GoesTo
    <2> QED
      BY <1>1, <2>1, <2>2 DEF AttemptsLeft
  <1>3. ASSUME NEW c \in Calls, Respond(c)
        PROVE  AttemptsLeft' /\ UNCHANGED attempt
    <2>1. \E l : GoesTo(c, l) /\ (l \in {"backoff", "until", "last"} => attempt[c] <= MaxRetries)
      BY <1>3 DEF Respond, Ends
    <2> QED
      BY <1>1, <1>3, <2>1 DEF AttemptsLeft, GoesTo, Respond
  <1>4. ASSUME NEW c \in Calls, StepBackoff(c) \/ SetUntil(c)
        PROVE  AttemptsLeft' /\ UNCHANGED attempt
    BY <1>1, <1>4 DEF AttemptsLeft, GoesTo, StepBackoff, SetUntil
  <1>5. ASSUME NEW c \in Calls,
               \/ CheckCooldown(c) \/ Acquire(c) \/ RecheckCooldown(c) \/ Send(c)
               \/ TransportFails(c) \/ CheckActive(c) \/ CheckQuiet(c) \/ ResetBackoff(c)
        PROVE  AttemptsLeft' /\ UNCHANGED attempt
    BY <1>1, <1>5 DEF AttemptsLeft, GoesTo, CheckCooldown, RecheckCooldown, WaitCooldown, Acquire,
                      Send, TransportFails, CheckActive, CheckQuiet, ResetBackoff
  <1>6. CASE Tick \/ Returned \/ UNCHANGED vars
    BY <1>1, <1>6 DEF Tick, Returned, vars, AttemptsLeft
  <1> QED
    BY <1>1, <1>2, <1>3, <1>4, <1>5, <1>6 DEF Next, CallStep

\* Every step leaves a free or a held permit where there was one.
LEMMA PermitsNext ==
    ASSUME TypeOK, PermitsAreKept, [Next]_vars
    PROVE  PermitsAreKept' /\ permits' \in 0 .. MaxConcurrent
  <1>1. /\ at \in [Calls -> Labels]
        /\ permits \in Nat /\ MaxConcurrent \in Nat
        /\ Cardinality(CallsAt(Holding)) \in Nat
        /\ permits + Cardinality(CallsAt(Holding)) = MaxConcurrent
    BY RpcClientAssumption, CallsAtFinite DEF TypeOK, PermitsAreKept
  <1>2. Cardinality(CallsAt(Holding)') \in Nat
    <2>1. CallsAt(Holding)' \in SUBSET Calls
      BY DEF CallsAt
    <2> QED
      BY <2>1, RpcClientAssumption, FS_Subset, FS_CardinalityType
  <1>3. permits' + Cardinality(CallsAt(Holding)') = MaxConcurrent
    <2>1. ASSUME NEW c \in Calls, Acquire(c)
          PROVE  permits' + Cardinality(CallsAt(Holding)') = MaxConcurrent
      <3>1. at[c] \notin Holding /\ GoesTo(c, "recheck") /\ "recheck" \in Holding
        BY <2>1 DEF Acquire, Holding
      <3>2. permits' = permits - 1
        BY <2>1 DEF Acquire
      <3> QED
        BY <1>1, <3>1, <3>2, CallsAtMove
    <2>2. ASSUME NEW c \in Calls, Respond(c) \/ TransportFails(c)
          PROVE  permits' + Cardinality(CallsAt(Holding)') = MaxConcurrent
      <3>1. at[c] \in Holding /\ \E l : GoesTo(c, l) /\ l \notin Holding
        BY <2>2 DEF Respond, Ends, TransportFails, Holding
      <3>2. permits' = permits + 1
        BY <2>2 DEF Respond, TransportFails
      <3> QED
        BY <1>1, <3>1, <3>2, CallsAtMove
    <2>3. ASSUME NEW c \in Calls,
                 \/ CheckCooldown(c) \/ RecheckCooldown(c) \/ Send(c)
                 \/ StepBackoff(c) \/ SetUntil(c) \/ SetLast(c)
                 \/ CheckActive(c) \/ CheckQuiet(c) \/ ResetBackoff(c)
          PROVE  permits' + Cardinality(CallsAt(Holding)') = MaxConcurrent
      <3>1. UNCHANGED at \/ \E l : GoesTo(c, l) /\ (at[c] \in Holding <=> l \in Holding)
        BY <2>3 DEF CheckCooldown, RecheckCooldown, WaitCooldown, Send, StepBackoff, SetUntil,
                    SetLast, CheckActive, CheckQuiet, ResetBackoff, Holding
      <3>2. permits' = permits
        BY <2>3 DEF CheckCooldown, RecheckCooldown, WaitCooldown, Send, StepBackoff, SetUntil,
                    SetLast, CheckActive, CheckQuiet, ResetBackoff, shared
      <3>3. UNCHANGED at => CallsAt(Holding)' = CallsAt(Holding)
        BY DEF CallsAt
      <3> QED
        BY <1>1, <3>1, <3>2, <3>3, CallsAtMove
    <2>4. CASE Tick \/ Returned \/ UNCHANGED vars
      BY <1>1, <2>4 DEF Tick, Returned, vars, shared, CallsAt
    <2> QED
      BY <2>1, <2>2, <2>3, <2>4 DEF Next, CallStep
  <1>4. permits' \in Nat
    <2>1. ASSUME NEW c \in Calls, Acquire(c) PROVE permits' \in Nat
      BY <1>1, <2>1 DEF Acquire
    <2>2. ASSUME NEW c \in Calls, CallStep(c), ~Acquire(c) PROVE permits' \in Nat
      BY <1>1, <2>2 DEF CallStep, CheckCooldown, RecheckCooldown, WaitCooldown, Send, Respond,
                        TransportFails, StepBackoff, SetUntil, SetLast, CheckActive, CheckQuiet,
                        ResetBackoff, shared
    <2>3. CASE Tick \/ Returned \/ UNCHANGED vars
      BY <1>1, <2>3 DEF Tick, Returned, vars, shared
    <2> QED
      BY <2>1, <2>2, <2>3 DEF Next
  <1> QED
    BY <1>1, <1>2, <1>3, <1>4 DEF PermitsAreKept

\* Every step leaves a well-typed client, and its backoff within its bounds.
LEMMA TypeNext ==
    ASSUME TypeOK, AttemptsLeft, PermitsAreKept, [Next]_vars
    PROVE  TypeOK'
  <1>1. /\ at \in [Calls -> Labels]
        /\ timer \in [Calls -> Nat] /\ owed \in [Calls -> Nat]
        /\ cooldown \in Nat /\ sent \in Nat
        /\ backoff \in MinDelay .. MaxDelay /\ backoff \in Nat
        /\ quiet \in 0 .. IdleAfter + 1
        /\ cell \in 0 .. Period
    BY BackoffAssumption DEF TypeOK
  <1>2. /\ IdleAfter \in Nat /\ Period \in Nat /\ RetryAfters \subseteq Nat
        /\ MinDelay \in MinDelay .. MaxDelay
    BY RpcClientAssumption, BackoffAssumption
  <1>3. at' \in [Calls -> Labels]
    <2>1. ASSUME NEW c \in Calls, CallStep(c) PROVE at' \in [Calls -> Labels]
      BY <1>1, <2>1, StepGoes DEF GoesTo
    <2> QED
      BY <1>1, <2>1 DEF Next, Tick, Returned, vars
  <1>4. timer' \in [Calls -> Nat] /\ owed' \in [Calls -> Nat]
    <2>1. ASSUME NEW c \in Calls, CheckCooldown(c) \/ RecheckCooldown(c)
          PROVE  timer' \in [Calls -> Nat] /\ owed' \in [Calls -> Nat]
      BY <1>1, <2>1 DEF CheckCooldown, RecheckCooldown, WaitCooldown
    <2>2. ASSUME NEW c \in Calls, Respond(c)
          PROVE  timer' \in [Calls -> Nat] /\ owed' \in [Calls -> Nat]
      BY <1>1, <1>2, <2>2, TimeUntilIsNat DEF Respond, NothingOwed
    <2>3. ASSUME NEW c \in Calls, StepBackoff(c)
          PROVE  timer' \in [Calls -> Nat] /\ owed' \in [Calls -> Nat]
      <3>1. PICK d \in Sleeps(backoff) : /\ timer' = [timer EXCEPT ![c] = TimeUntil(d)]
                                         /\ owed' = [owed EXCEPT ![c] = d]
        BY <2>3 DEF StepBackoff
      <3>2. d \in Nat
        BY <1>1, <3>1, SleepsAreNat
      <3> QED
        BY <1>1, <3>1, <3>2, TimeUntilIsNat
    <2>4. ASSUME NEW c \in Calls, SetUntil(c) \/ TransportFails(c)
          PROVE  timer' \in [Calls -> Nat] /\ owed' \in [Calls -> Nat]
      BY <1>1, <2>4 DEF SetUntil, TransportFails, NothingOwed
    <2>5. ASSUME NEW c \in Calls,
                 \/ Acquire(c) \/ Send(c) \/ SetLast(c)
                 \/ CheckActive(c) \/ CheckQuiet(c) \/ ResetBackoff(c)
          PROVE  UNCHANGED <<timer, owed>>
      BY <2>5 DEF Acquire, Send, SetLast, CheckActive, CheckQuiet, ResetBackoff
    <2>6. CASE Tick
      BY <1>1, <2>6, LessIsNat DEF Tick
    <2> QED
      BY <1>1, <2>1, <2>2, <2>3, <2>4, <2>5, <2>6 DEF Next, CallStep, Returned, vars
  <1>5. cooldown' \in Nat /\ sent' \in Nat
    <2>1. ASSUME NEW c \in Calls, SetUntil(c) PROVE cooldown' \in Nat /\ sent' \in Nat
      BY <1>1, <2>1 DEF SetUntil, Larger
    <2>2. ASSUME NEW c \in Calls, CallStep(c), ~SetUntil(c)
          PROVE  cooldown' \in Nat /\ sent' \in Nat
      BY <1>1, <2>2 DEF CallStep, CheckCooldown, Acquire, RecheckCooldown, WaitCooldown, Send,
                        Respond, TransportFails, StepBackoff, SetLast, CheckActive, CheckQuiet,
                        ResetBackoff, shared
    <2>3. CASE Tick
      BY <1>1, <2>3, LessIsNat DEF Tick
    <2> QED
      BY <1>1, <2>1, <2>2, <2>3 DEF Next, Returned, vars, shared
  <1>6. backoff' \in MinDelay .. MaxDelay
    <2>1. ASSUME NEW c \in Calls, StepBackoff(c) PROVE backoff' \in MinDelay .. MaxDelay
      BY <1>1, <2>1, NextDelayBounds DEF StepBackoff
    <2>2. ASSUME NEW c \in Calls, CallStep(c), ~StepBackoff(c)
          PROVE  backoff' \in MinDelay .. MaxDelay
      BY <1>1, <1>2, <2>2 DEF CallStep, CheckCooldown, Acquire, RecheckCooldown, WaitCooldown,
                              Send, Respond, TransportFails, SetUntil, SetLast, CheckActive,
                              CheckQuiet, ResetBackoff, shared
    <2> QED
      BY <1>1, <2>1, <2>2 DEF Next, Tick, Returned, vars, shared
  <1>7. quiet' \in 0 .. IdleAfter + 1 /\ cell' \in 0 .. Period
    <2>1. ASSUME NEW c \in Calls, CallStep(c)
          PROVE  quiet' \in {quiet, 0} /\ cell' \in {cell, Period}
      BY <2>1 DEF CallStep, CheckCooldown, Acquire, RecheckCooldown, WaitCooldown, Send, Respond,
                  TransportFails, StepBackoff, SetUntil, SetLast, CheckActive, CheckQuiet,
                  ResetBackoff, shared
    <2>2. CASE Tick
      BY <1>1, <1>2, <2>2, LessIsNat DEF Tick, Smaller
    <2> QED
      BY <1>1, <1>2, <2>1, <2>2 DEF Next, Returned, vars, shared
  <1>8. attempt' \in [Calls -> 1 .. MaxRetries + 1] /\ permits' \in 0 .. MaxConcurrent
    BY AttemptsNext, PermitsNext
  <1> QED
    BY <1>3, <1>4, <1>5, <1>6, <1>7, <1>8 DEF TypeOK

\* Every step keeps the delay of every call covered: the cooldown is shortened
\* by time only, which shortens the delays as well.
LEMMA DelayNext ==
    ASSUME TypeOK, DelayIsCovered, [Next]_vars
    PROVE  DelayIsCovered'
  <1>1. /\ at \in [Calls -> Labels]
        /\ timer \in [Calls -> Nat] /\ owed \in [Calls -> Nat]
        /\ cooldown \in Nat
    BY DEF TypeOK
  <1>2. ASSUME NEW c \in Calls, CheckCooldown(c) \/ RecheckCooldown(c) PROVE DelayIsCovered'
    BY <1>1, <1>2 DEF CheckCooldown, RecheckCooldown, WaitCooldown, GoesTo, DelayIsCovered, shared
  <1>3. ASSUME NEW c \in Calls, Respond(c) PROVE DelayIsCovered'
    <2>1. cooldown' = cooldown
      BY <1>3 DEF Respond
    <2>2. ASSUME NEW ra \in RetryAfters,
                 GoesTo(c, IF ra > 0 THEN "until" ELSE "backoff"),
                 timer' = [timer EXCEPT ![c] = TimeUntil(ra)], owed' = [owed EXCEPT ![c] = ra]
          PROVE  DelayIsCovered'
      <3>1. ra \in Nat
        BY RpcClientAssumption
      <3> QED
        BY <1>1, <2>1, <2>2, <3>1, TimeUntilIsNat DEF GoesTo, DelayIsCovered
    <2>3. ASSUME NEW r \in Replies, Ends(c, r), NothingOwed(c), UNCHANGED timer
          PROVE  DelayIsCovered'
      BY <1>1, <2>1, <2>3 DEF GoesTo, Ends, NothingOwed, DelayIsCovered
    <2> QED
      BY <1>3, <2>2, <2>3 DEF Respond
  <1>4. ASSUME NEW c \in Calls, StepBackoff(c) PROVE DelayIsCovered'
    <2>1. PICK d \in Sleeps(backoff) : /\ timer' = [timer EXCEPT ![c] = TimeUntil(d)]
                                       /\ owed' = [owed EXCEPT ![c] = d]
      BY <1>4 DEF StepBackoff
    <2>2. d \in Nat
      <3>1. backoff \in Nat
        BY BackoffAssumption DEF TypeOK
      <3> QED
        BY <2>1, <3>1, SleepsAreNat
    <2> QED
      BY <1>1, <1>4, <2>1, <2>2, TimeUntilIsNat DEF StepBackoff, GoesTo, DelayIsCovered
  <1>5. ASSUME NEW c \in Calls, SetUntil(c) PROVE DelayIsCovered'
    <2>1. cooldown' >= cooldown /\ cooldown' >= timer[c] /\ cooldown' \in Nat
      BY <1>1, <1>5 DEF SetUntil, Larger
    <2> QED
      BY <1>1, <1>5, <2>1 DEF SetUntil, GoesTo, DelayIsCovered
  <1>6. ASSUME NEW c \in Calls, Acquire(c) \/ Send(c) \/ SetLast(c) PROVE DelayIsCovered'
    BY <1>1, <1>6 DEF Acquire, Send, SetLast, GoesTo, DelayIsCovered
  <1>7. ASSUME NEW c \in Calls,
               TransportFails(c) \/ CheckActive(c) \/ CheckQuiet(c) \/ ResetBackoff(c)
        PROVE  DelayIsCovered'
    BY <1>1, <1>7 DEF TransportFails, NothingOwed, CheckActive, CheckQuiet, ResetBackoff, GoesTo,
                      DelayIsCovered, shared
  <1>8. CASE Tick
    <2>1. \A m, n \in Nat : m <= n => Less(m) <= Less(n)
      BY DEF Less
    <2>2. Less(0) = 0
      BY DEF Less
    <2>3. \A n \in Nat : LessOwed(n) <= FarthestDelay =>
                            n <= FarthestDelay /\ LessOwed(n) = Less(n)
      BY RpcClientAssumption DEF LessOwed
    <2> QED
      BY <1>1, <1>8, <2>1, <2>2, <2>3 DEF Tick, DelayIsCovered
  <1>9. CASE Returned \/ UNCHANGED vars
    BY <1>9 DEF Returned, vars, shared, DelayIsCovered
  <1> QED
    BY <1>2, <1>3, <1>4, <1>5, <1>6, <1>7, <1>8, <1>9 DEF Next, CallStep

\* Every step keeps the requests of a cooldown within the permits: nobody comes
\* to the governor while a cooldown is active.
LEMMA SentNext ==
    ASSUME TypeOK, PermitsAreKept, SentHadPermit, [Next]_vars
    PROVE  SentHadPermit'
  <1> DEFINE g == Cardinality(CallsAt({"governor"}))
  <1>1. /\ at \in [Calls -> Labels]
        /\ timer \in [Calls -> Nat]
        /\ cooldown \in Nat /\ sent \in Nat
        /\ g \in Nat
    BY CallsAtFinite DEF TypeOK
  <1>2. g <= MaxConcurrent
    BY <1>1, GovernorHasPermit, CallsAtFinite, RpcClientAssumption DEF TypeOK, PermitsAreKept
  <1>3. UNCHANGED at => g' = g
    BY DEF CallsAt
  <1>4. ASSUME NEW c \in Calls, Send(c) PROVE SentHadPermit'
    <2>1. g' = g - 1
      BY <1>1, <1>4, CallsAtMove DEF Send
    <2> HIDE DEF g
    <2>2. (cooldown = 0 => sent' = 0) /\ (cooldown > 0 => sent' + g' <= MaxConcurrent)
      BY <1>1, <1>4, <2>1, RpcClientAssumption DEF Send, SentHadPermit, g
    <2> QED
      BY <1>4, <2>2 DEF Send, SentHadPermit, g
  <1>5. ASSUME NEW c \in Calls, SetUntil(c) PROVE SentHadPermit'
    <2>1. g' = g
      BY <1>1, <1>5, CallsAtMove DEF SetUntil
    <2>2. sent' = sent /\ cooldown' \in Nat /\ cooldown' >= cooldown
      BY <1>1, <1>5 DEF SetUntil, Larger
    <2> HIDE DEF g
    <2> QED
      BY <1>1, <1>2, <2>1, <2>2, RpcClientAssumption DEF SentHadPermit, g
  <1>6. ASSUME NEW c \in Calls, RecheckCooldown(c) PROVE SentHadPermit'
    <2>1. CASE cooldown > 0
      <3>1. UNCHANGED <<at, cooldown, sent>>
        BY <1>6, <2>1 DEF RecheckCooldown, WaitCooldown, shared
      <3> QED
        BY <1>3, <3>1 DEF SentHadPermit
    <2>2. CASE cooldown = 0
      BY <1>6, <2>2 DEF RecheckCooldown, WaitCooldown, shared, SentHadPermit
    <2> QED
      BY <1>1, <2>1, <2>2
  <1>7. ASSUME NEW c \in Calls,
               \/ CheckCooldown(c) \/ Acquire(c) \/ Respond(c) \/ TransportFails(c)
               \/ StepBackoff(c) \/ SetLast(c) \/ CheckActive(c) \/ CheckQuiet(c) \/ ResetBackoff(c)
        PROVE  SentHadPermit'
    <2>1. UNCHANGED <<cooldown, sent>>
      BY <1>7 DEF CheckCooldown, WaitCooldown, Acquire, Respond, TransportFails, StepBackoff,
                  SetLast, CheckActive, CheckQuiet, ResetBackoff, shared
    <2>2. UNCHANGED at \/ \E l : GoesTo(c, l) /\ at[c] # "governor" /\ l # "governor"
      BY <1>7 DEF CheckCooldown, WaitCooldown, Acquire, Respond, Ends, TransportFails, StepBackoff,
                  SetLast, CheckActive, CheckQuiet, ResetBackoff
    <2>3. g' = g
      BY <1>1, <1>3, <2>2, CallsAtMove
    <2> QED
      BY <2>1, <2>3 DEF SentHadPermit
  <1>8. CASE Tick
    <2>1. g' = g /\ cooldown' = Less(cooldown) /\ sent' = IF cooldown > 1 THEN sent ELSE 0
      BY <1>3, <1>8 DEF Tick
    <2> HIDE DEF g
    <2> QED
      BY <1>1, <1>2, <2>1, RpcClientAssumption DEF SentHadPermit, Less, g
  <1>9. CASE Returned \/ UNCHANGED vars
    BY <1>3, <1>9 DEF Returned, vars, shared, SentHadPermit
  <1> QED
    BY <1>4, <1>5, <1>6, <1>7, <1>8, <1>9 DEF Next, CallStep

(***************************************************************************)
(* The theorems.                                                           *)
(***************************************************************************)

\* The inductive invariant holds in every state of the client.
THEOREM ClientInvariance == Spec => []RpcInv
  <1>1. Init => RpcInv
    BY InitInv
  <1>2. RpcInv /\ [Next]_vars => RpcInv'
    BY TypeNext, PermitsNext, SentNext, DelayNext, AttemptsNext DEF RpcInv
  <1> QED
    BY <1>1, <1>2, PTL DEF Spec

\* The client keeps its types; backoff and attempts stay within their bounds.
THEOREM ClientTypeCorrect == Spec => []TypeOK
  <1>1. RpcInv => TypeOK
    BY DEF RpcInv
  <1> QED
    BY <1>1, ClientInvariance, PTL

\* The semaphore bounds the requests that are out: no path through the retry
\* loops gives a permit back too early or twice.
THEOREM RequestsAreBounded == Spec => []ConcurrencyIsBounded
  <1>1. RpcInv => ConcurrencyIsBounded
    <2> SUFFICES ASSUME RpcInv PROVE ConcurrencyIsBounded
      OBVIOUS
    <2>1. CallsAt({"http"}) \in SUBSET CallsAt(Holding)
      BY DEF CallsAt, Holding
    <2>2. Cardinality(CallsAt({"http"})) <= Cardinality(CallsAt(Holding))
      BY <2>1, CallsAtFinite, FS_Subset
    <2>3. permits \in Nat /\ permits + Cardinality(CallsAt(Holding)) = MaxConcurrent
      BY RpcClientAssumption DEF RpcInv, TypeOK, PermitsAreKept
    <2> QED
      BY <2>2, <2>3, CallsAtFinite, RpcClientAssumption DEF ConcurrencyIsBounded
  <1> QED
    BY <1>1, ClientInvariance, PTL

\* Once a cooldown is registered, no more requests than there are permits slip
\* through before it ends, however many calls there are.
THEOREM CooldownStopsRequests == Spec => []FewSentDuringCooldown
  <1>1. RpcInv => FewSentDuringCooldown
    <2> SUFFICES ASSUME RpcInv PROVE FewSentDuringCooldown
      OBVIOUS
    <2>1. cooldown \in Nat /\ sent \in Nat /\ Cardinality(CallsAt({"governor"})) \in Nat
      BY CallsAtFinite DEF RpcInv, TypeOK
    <2> QED
      BY <2>1, RpcClientAssumption DEF RpcInv, SentHadPermit, FewSentDuringCooldown
  <1> QED
    BY <1>1, ClientInvariance, PTL

\* A retry is never sent before the delay of its call is over, although the
\* cooldown and the backoff are shared and overwritten by all calls: for every
\* delay that Instant::now() can be advanced by, next to calls whose delay is not.
THEOREM RetriesWait == Spec => []RetryHonoursDelay
  <1>1. RpcInv => RetryHonoursDelay
    BY RpcClientAssumption DEF RpcInv, TypeOK, DelayIsCovered, RetryHonoursDelay
  <1> QED
    BY <1>1, ClientInvariance, PTL
=============================================================================
