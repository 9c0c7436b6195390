----------------------------- MODULE RpcClient -----------------------------
(***************************************************************************)
(* HeliusApi of src/requests/client.rs: calls of get_signatures and of     *)
(* fetch_transaction_by_signature that share a semaphore, a rate limiter,  *)
(* a cooldown and a backoff, each behind a lock of its own.                *)
(*                                                                         *)
(* Calls are concurrent tasks, and a task may be interrupted at every      *)
(* await; at names the await or the reply a call is at:                    *)
(*                                                                         *)
(*   "cooldown"   first wait_for_rate_limit_cooldown                       *)
(*   "permit"     semaphore.acquire_owned                                  *)
(*   "recheck"    second wait_for_rate_limit_cooldown, with the permit     *)
(*   "governor"   rate_limiter.until_ready, with the permit                *)
(*   "http"       the request is out, with the permit                      *)
(*   "backoff", "until", "last"      register_rate_limit, lock by lock     *)
(*   "active", "quiet", "reset"      reset_rate_limit_backoff_if_idle      *)
(*   "done", "failed"                                                      *)
(*                                                                         *)
(* Instants are kept as the time that is left until them, so that the      *)
(* model has no clock; Tick lets one unit pass.  A rate_limit_until that   *)
(* has passed and None are the same.                                       *)
(***************************************************************************)
EXTENDS Backoff, FiniteSets

CONSTANTS
    Calls,           \* the calls: each is one run of its retry loop
    SignatureCalls,  \* those that are get_signatures
    MaxConcurrent,   \* permits of the semaphore
    MaxRetries,      \* max_rate_limit_retries
    RetryAfters,     \* values of a Retry-After header, 0 also for none
    FarthestDelay,   \* the longest delay that Instant::now() can be advanced by
    IdleAfter,       \* the 5 seconds after which the backoff is reset
    Period           \* time between two cells of the governor, 1/rps

ASSUME RpcClientAssumption ==
    /\ IsFiniteSet(Calls)
    /\ SignatureCalls \subseteq Calls
    /\ {MaxConcurrent, MaxRetries, FarthestDelay, IdleAfter, Period} \subseteq Nat
    /\ RetryAfters \subseteq Nat

VARIABLES
    at,        \* where each call is
    attempt,   \* its attempt, from 1
    timer,     \* time left of its sleep, or until the instant it registers
    permits,   \* free permits
    cooldown,  \* time left until rate_limit_until
    backoff,   \* current_delay of the backoff
    quiet,     \* time since last_rate_limit_at, IdleAfter + 1 also for None
    cell,      \* time until the governor lets the next request pass
    owed,      \* history: time left of the delay the call was last told; one beyond
               \* FarthestDelay is never lived through
    sent       \* history: requests sent since the cooldown became active

shared == <<permits, cooldown, backoff, quiet, cell>>
vars == <<at, attempt, timer, shared, owed, sent>>

Labels == {"cooldown", "permit", "recheck", "governor", "http", "backoff", "until",
           "last", "active", "quiet", "reset", "done", "failed"}

\* The labels at which a call has a permit.
Holding == {"recheck", "governor", "http"}

CallsAt(S) == {c \in Calls : at[c] \in S}

\* Type correctness, with the bounds of the backoff and of the attempts.
TypeOK ==
    /\ at \in [Calls -> Labels]
    /\ attempt \in [Calls -> 1 .. MaxRetries + 1]
    /\ timer \in [Calls -> Nat]
    /\ permits \in 0 .. MaxConcurrent
    /\ cooldown \in Nat
    /\ backoff \in MinDelay .. MaxDelay
    /\ quiet \in 0 .. IdleAfter + 1
    /\ cell \in 0 .. Period
    /\ owed \in [Calls -> Nat]
    /\ sent \in Nat

Init ==
    /\ at = [c \in Calls |-> "cooldown"]
    /\ attempt = [c \in Calls |-> 1]
    /\ timer = [c \in Calls |-> 0]
    /\ permits = MaxConcurrent
    /\ cooldown = 0
    /\ backoff = MinDelay
    /\ quiet = IdleAfter + 1
    /\ cell = 0
    /\ owed = [c \in Calls |-> 0]
    /\ sent = 0

-----------------------------------------------------------------------------
(* Replies.                                                                *)

\* "text": not an RPC envelope; "limit text": nor is this, but it says that the
\* rate is limited; "odd": a result of the wrong shape; "null": none, or null;
\* "limit error" and "error": an RPC error that is_rate_limited or not.
Bodies == {"text", "limit text", "odd", "null", "limit error", "error", "result"}

Replies == [tooMany : BOOLEAN,  \* status 429
            body : Bodies]

\* get_signatures retries: 429 counts only when the body does not decode.
SignaturesLimited(r) ==
    \/ r.tooMany /\ r.body \in {"text", "limit text", "odd"}
    \/ r.body = "limit error"

\* try_fetch_transaction_once: 429 counts with any error, and so does the text.
TransactionLimited(r) ==
    \/ r.tooMany /\ r.body \in {"text", "error"}
    \/ r.body \in {"limit text", "limit error"}

Limited(c, r) == IF c \in SignatureCalls THEN SignaturesLimited(r) ELSE TransactionLimited(r)

-----------------------------------------------------------------------------
(* Steps of a call.                                                        *)

GoesTo(c, label) == at' = [at EXCEPT ![c] = label]

\* One turn of wait_for_rate_limit_cooldown: sleep until the instant that is
\* set, or go on.
WaitCooldown(c, next) ==
    /\ timer[c] = 0
    /\ IF cooldown > 0
       THEN timer' = [timer EXCEPT ![c] = cooldown] /\ UNCHANGED at
       ELSE GoesTo(c, next) /\ UNCHANGED timer
    /\ UNCHANGED <<attempt, shared, owed, sent>>

CheckCooldown(c) == at[c] = "cooldown" /\ WaitCooldown(c, "permit")

\* Mutant: the permit is dropped where it is acquired.
AcquireDropped(c) ==
    /\ at[c] = "permit"
    /\ permits > 0
    /\ GoesTo(c, "recheck")
    /\ UNCHANGED <<attempt, timer, shared, owed, sent>>

Acquire(c) ==
    /\ at[c] = "permit"
    /\ permits > 0
    /\ permits' = permits - 1
    /\ GoesTo(c, "recheck")
    /\ UNCHANGED <<attempt, timer, cooldown, backoff, quiet, cell, owed, sent>>

\* Mutant: there is no second check.
RecheckSkipped(c) ==
    /\ at[c] = "recheck"
    /\ GoesTo(c, "governor")
    /\ UNCHANGED <<attempt, timer, shared, owed, sent>>

RecheckCooldown(c) == at[c] = "recheck" /\ WaitCooldown(c, "governor")

\* The governor lets the call pass, and the request goes out.
Send(c) ==
    /\ at[c] = "governor"
    /\ cell = 0
    /\ cell' = Period
    /\ sent' = IF cooldown > 0 THEN sent + 1 ELSE sent
    /\ GoesTo(c, "http")
    /\ UNCHANGED <<attempt, timer, permits, cooldown, backoff, quiet, owed>>

\* Where reply r takes call c when it is not retried.
Ends(c, r) == GoesTo(c, IF r.body = "result" THEN "active" ELSE "failed")

\* A call that is not retried waits for nothing.
NothingOwed(c) == owed' = [owed EXCEPT ![c] = 0]

\* checked_add(delay).unwrap_or_else(Instant::now): an instant that cannot be
\* represented becomes the present one.
TimeUntil(delay) == IF delay <= FarthestDelay THEN delay ELSE 0

\* The reply is read and the permit given back.  A rate limit is registered
\* and retried while attempts are left: for as long as Retry-After says, if it
\* says more than zero.
Respond(c) ==
    /\ at[c] = "http"
    /\ permits' = permits + 1
    /\ \E r \in Replies :
          IF Limited(c, r) /\ attempt[c] <= MaxRetries
          THEN \E ra \in RetryAfters :
                  /\ GoesTo(c, IF ra > 0 THEN "until" ELSE "backoff")
                  /\ timer' = [timer EXCEPT ![c] = TimeUntil(ra)]
                  /\ owed' = [owed EXCEPT ![c] = ra]
          ELSE Ends(c, r) /\ NothingOwed(c) /\ UNCHANGED timer
    /\ UNCHANGED <<attempt, cooldown, backoff, quiet, cell, sent>>

\* send() or text() fails: the permit is given back, and nothing is retried.
TransportFails(c) ==
    /\ at[c] = "http"
    /\ permits' = permits + 1
    /\ GoesTo(c, "failed")
    /\ NothingOwed(c)
    /\ UNCHANGED <<attempt, timer, cooldown, backoff, quiet, cell, sent>>

-----------------------------------------------------------------------------
(* register_rate_limit.                                                    *)

StepBackoff(c) ==
    /\ at[c] = "backoff"
    /\ \E d \in Sleeps(backoff) :
          /\ timer' = [timer EXCEPT ![c] = TimeUntil(d)]
          /\ owed' = [owed EXCEPT ![c] = d]
    /\ backoff' = NextDelay(backoff)
    /\ GoesTo(c, "until")
    /\ UNCHANGED <<attempt, permits, cooldown, quiet, cell, sent>>

\* Mutant: the instant is set whatever is there.
OverwriteUntil(c) ==
    /\ at[c] = "until"
    /\ cooldown' = timer[c]
    /\ timer' = [timer EXCEPT ![c] = 0]
    /\ GoesTo(c, "last")
    /\ UNCHANGED <<attempt, permits, backoff, quiet, cell, owed, sent>>

\* A later instant stays.
SetUntil(c) ==
    /\ at[c] = "until"
    /\ cooldown' = Larger(cooldown, timer[c])
    /\ timer' = [timer EXCEPT ![c] = 0]
    /\ GoesTo(c, "last")
    /\ UNCHANGED <<attempt, permits, backoff, quiet, cell, owed, sent>>

\* Mutant: the attempt does not count.
SetLastUncounted(c) ==
    /\ at[c] = "last"
    /\ quiet' = 0
    /\ GoesTo(c, "cooldown")
    /\ UNCHANGED <<attempt, timer, permits, cooldown, backoff, cell, owed, sent>>

\* The time of the rate limit is noted, and the next attempt begins.
SetLast(c) ==
    /\ at[c] = "last"
    /\ quiet' = 0
    /\ attempt' = [attempt EXCEPT ![c] = @ + 1]
    /\ GoesTo(c, "cooldown")
    /\ UNCHANGED <<timer, permits, cooldown, backoff, cell, owed, sent>>

-----------------------------------------------------------------------------
(* reset_rate_limit_backoff_if_idle.                                       *)

CheckActive(c) ==
    /\ at[c] = "active"
    /\ GoesTo(c, IF cooldown > 0 THEN "done" ELSE "quiet")
    /\ UNCHANGED <<attempt, timer, shared, owed, sent>>

CheckQuiet(c) ==
    /\ at[c] = "quiet"
    /\ GoesTo(c, IF quiet > IdleAfter THEN "reset" ELSE "done")
    /\ UNCHANGED <<attempt, timer, shared, owed, sent>>

ResetBackoff(c) ==
    /\ at[c] = "reset"
    /\ backoff' = MinDelay
    /\ GoesTo(c, "done")
    /\ UNCHANGED <<attempt, timer, permits, cooldown, quiet, cell, owed, sent>>

-----------------------------------------------------------------------------
Less(n) == IF n > 0 THEN n - 1 ELSE 0

LessOwed(n) == IF n <= FarthestDelay THEN Less(n) ELSE n

\* Something is left to change with time.
TimeMatters ==
    \/ cooldown > 0 \/ cell > 0 \/ quiet <= IdleAfter
    \/ \E c \in Calls : timer[c] > 0

\* A unit of time passes.
Tick ==
    /\ TimeMatters
    /\ timer' = [c \in Calls |-> Less(timer[c])]
    /\ owed' = [c \in Calls |-> LessOwed(owed[c])]
    /\ cooldown' = Less(cooldown)
    /\ cell' = Less(cell)
    /\ quiet' = Smaller(quiet + 1, IdleAfter + 1)
    /\ sent' = IF cooldown > 1 THEN sent ELSE 0
    /\ UNCHANGED <<at, attempt, permits, backoff>>

\* All calls have returned, and no time is left to pass.
Returned ==
    /\ \A c \in Calls : at[c] \in {"done", "failed"}
    /\ ~TimeMatters
    /\ UNCHANGED vars

CallStep(c) ==
    \/ CheckCooldown(c) \/ Acquire(c) \/ RecheckCooldown(c) \/ Send(c)
    \/ Respond(c) \/ TransportFails(c)
    \/ StepBackoff(c) \/ SetUntil(c) \/ SetLast(c)
    \/ CheckActive(c) \/ CheckQuiet(c) \/ ResetBackoff(c)

Next == (\E c \in Calls : CallStep(c)) \/ Tick \/ Returned

Spec == Init /\ [][Next]_vars

\* Tasks are polled, time passes, and a request is answered or fails in the end.
Fairness == WF_vars(Tick) /\ \A c \in Calls : WF_vars(CallStep(c))

FairSpec == Spec /\ Fairness

-----------------------------------------------------------------------------
\* No more requests are out than the semaphore has permits, over replies,
\* failures and retries.
ConcurrencyIsBounded == Cardinality(CallsAt({"http"})) <= MaxConcurrent

\* While a cooldown is active no more requests go out than there are permits:
\* only those that had a permit and had checked the cooldown when it began,
\* however many calls wait, and however often the cooldown is prolonged.
FewSentDuringCooldown == sent <= MaxConcurrent

\* A call that was told to wait does not send its next request before that
\* time is over, whatever other calls register or clear meanwhile.  The one
\* exception is a Retry-After that no Instant can hold: register_rate_limit sets
\* no cooldown for it, but it does not cut short the wait of any other call.
RetryHonoursDelay ==
    \A c \in Calls : at[c] = "http" => owed[c] = 0 \/ owed[c] > FarthestDelay

\* Every call returns: no permit is lost and no call waits for ever.
EveryCallReturns == <>(\A c \in Calls : at[c] \in {"done", "failed"})

-----------------------------------------------------------------------------
(* The inductive invariant.                                                *)

\* A permit is either free or in the hands of one of the calls that need one.
PermitsAreKept == permits + Cardinality(CallsAt(Holding)) = MaxConcurrent

\* The requests sent during a cooldown, and those that the governor may still
\* let pass during it, had their permits when it began.
SentHadPermit ==
    /\ cooldown = 0 => sent = 0
    /\ cooldown > 0 => sent + Cardinality(CallsAt({"governor"})) <= MaxConcurrent

\* The delay a call was told is covered by its own timer, then by the cooldown,
\* and is over when the call has passed the second check of the cooldown.
DelayIsCovered ==
    \A c \in Calls : owed[c] <= FarthestDelay =>
        /\ at[c] = "until" => owed[c] <= timer[c]
        /\ at[c] \in {"last", "cooldown", "permit", "recheck"} => owed[c] <= cooldown
        /\ at[c] \in {"governor", "http"} => owed[c] = 0

\* A call that may be retried has an attempt left.
AttemptsLeft ==
    \A c \in Calls : at[c] \in {"backoff", "until", "last"} => attempt[c] <= MaxRetries

RpcInv == TypeOK /\ PermitsAreKept /\ SentHadPermit /\ DelayIsCovered /\ AttemptsLeft
=============================================================================
