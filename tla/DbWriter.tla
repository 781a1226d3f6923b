------------------------------ MODULE DbWriter ------------------------------
(***************************************************************************)
(* timescaledb.Writer.WriteBatch: the retry loop of writeBatchWithRetry    *)
(* inside a sony/gobreaker circuit breaker, called by every writer         *)
(* goroutine of the batcher and, during shutdown, by its accumulator.      *)
(*                                                                         *)
(* Callers call again and again, each time with a fresh batch.  The        *)
(* breaker's generation number only ever serves to ignore the result of a  *)
(* request admitted in an earlier generation, so a request remembers       *)
(* whether its generation is still the breaker's instead of a number.      *)
(***************************************************************************)
EXTENDS Naturals, FiniteSets

CONSTANTS
    Callers,       \* goroutines that call WriteBatch
    MaxRetries,    \* WriterConfig.MaxRetries
    TripAfter,     \* ReadyToTrip: this many consecutive failures (5)
    MaxRequests,   \* gobreaker.Settings.MaxRequests (2)
    PoisonBatches  \* whether a batch can be refused for its data

ASSUME DbWriterAssumption ==
    /\ IsFiniteSet(Callers) /\ Callers # {}
    /\ MaxRetries \in Nat
    /\ TripAfter \in Nat \ {0}
    /\ MaxRequests \in Nat \ {0}
    /\ PoisonBatches \in BOOLEAN

VARIABLES
    dbUp,        \* whether the database answers
    useCopy,     \* WriterConfig.UseCopyProtocol, fixed at the start
    cbState,     \* the breaker: "closed", "open", "half-open"
    failures,    \* counts.ConsecutiveFailures
    successes,   \* counts.ConsecutiveSuccesses, read when half-open
    requests,    \* counts.Requests, read when half-open
    pc,          \* where each caller is in WriteBatch
    attempt,     \* the retry loop's counter
    current,     \* whether the caller's request is of the breaker's generation
    err,         \* the retry loop's err # nil
    commits,     \* how often the rows of the caller's batch were committed
    result       \* what its last WriteBatch returned

breakerVars == <<cbState, failures, successes, requests>>
callVars    == <<pc, attempt, err, commits, result>>
writeBatchVars == <<dbUp, useCopy, breakerVars, current, callVars>>

States  == {"closed", "open", "half-open"}
Pcs     == {"idle", "attempt", "backoff", "after"}
Results == {"none", "ok", "failed", "rejected"}

WriterInit ==
    /\ dbUp = TRUE
    /\ useCopy \in BOOLEAN
    /\ cbState = "closed"
    /\ failures = 0
    /\ successes = 0
    /\ requests = 0
    /\ pc = [c \in Callers |-> "idle"]
    /\ attempt = [c \in Callers |-> 0]
    /\ current = [c \in Callers |-> FALSE]
    /\ err = [c \in Callers |-> FALSE]
    /\ commits = [c \in Callers |-> 0]
    /\ result = [c \in Callers |-> "none"]

-----------------------------------------------------------------------------
(* gobreaker.                                                              *)

\* beforeRequest lets the request through.
Admits == \/ cbState = "closed"
          \/ cbState = "half-open" /\ requests < MaxRequests

\* setState / toNewGeneration: the counts start over and the results of the
\* requests still running will be ignored.
NewGeneration(state) ==
    /\ cbState' = state
    /\ failures' = 0
    /\ successes' = 0
    /\ requests' = 0
    /\ current' = [c \in Callers |-> FALSE]

\* Mutant: the half-open breaker waits for one success more than it admits.
MutantClosesLate(c) ==
    IF cbState = "half-open" /\ successes >= MaxRequests
    THEN NewGeneration("closed")
    ELSE /\ failures' = 0
         /\ successes' = IF cbState = "half-open" THEN successes + 1 ELSE successes
         /\ current' = [current EXCEPT ![c] = FALSE]
         /\ UNCHANGED <<cbState, requests>>

\* afterRequest of a request of this generation that succeeded and now is over.
OnSuccess(c) ==
    IF cbState = "half-open" /\ successes + 1 >= MaxRequests
    THEN NewGeneration("closed")
    ELSE /\ failures' = 0
         /\ successes' = IF cbState = "half-open" THEN successes + 1 ELSE successes
         /\ current' = [current EXCEPT ![c] = FALSE]
         /\ UNCHANGED <<cbState, requests>>

\* ... that failed.
OnFailure(c) ==
    IF cbState = "half-open" \/ failures + 1 >= TripAfter
    THEN NewGeneration("open")
    ELSE /\ failures' = failures + 1
         /\ current' = [current EXCEPT ![c] = FALSE]
         /\ UNCHANGED <<cbState, successes, requests>>

\* Settings.Timeout after the breaker opened.
BreakerTimeout ==
    /\ cbState = "open"
    /\ NewGeneration("half-open")
    /\ UNCHANGED <<dbUp, useCopy, callVars>>

\* Settings.Interval: the counts of a closed breaker are cleared every 30 s.
BreakerInterval ==
    /\ cbState = "closed"
    /\ NewGeneration("closed")
    /\ UNCHANGED <<dbUp, useCopy, callVars>>

-----------------------------------------------------------------------------
(* WriteBatch.                                                             *)

\* breaker.Execute: admitted, the retry loop starts.
Call(c) ==
    /\ pc[c] = "idle"
    /\ Admits
    /\ requests' = IF cbState = "half-open" THEN requests + 1 ELSE requests
    /\ current' = [current EXCEPT ![c] = TRUE]
    /\ pc' = [pc EXCEPT ![c] = "attempt"]
    /\ attempt' = [attempt EXCEPT ![c] = 0]
    /\ err' = [err EXCEPT ![c] = FALSE]
    /\ commits' = [commits EXCEPT ![c] = 0]
    /\ result' = [result EXCEPT ![c] = "none"]
    /\ UNCHANGED <<dbUp, useCopy, cbState, failures, successes>>

\* breaker.Execute: ErrOpenState or ErrTooManyRequests, with no attempt.
Refused(c) ==
    /\ pc[c] = "idle"
    /\ ~Admits
    /\ commits' = [commits EXCEPT ![c] = 0]
    /\ result' = [result EXCEPT ![c] = "rejected"]
    /\ UNCHANGED <<dbUp, useCopy, breakerVars, current, pc, attempt, err>>

\* The COPY or INSERT commits, and the answer to the commit arrives.
AttemptSucceeds(c) ==
    /\ pc[c] = "attempt"
    /\ dbUp
    /\ commits' = [commits EXCEPT ![c] = @ + 1]
    /\ err' = [err EXCEPT ![c] = FALSE]
    /\ pc' = [pc EXCEPT ![c] = "after"]
    /\ UNCHANGED <<dbUp, useCopy, breakerVars, current, attempt, result>>

\* The INSERT path only.  Every row was answered, but the commit of the implicit
\* transaction, at the Sync that ends the batch, failed: only results.Close() says
\* so, and the deferred call drops its error.  (A commit of which only the answer
\* is lost there ends as AttemptSucceeds does.)
CommitErrorDropped(c) ==
    /\ pc[c] = "attempt"
    /\ ~useCopy
    /\ err' = [err EXCEPT ![c] = FALSE]
    /\ pc' = [pc EXCEPT ![c] = "after"]
    /\ UNCHANGED <<dbUp, useCopy, breakerVars, current, attempt, commits, result>>

\* Mutant: the loop gives up without an error.
MutantForgetsError(c) ==
    /\ err' = [err EXCEPT ![c] = attempt[c] < MaxRetries]
    /\ pc' = [pc EXCEPT ![c] = IF attempt[c] < MaxRetries THEN "backoff" ELSE "after"]

\* A retryable error: the loop goes on while attempts are left.
RetryOrGiveUp(c) ==
    /\ err' = [err EXCEPT ![c] = TRUE]
    /\ pc' = [pc EXCEPT ![c] = IF attempt[c] < MaxRetries THEN "backoff" ELSE "after"]

\* The database is away, or rolled the transaction back.
AttemptFails(c) ==
    /\ pc[c] = "attempt"
    /\ ~dbUp
    /\ RetryOrGiveUp(c)
    /\ UNCHANGED <<dbUp, useCopy, breakerVars, current, attempt, commits, result>>

\* WriteTimeout or a reset connection after the commit: the rows are there and
\* the error is a retryable one.
AnswerLost(c) ==
    /\ pc[c] = "attempt"
    /\ ~dbUp
    /\ commits' = [commits EXCEPT ![c] = @ + 1]
    /\ RetryOrGiveUp(c)
    /\ UNCHANGED <<dbUp, useCopy, breakerVars, current, attempt, result>>

\* A SQLSTATE outside the retryable classes: one row spoils the batch.
AttemptRefused(c) ==
    /\ pc[c] = "attempt"
    /\ dbUp
    /\ PoisonBatches
    /\ err' = [err EXCEPT ![c] = TRUE]
    /\ pc' = [pc EXCEPT ![c] = "after"]
    /\ UNCHANGED <<dbUp, useCopy, breakerVars, current, attempt, commits, result>>

\* Mutant: the loop counter is not advanced.
MutantForgetsToCount(c) ==
    /\ pc[c] = "backoff"
    /\ pc' = [pc EXCEPT ![c] = "attempt"]
    /\ UNCHANGED <<dbUp, useCopy, breakerVars, current, attempt, err, commits, result>>

\* The backoff timer fires (the context is context.Background()).
Backoff(c) ==
    /\ pc[c] = "backoff"
    /\ pc' = [pc EXCEPT ![c] = "attempt"]
    /\ attempt' = [attempt EXCEPT ![c] = @ + 1]
    /\ UNCHANGED <<dbUp, useCopy, breakerVars, current, err, commits, result>>

\* The loop has ended: afterRequest, and WriteBatch returns, with the loop's locals.
Return(c) ==
    /\ pc[c] = "after"
    /\ \/ /\ current[c]
          /\ ~err[c]
          /\ OnSuccess(c)
       \/ /\ current[c]
          /\ err[c]
          /\ OnFailure(c)
       \/ /\ ~current[c]
          /\ UNCHANGED <<breakerVars, current>>
    /\ pc' = [pc EXCEPT ![c] = "idle"]
    /\ result' = [result EXCEPT ![c] = IF err[c] THEN "failed" ELSE "ok"]
    /\ attempt' = [attempt EXCEPT ![c] = 0]
    /\ err' = [err EXCEPT ![c] = FALSE]
    /\ UNCHANGED <<dbUp, useCopy, commits>>

\* The environment: the database goes away or comes back.
DbChanges ==
    /\ dbUp' = ~dbUp
    /\ UNCHANGED <<useCopy, breakerVars, current, callVars>>

-----------------------------------------------------------------------------

Caller(c) == \/ Call(c) \/ Refused(c) \/ AttemptSucceeds(c) \/ AttemptFails(c)
             \/ CommitErrorDropped(c) \/ AnswerLost(c) \/ AttemptRefused(c) \/ Backoff(c) \/ Return(c)

WriterNext == \/ \E c \in Callers : Caller(c)
              \/ BreakerTimeout
              \/ BreakerInterval
              \/ DbChanges

WriterSpec == WriterInit /\ [][WriterNext]_writeBatchVars

(***************************************************************************)
(* Fairness.  Every attempt ends (WriteTimeout), timers fire, callers keep *)
(* calling, and the breaker's timeout passes.  The database owes nothing.  *)
(***************************************************************************)
WriterFairness == /\ \A c \in Callers : WF_writeBatchVars(Caller(c))
                  /\ WF_writeBatchVars(BreakerTimeout)

WriterFairSpec == WriterSpec /\ WriterFairness

-----------------------------------------------------------------------------
(* Properties.                                                             *)

\* Every variable has its type; no batch is committed more than once per
\* attempt, so at most MaxRetries + 1 times.
WriterTypeOK ==
    /\ dbUp \in BOOLEAN
    /\ useCopy \in BOOLEAN
    /\ cbState \in States
    /\ failures \in 0 .. TripAfter - 1
    /\ successes \in 0 .. MaxRequests - 1
    /\ requests \in 0 .. MaxRequests
    /\ pc \in [Callers -> Pcs]
    /\ attempt \in [Callers -> 0 .. MaxRetries]
    /\ current \in [Callers -> BOOLEAN]
    /\ err \in [Callers -> BOOLEAN]
    /\ commits \in [Callers -> 0 .. MaxRetries + 1]
    /\ result \in [Callers -> Results]

\* With the COPY protocol WriteBatch returns nil only for a batch whose rows are
\* in the database, whatever attempts failed or lost their answer before: a caller
\* that releases the points of a "written" batch does not lose them.  (With INSERT
\* a nil says less, see CommitErrorDropped.)  On either path what the breaker
\* refused never got there.
ResultIsHonest ==
    \A c \in Callers :
        /\ useCopy /\ result[c] = "ok" => commits[c] > 0
        /\ result[c] = "rejected" => commits[c] = 0

\* The inductive invariant behind the types and ResultIsHonest: how often the rows
\* can have been committed at each point of the retry loop.
CallInv ==
    \A c \in Callers :
        /\ pc[c] = "attempt" => commits[c] <= attempt[c]
        /\ pc[c] \in {"backoff", "after"} => commits[c] <= attempt[c] + 1
        /\ pc[c] = "backoff" => attempt[c] < MaxRetries
        /\ useCopy /\ pc[c] = "after" /\ ~err[c] => commits[c] > 0
        /\ pc[c] # "idle" => result[c] = "none"
        /\ useCopy /\ result[c] = "ok" => commits[c] > 0
        /\ result[c] = "rejected" => commits[c] = 0

\* A call returns: the retry loop is bounded and so is the queue it blocks.
EveryCallReturns == \A c \in Callers : pc[c] # "idle" ~> pc[c] = "idle"

\* Once the database stays up and refuses no batch for its contents, the breaker
\* closes and stays closed: no request of the outage that ends late holds it open.
BreakerRecovers ==
    <>[]dbUp /\ <>[][\A c \in Callers : ~AttemptRefused(c)]_writeBatchVars
        => <>[](cbState = "closed")
=============================================================================
