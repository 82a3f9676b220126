-------------------------------- MODULE Stats --------------------------------
(***************************************************************************)
(* The two ledgers that get_file keeps of its requests (src/main.rs):      *)
(* GlobalStats, whose counters emit_summary increments one by one and a    *)
(* task reads and resets one by one every minute, and OtlpMetrics, whose   *)
(* counters only grow.  Requests run from their start to one of the exits  *)
(* of get_file_inner, or are dropped when their client goes away.  What    *)
(* the cache, the resolver and the remote server answer is a choice.       *)
(***************************************************************************)
EXTENDS Integers, SequencesExt, FiniteSetsExt

CONSTANTS
  Requests,
  FetchKinds,     \* of classify_reqwest_error, in the order of swap_reset_ferr
  Details,        \* of errors, see Category
  MaxSends,       \* bound: how many URLs each request is sent to
  MaxSweeps       \* bound: sweeps of the periodic task

\* proxy_error_category of an error detail or X-Proxy-Error.
Category ==
  [Blocked |-> "policy_reject", UnsupportedScheme |-> "internal_error", InvalidUrl |-> "internal_error",
   DownloadSemaphoreError |-> "internal_error", TooManyRedirects |-> "internal_error",
   InvalidRedirect |-> "internal_error", StatusError |-> "perr_upstream_status",
   BufferBudgetError |-> "size_reject", ResponseTooLarge |-> "internal_error",
   CpuSemaphoreError |-> "encode_error", DecodeError |-> "decode_error", CodecError |-> "internal_error",
   EncodeError |-> "encode_error", ImageEncodeTimeout |-> "encode_error",
   NonBrowsersafeType |-> "internal_error"]

Denials == {"Blocked", "UnsupportedScheme", "InvalidUrl"}
Redirections == {"TooManyRedirects", "InvalidRedirect"}
Waits == {"DownloadSemaphoreError"}
Encodings == DOMAIN Category \ (Denials \cup Redirections \cup Waits)

ASSUME StatsAssumption ==
  /\ IsFiniteSet(Requests) /\ MaxSends \in [Requests -> Nat] /\ MaxSweeps \in Nat
  /\ FetchKinds \in Seq({"connect", "timeout", "dns", "reset", "body", "other"}) /\ IsInjective(FetchKinds)
  /\ Details \subseteq DOMAIN Category

Classes == {Category[d] : d \in Details} \cup {"internal_error"}

Fetch == [connect |-> "ferr_connect", timeout |-> "ferr_timeout", dns |-> "ferr_dns",
          reset |-> "ferr_reset", body |-> "ferr_body", other |-> "ferr_other"]

\* The counters in the order in which they are swapped.
Swept ==
  <<"requests", "errors", "cache_hits", "cache_misses">>
  \o [i \in DOMAIN FetchKinds |-> Fetch[FetchKinds[i]]]
  \o <<"retry_attempts", "retry_saved", "http_responses", "cache_stale_served", "upstream">>
  \o <<"perr_upstream_status", "decode_error", "encode_error", "size_reject", "policy_reject",
       "internal_error">>

CacheResults == {"hit", "joined", "miss", "bypass", "stale"}
Counter == Range(Swept)

\* No counter is swapped twice in one sweep: its second reading would replace the first.
ASSUME SweptAssumption == Swept \in Seq(STRING) /\ \A i, j \in DOMAIN Swept : Swept[i] = Swept[j] => i = j

VARIABLES
  counter,     \* of GlobalStats
  sweep,       \* [pos, read, done]: the next counter, those this sweep has read, sweeps so far
  reported,    \* sums of what sweeps have logged
  made,        \* history: how often a counter was incremented
  otlp,        \* [requests, errors, active, attempts, successes, cache, fetch, processing]
  pc,
  timings,     \* of a request: [cache, fetch, upstream, retried, rescued]
  todo,        \* counters that emit_summary has still to increment
  failed,      \* whether what a request is answered with is an error to get_file
  sends

vars == <<counter, sweep, reported, made, otlp, pc, timings, todo, failed, sends>>

Zero == [c \in Counter |-> 0]
NoTimings == [cache |-> "none", fetch |-> "none", upstream |-> FALSE, retried |-> FALSE, rescued |-> FALSE]

Init ==
  /\ counter = Zero /\ reported = Zero /\ made = Zero
  /\ sweep = [pos |-> 1, read |-> Zero, done |-> 0]
  /\ otlp = [requests |-> 0, errors |-> 0, active |-> 0, attempts |-> 0, successes |-> 0,
             cache |-> [c \in CacheResults |-> 0], fetch |-> [k \in Range(FetchKinds) |-> 0], processing |-> [c \in Classes |-> 0]]
  /\ pc = [r \in Requests |-> "new"]
  /\ timings = [r \in Requests |-> NoTimings]
  /\ todo = [r \in Requests |-> <<>>]
  /\ failed = [r \in Requests |-> FALSE]
  /\ sends = [r \in Requests |-> 0]

Increment(c) ==
  /\ counter' = [counter EXCEPT ![c] = @ + 1]
  /\ made' = [made EXCEPT ![c] = @ + 1]

\* One for a condition that holds.
One(condition) == IF condition THEN 1 ELSE 0
When(condition, c) == IF condition THEN <<c>> ELSE <<>>

-----------------------------------------------------------------------------
\* emit_summary(status, labelled, detail), where labelled is its has_error

\* Mutant: the class of an error is counted without looking at fetch_err.
CountsTwice(t, status, labelled, detail) ==
  <<"requests">>
  \o When(t.upstream, "upstream")
  \o When(status >= 400 \/ labelled, "errors")
  \o When(labelled, IF detail = "none" THEN "internal_error" ELSE Category[detail])
  \o When(t.cache \in {"hit", "joined"}, "cache_hits")
  \o When(t.cache = "miss", "cache_misses") \o When(t.cache = "stale", "cache_stale_served")
  \o (IF t.fetch = "none" THEN <<>> ELSE <<Fetch[t.fetch]>>)
  \o When(t.retried /\ status = 200, "retry_saved")

\* What it increments, in this order.
Counts(t, status, labelled, detail) ==
  <<"requests">>
  \o When(t.upstream, "upstream")
  \o When(status >= 400 \/ labelled, "errors")
  \o When(labelled /\ t.fetch = "none", IF detail = "none" THEN "internal_error" ELSE Category[detail])
  \o When(t.cache \in {"hit", "joined"}, "cache_hits")
  \o When(t.cache = "miss", "cache_misses") \o When(t.cache = "stale", "cache_stale_served")
  \o (IF t.fetch = "none" THEN <<>> ELSE <<Fetch[t.fetch]>>)
  \o When(t.retried /\ status = 200, "retry_saved")

\* record_phases and record_outcome: the other ledger, first.
Outcome(t, status, labelled, detail) ==
  [otlp EXCEPT
     !.cache = [c \in CacheResults |-> @[c] + One(t.cache = c)],
     !.successes = @ + One(t.rescued),
     !.fetch = [k \in DOMAIN @ |-> @[k] + One(t.fetch = k)],
     !.processing =
       [c \in Classes |->
          @[c] + One(/\ t.fetch = "none" /\ (status >= 400 \/ labelled) /\ c # "perr_upstream_status"
                     /\ c = (IF detail = "none" THEN "internal_error" ELSE Category[detail]))]]

\* An exit of get_file_inner.  Whether get_file calls the answer an error depends on the
\* header X-Proxy-Error, which stale entries never have.
Emit(r, t, status, labelled, detail) ==
  /\ timings' = [timings EXCEPT ![r] = t]
  /\ todo' = [todo EXCEPT ![r] = Counts(t, status, labelled, detail)]
  /\ otlp' = Outcome(t, status, labelled, detail)
  /\ failed' = [failed EXCEPT ![r] = status >= 400 \/ (labelled /\ t.cache # "stale")]
  /\ pc' = [pc EXCEPT ![r] = "emit"]
  /\ UNCHANGED <<counter, sweep, reported, made, sends>>

\* The dummy image, or an error.
Refusal(r, t, detail) ==
  \E status \in {200, 400} : Emit(r, t, status, TRUE, detail)

\* A stale entry after a failed fetch, for requests without Range, or the failure itself.
FetchFailure(r, t) ==
  \/ t.cache # "bypass" /\ Emit(r, [t EXCEPT !.cache = "stale"], 200, TRUE, "none")
  \/ Refusal(r, t, "none")

Goto(r, label) == pc' = [pc EXCEPT ![r] = label]
Observe(r, t) == timings' = [timings EXCEPT ![r] = t]

-----------------------------------------------------------------------------
\* Requests

\* ActiveRequestGuard::new
Begin(r) ==
  /\ pc[r] = "new" /\ Goto(r, "start")
  /\ otlp' = [otlp EXCEPT !.active = @ + 1]
  /\ UNCHANGED <<counter, sweep, reported, made, timings, todo, failed, sends>>

Hit(r) == pc[r] = "start" /\ Emit(r, [timings[r] EXCEPT !.cache = "hit"], 200, FALSE, "none")

\* A flight is joined; it ends with an entry, or a stale one is served.
Joined(r) ==
  /\ pc[r] = "start"
  /\ \E c \in {"joined", "stale"} : Emit(r, [timings[r] EXCEPT !.cache = c], 200, FALSE, "none")

\* A request that joined a flight for nothing stays "joined" when it fetches itself.
Proceed(r) ==
  /\ pc[r] = "start" /\ Goto(r, "check")
  /\ \E c \in {"joined", "miss", "bypass"} : Observe(r, [timings[r] EXCEPT !.cache = c])
  /\ UNCHANGED <<counter, sweep, reported, made, otlp, todo, failed, sends>>

\* check_url refuses, or cannot resolve.
CheckFails(r) ==
  /\ pc[r] = "check"
  /\ \/ \E d \in Details \cap Denials : Refusal(r, timings[r], d)
     \/ "dns" \in Range(FetchKinds) /\ FetchFailure(r, [timings[r] EXCEPT !.fetch = "dns"])

WaitFails(r) ==
  /\ pc[r] = "check"
  /\ \E d \in Details \cap Waits : Emit(r, timings[r], 503, TRUE, d)

Send(r) ==
  /\ pc[r] = "check" /\ sends[r] < MaxSends[r] /\ Goto(r, "sent")
  /\ sends' = [sends EXCEPT ![r] = 1]
  /\ UNCHANGED <<counter, sweep, reported, made, otlp, timings, todo, failed>>

\* Without a retry.  (A refetch that fails may go on with the partial image: SendOk.)
SendFails(r) ==
  /\ pc[r] = "sent"
  /\ \E k \in Range(FetchKinds) : FetchFailure(r, [timings[r] EXCEPT !.fetch = k])

Retry(r) ==
  /\ pc[r] = "sent" /\ timings[r].cache # "bypass" /\ Goto(r, "retry")
  /\ Increment("retry_attempts")
  /\ otlp' = [otlp EXCEPT !.attempts = @ + 1]
  /\ UNCHANGED <<sweep, reported, timings, todo, failed, sends>>

RetryOk(r) ==
  /\ pc[r] = "retry" /\ Goto(r, "headers")
  /\ Observe(r, [timings[r] EXCEPT !.retried = TRUE, !.rescued = TRUE])
  /\ UNCHANGED <<counter, sweep, reported, made, otlp, todo, failed, sends>>

RetryFails(r) ==
  /\ pc[r] = "retry"
  /\ \E k \in Range(FetchKinds) :
       FetchFailure(r, [timings[r] EXCEPT !.fetch = k, !.retried = TRUE])

SendOk(r) ==
  /\ pc[r] = "sent" /\ Goto(r, "headers")
  /\ UNCHANGED <<counter, sweep, reported, made, otlp, timings, todo, failed, sends>>

\* A redirect, or a partial image that is fetched again without Range.
SendAgain(r) ==
  /\ pc[r] = "headers" /\ sends[r] < MaxSends[r] /\ Goto(r, "sent")
  /\ sends' = [sends EXCEPT ![r] = @ + 1]
  /\ UNCHANGED <<counter, sweep, reported, made, otlp, timings, todo, failed>>

\* No stale entry covers for what a redirect leads to.
RedirectFails(r) ==
  /\ pc[r] = "headers"
  /\ \/ \E d \in Details \cap (Denials \cup {"InvalidRedirect"}) : Refusal(r, timings[r], d)
     \/ \E d \in Details \cap {"TooManyRedirects"} : Emit(r, timings[r], 502, TRUE, d)
     \/ "dns" \in Range(FetchKinds) /\ Refusal(r, [timings[r] EXCEPT !.fetch = "dns"], "none")

\* A response of HTTP/1 or HTTP/2; the client speaks no other version.
Headers(r) ==
  /\ pc[r] = "headers" /\ Goto(r, "encode")
  /\ Observe(r, [timings[r] EXCEPT !.upstream = TRUE])
  /\ Increment("http_responses")
  /\ UNCHANGED <<sweep, reported, otlp, todo, failed, sends>>

\* See Encode: a success, an error, or one without a name.
EncodeAnswers(r) ==
  /\ pc[r] = "encode"
  /\ \/ Emit(r, timings[r], 200, FALSE, "none")
     \/ Emit(r, timings[r], 500, FALSE, "none")
     \/ \E d \in Details \cap Encodings, status \in {200, 502} : Emit(r, timings[r], status, TRUE, d)

\* The body breaks off: a stale entry may be served, and is no error then.
BodyFails(r) ==
  /\ pc[r] = "encode"
  /\ \E k \in Range(FetchKinds) :
       LET t == [timings[r] EXCEPT !.fetch = k]
       IN  \/ Emit(r, t, 502, TRUE, "none")
           \/ Emit(r, [t EXCEPT !.cache = "stale"], 200, FALSE, "none")

EmitNext(r) ==
  /\ pc[r] = "emit" /\ todo[r] # <<>>
  /\ Increment(Head(todo[r]))
  /\ todo' = [todo EXCEPT ![r] = Tail(@)]
  /\ UNCHANGED <<sweep, reported, otlp, pc, timings, failed, sends>>

\* get_file: record_completion, and the end of everything that belonged to the request.
Complete(r) ==
  /\ pc[r] = "emit" /\ todo[r] = <<>> /\ Goto(r, "answered")
  /\ otlp' = [otlp EXCEPT !.requests = @ + 1, !.errors = @ + One(failed[r]), !.active = @ - 1]
  /\ timings' = [timings EXCEPT ![r] = NoTimings] /\ sends' = [sends EXCEPT ![r] = 0]
  /\ failed' = [failed EXCEPT ![r] = FALSE]
  /\ UNCHANGED <<counter, sweep, reported, made, todo>>

\* The client goes away while the handler waits; nothing waits once a summary is emitted.
Drop(r) ==
  /\ pc[r] \in {"start", "check", "sent", "retry", "headers", "encode"} /\ Goto(r, "dropped")
  /\ otlp' = [otlp EXCEPT !.active = @ - 1]
  /\ timings' = [timings EXCEPT ![r] = NoTimings] /\ sends' = [sends EXCEPT ![r] = 0]
  /\ UNCHANGED <<counter, sweep, reported, made, todo, failed>>

-----------------------------------------------------------------------------
\* The periodic task

\* Mutant: a counter is loaded, and set to zero when the next one is.
SwapLate ==
  /\ sweep.pos \in DOMAIN Swept /\ sweep.done < MaxSweeps
  /\ LET c == Swept[sweep.pos]
     IN  /\ sweep' = [sweep EXCEPT !.pos = @ + 1, !.read = [@ EXCEPT ![c] = counter[c]]]
         /\ counter' = IF sweep.pos = 1 THEN counter ELSE [counter EXCEPT ![Swept[sweep.pos - 1]] = 0]
  /\ UNCHANGED <<reported, made, otlp, pc, timings, todo, failed, sends>>

Swap ==
  /\ sweep.pos \in DOMAIN Swept /\ sweep.done < MaxSweeps
  /\ LET c == Swept[sweep.pos]
     IN  /\ sweep' = [sweep EXCEPT !.pos = @ + 1, !.read = [@ EXCEPT ![c] = counter[c]]]
         /\ counter' = [counter EXCEPT ![c] = 0]
  /\ UNCHANGED <<reported, made, otlp, pc, timings, todo, failed, sends>>

\* The line periodic_stats is logged.
Log ==
  /\ sweep.pos \notin DOMAIN Swept
  /\ reported' = [c \in Counter |-> reported[c] + sweep.read[c]]
  /\ sweep' = [pos |-> 1, read |-> Zero, done |-> sweep.done + 1]
  /\ UNCHANGED <<counter, made, otlp, pc, timings, todo, failed, sends>>

Step(r) ==
  \/ Begin(r) \/ Hit(r) \/ Joined(r) \/ Proceed(r) \/ CheckFails(r) \/ WaitFails(r) \/ Send(r)
  \/ SendFails(r) \/ Retry(r) \/ RetryOk(r) \/ RetryFails(r) \/ SendOk(r) \/ SendAgain(r)
  \/ RedirectFails(r) \/ Headers(r) \/ EncodeAnswers(r) \/ BodyFails(r) \/ EmitNext(r)
  \/ Complete(r) \/ Drop(r)

Next == (\E r \in Requests : Step(r)) \/ Swap \/ Log

Spec == Init /\ [][Next]_vars

-----------------------------------------------------------------------------
\* Properties

TypeOK ==
  /\ counter \in [Counter -> Nat] /\ reported \in [Counter -> Nat] /\ made \in [Counter -> Nat]
  /\ sweep \in [pos : Nat \ {0}, read : [Counter -> Nat], done : Nat]

\* Whatever requests count while a sweep is under way is in the next report, if it is not in
\* this one: the task that resets counters loses nothing (main.rs:592).
NothingLost ==
  \A c \in Counter : made[c] = counter[c] + sweep.read[c] + reported[c]

With(phase) == {r \in Requests : pc[r] = phase}

\* The counters of which an answer increments at most one, for what went wrong.
ErrorCounters == Classes \cup {Fetch[k] : k \in Range(FetchKinds)}

\* The two ledgers, which classify errors on their own, agree when nothing is between them.
\* Both count each answer once, whatever exit it leaves by, and neither one that was dropped;
\* each answer has one cache result; fetch errors agree by kind, and other errors by class up
\* to those without a header (500 of a resize), which only OTLP calls internal.  Errors differ
\* by the stale answers to a failed check or fetch, which have no header.
LedgersAgree ==
  With("emit") = {} =>
    /\ made["requests"] = otlp.requests /\ otlp.requests = Cardinality(With("answered"))
    /\ otlp.active = Cardinality(Requests \ (With("new") \cup With("answered") \cup With("dropped")))
    /\ otlp.cache["hit"] + otlp.cache["joined"] = made["cache_hits"]
    /\ otlp.cache["miss"] = made["cache_misses"] /\ otlp.cache["stale"] = made["cache_stale_served"]
    /\ SumFunctionOnSet(otlp.cache, CacheResults) = made["requests"]
    /\ \A k \in Range(FetchKinds) : otlp.fetch[k] = made[Fetch[k]]
    /\ \A c \in Classes \ {"perr_upstream_status", "internal_error"} : otlp.processing[c] = made[c]
    /\ SumFunctionOnSet(made, ErrorCounters) <= made["requests"]
    /\ otlp.errors <= made["errors"] /\ made["errors"] - otlp.errors <= otlp.cache["stale"]
    /\ otlp.attempts = made["retry_attempts"]
    /\ made["retry_saved"] <= made["retry_attempts"] /\ otlp.successes <= otlp.attempts
=============================================================================
