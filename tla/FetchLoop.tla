------------------------------ MODULE FetchLoop ------------------------------
(***************************************************************************)
(* The fetch of get_file_inner (src/main.rs): sending the request, one     *)
(* retry after a failed connection, following redirects by hand with a     *)
(* check of each target, and fetching a partial image again without Range, *)
(* with the partial response in reserve.  URLs are atoms; what servers and *)
(* the resolver answer, and how long they take, is a choice.               *)
(***************************************************************************)
EXTENDS Naturals

CONSTANTS
  Urls,
  MaxRedirects,   \* MAX_REDIRECTS
  Timeout,        \* config.timeout
  RetryDelay,     \* config.fetch_retry_delay_ms
  SendTimes,      \* how long a send may take
  MaxElapsed      \* the clock stops here

ASSUME FetchAssumption ==
  /\ MaxRedirects \in Nat /\ Timeout \in Nat /\ RetryDelay \in Nat
  /\ SendTimes \subseteq Nat /\ SendTimes # {}
  /\ MaxElapsed \in Nat /\ MaxElapsed > Timeout

VARIABLES
  hasRange,    \* the client sent a Range header
  loopPc,
  url,         \* current_url
  target,      \* next_url
  range,       \* forward_range
  partial,     \* partial_image_response is there
  redirects,
  elapsed,     \* send_start.elapsed()
  response,    \* resp
  retried,     \* the send under way, or the last one, is a retry
  fetchErr,    \* timings.fetch_err is set
  result,      \* what the loop ends with
  checkedUrls  \* the URLs check_url has let pass

loopVars == <<hasRange, loopPc, url, target, range, partial, redirects, elapsed, response, retried,
              fetchErr, result, checkedUrls>>

Responses == [status : {"partial", "redirect", "other"}, image : BOOLEAN]

PartialImage == [status |-> "partial", image |-> TRUE]

Results == {"none", "response", "TooManyRedirects", "InvalidRedirect", "denied", "unresolved",
            "FetchFailed", "gone"}

\* The awaits at which the handler's future can be dropped.
Awaiting == {"send", "sleep", "resend", "drain", "check"}

\* Types; a partial response is only kept for a request whose Range was taken away, and a
\* redirect that is being followed is within the limit.
LoopTypeOK ==
  /\ hasRange \in BOOLEAN
  /\ loopPc \in Awaiting \cup {"received", "done"}
  /\ url \in Urls /\ target \in Urls
  /\ range \in BOOLEAN /\ partial \in BOOLEAN
  /\ redirects \in 0 .. MaxRedirects
  /\ elapsed \in 0 .. MaxElapsed
  /\ response \in Responses
  /\ retried \in BOOLEAN
  /\ fetchErr \in BOOLEAN
  /\ result \in Results
  /\ checkedUrls \subseteq Urls
  /\ range => hasRange
  /\ partial => hasRange /\ ~ range
  /\ loopPc \in {"drain", "check"} => redirects < MaxRedirects

LoopInit ==
  /\ hasRange \in BOOLEAN
  /\ loopPc = "send"
  /\ url \in Urls /\ target = url
  /\ range = hasRange
  /\ partial = FALSE
  /\ redirects = 0
  /\ elapsed = 0
  /\ response = [status |-> "other", image |-> FALSE]
  /\ retried = FALSE
  /\ fetchErr = FALSE
  /\ result = "none"
  /\ checkedUrls = {url}

-----------------------------------------------------------------------------
Spend(t) == elapsed' = IF elapsed + t < MaxElapsed THEN elapsed + t ELSE MaxElapsed

Finish(how) == loopPc' = "done" /\ result' = how

\* remaining_ms > fetch_retry_delay_ms, at a time of now.
TimeLeft(now) == now < Timeout /\ Timeout - now > RetryDelay

\* Headers arrive.
Receive ==
  /\ loopPc \in {"send", "resend"}
  /\ \E t \in SendTimes : Spend(t)
  /\ response' \in Responses
  /\ loopPc' = "received"
  /\ retried' = (loopPc = "resend")
  /\ UNCHANGED <<hasRange, url, target, range, partial, redirects, fetchErr, result, checkedUrls>>

\* The image could not be fetched as a whole: the partial response is taken after all.
FallBackToPartial ==
  /\ loopPc = "send" /\ ~ range /\ partial
  /\ \E t \in SendTimes : Spend(t)
  /\ response' = PartialImage
  /\ partial' = FALSE
  /\ loopPc' = "received"
  /\ retried' = FALSE
  /\ UNCHANGED <<hasRange, url, target, range, redirects, fetchErr, result, checkedUrls>>

\* Only a request without Range is sent again.
MayRetry == ~ hasRange

\* Mutant: the first error is recorded although a retry follows.
SleepRecorded ==
  /\ loopPc = "send" /\ ~ (~ range /\ partial) /\ MayRetry
  /\ \E t \in SendTimes : Spend(t) /\ TimeLeft(elapsed + t)
  /\ fetchErr' = TRUE
  /\ loopPc' = "sleep"
  /\ UNCHANGED <<hasRange, url, target, range, partial, redirects, response, retried, result,
                 checkedUrls>>

\* The connection could not be made, and time is left.
Sleep ==
  /\ loopPc = "send" /\ ~ (~ range /\ partial) /\ MayRetry
  /\ \E t \in SendTimes : Spend(t) /\ TimeLeft(elapsed + t)
  /\ loopPc' = "sleep"
  /\ UNCHANGED <<hasRange, url, target, range, partial, redirects, response, retried, fetchErr,
                 result, checkedUrls>>

Resend ==
  /\ loopPc = "sleep"
  /\ Spend(RetryDelay)
  /\ loopPc' = "resend"
  /\ retried' = TRUE
  /\ UNCHANGED <<hasRange, url, target, range, partial, redirects, response, fetchErr, result,
                 checkedUrls>>

\* Another kind of error, no time left, Range, or the second attempt.
SendFails ==
  /\ loopPc = "resend" \/ (loopPc = "send" /\ ~ (~ range /\ partial))
  /\ \E t \in SendTimes : Spend(t)
  /\ fetchErr' = TRUE
  /\ Finish("FetchFailed")
  /\ UNCHANGED <<hasRange, url, target, range, partial, redirects, response, retried, checkedUrls>>

-----------------------------------------------------------------------------
\* What was received

\* Mutant: a partial image that a redirect led to is delivered as it is.
MustRefetchAtFirst == range /\ response = PartialImage /\ redirects = 0

MustRefetch == range /\ response = PartialImage

\* A part of an image cannot be decoded: keep it, and ask for the whole.
Refetch ==
  /\ loopPc = "received" /\ MustRefetch
  /\ range' = FALSE
  /\ partial' = TRUE
  /\ loopPc' = "send"
  /\ UNCHANGED <<hasRange, url, target, redirects, elapsed, response, retried, fetchErr, result,
                 checkedUrls>>

\* Not a redirect, or one without Location.
Deliver ==
  /\ loopPc = "received" /\ ~ MustRefetch
  /\ response.status = "redirect" => redirects < MaxRedirects
  /\ Finish("response")
  /\ partial' = FALSE
  /\ UNCHANGED <<hasRange, url, target, range, redirects, elapsed, response, retried, fetchErr,
                 checkedUrls>>

TooManyRedirects ==
  /\ loopPc = "received" /\ response.status = "redirect"
  /\ redirects >= MaxRedirects
  /\ Finish("TooManyRedirects")
  /\ UNCHANGED <<hasRange, url, target, range, partial, redirects, elapsed, response, retried,
                 fetchErr, checkedUrls>>

InvalidRedirect ==
  /\ loopPc = "received" /\ response.status = "redirect"
  /\ redirects < MaxRedirects
  /\ Finish("InvalidRedirect")
  /\ UNCHANGED <<hasRange, url, target, range, partial, redirects, elapsed, response, retried,
                 fetchErr, checkedUrls>>

\* Mutant: the limit is one redirect too high.
RedirectOneMore ==
  /\ loopPc = "received" /\ response.status = "redirect"
  /\ redirects <= MaxRedirects
  /\ target' \in Urls
  /\ loopPc' = "drain"
  /\ UNCHANGED <<hasRange, url, range, partial, redirects, elapsed, response, retried, fetchErr,
                 result, checkedUrls>>

MeetRedirect ==
  /\ loopPc = "received" /\ response.status = "redirect"
  /\ redirects < MaxRedirects
  /\ target' \in Urls
  /\ loopPc' = "drain"
  /\ UNCHANGED <<hasRange, url, range, partial, redirects, elapsed, response, retried, fetchErr,
                 result, checkedUrls>>

\* At most MAX_REDIRECT_DRAIN of the body are read, so that the connection can be used again.
Drain ==
  /\ loopPc = "drain"
  /\ \E t \in SendTimes : Spend(t)
  /\ loopPc' = "check"
  /\ UNCHANGED <<hasRange, url, target, range, partial, redirects, response, retried, fetchErr,
                 result, checkedUrls>>

\* Mutant: the URL that redirected is checked again instead of the one it leads to.
FollowUnchecked ==
  /\ loopPc = "check"
  /\ url' = target
  /\ checkedUrls' = checkedUrls \cup {url}
  /\ redirects' = redirects + 1
  /\ loopPc' = "send"
  /\ UNCHANGED <<hasRange, target, range, partial, elapsed, response, retried, fetchErr, result>>

\* Mutant: redirects are not counted.
FollowUncounted ==
  /\ loopPc = "check"
  /\ url' = target
  /\ checkedUrls' = checkedUrls \cup {target}
  /\ loopPc' = "send"
  /\ UNCHANGED <<hasRange, target, range, partial, redirects, elapsed, response, retried, fetchErr,
                 result>>

\* check_url lets the target pass.
Follow ==
  /\ loopPc = "check"
  /\ url' = target
  /\ checkedUrls' = checkedUrls \cup {target}
  /\ redirects' = redirects + 1
  /\ loopPc' = "send"
  /\ UNCHANGED <<hasRange, target, range, partial, elapsed, response, retried, fetchErr, result>>

CheckFails ==
  /\ loopPc = "check"
  /\ \/ Finish("denied") /\ UNCHANGED fetchErr
     \/ Finish("unresolved") /\ fetchErr' = TRUE
  /\ UNCHANGED <<hasRange, url, target, range, partial, redirects, elapsed, response, retried,
                 checkedUrls>>

\* The client leaves.
Cancel ==
  /\ loopPc \in Awaiting
  /\ Finish("gone")
  /\ UNCHANGED <<hasRange, url, target, range, partial, redirects, elapsed, response, retried,
                 fetchErr, checkedUrls>>

LoopStep ==
  \/ Receive \/ FallBackToPartial \/ Sleep \/ Resend \/ SendFails
  \/ Refetch \/ Deliver \/ TooManyRedirects \/ InvalidRedirect \/ MeetRedirect
  \/ Drain \/ Follow \/ CheckFails

LoopNext == LoopStep \/ Cancel

LoopSpec == LoopInit /\ [][LoopNext]_loopVars

\* The client's timeouts end a send, the drain is limited in bytes, and check_url ends as
\* DnsCache shows.
FairLoopSpec == LoopSpec /\ WF_loopVars(LoopStep)

-----------------------------------------------------------------------------
\* Properties

\* Nothing is sent to a URL that check_url did not let pass, whatever chain of redirects,
\* retries and refetches led there.
CheckedBeforeSent == loopPc \in {"send", "sleep", "resend"} => url \in checkedUrls

\* What is delivered for an image is the whole image, unless the server was asked for the
\* whole and failed: a Range request never ends with a part it had asked for itself.
WholeImageAskedFor ==
  (result = "response" /\ hasRange /\ response = PartialImage) => ~ range

\* fetch_err, which lets a later failure be covered by a stale entry, is set when the fetch
\* failed, and not by an attempt that a retry or the partial response made up for.
FailureRecorded ==
  loopPc = "done" /\ result # "gone" => (fetchErr <=> result \in {"FetchFailed", "unresolved"})

\* The inductive strengthening of the three above.
LoopInv ==
  /\ loopPc # "done" => result = "none" /\ ~ fetchErr /\ url \in checkedUrls
  /\ WholeImageAskedFor
  /\ FailureRecorded

\* The loop ends, however servers combine redirects, partial responses and failures.
Ends == <>(loopPc = "done")
=============================================================================
