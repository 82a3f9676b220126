--------------------------- MODULE ResourcePermits ---------------------------
(***************************************************************************)
(* The three semaphores a request goes through (src/main.rs): a download   *)
(* permit before the fetch, bytes of the buffer budget before load_all, a  *)
(* CPU permit before the blocking decode; every wait ends after            *)
(* RESOURCE_WAIT_TIMEOUT with a 503, the blocking thread is waited for     *)
(* config.timeout and cannot be stopped once it runs, and the client may   *)
(* leave at every await.  What is fetched and decoded is a choice.         *)
(*                                                                         *)
(* A tokio semaphore serves its waiters first come, first served: nothing  *)
(* overtakes a large acquire_many at the head of the queue.                *)
(***************************************************************************)
EXTENDS Naturals, Sequences, SequencesExt, FiniteSets

CONSTANTS
  Requests,
  MaxDownloads,   \* config.max_concurrent_downloads
  Budget,         \* config.inflight_buffer_budget_bytes, in units
  Cpus,           \* num_cpus::get().max(2)
  Needs           \* budgets a request may ask for, in the same unit

ASSUME PermitsAssumption ==
  /\ IsFiniteSet(Requests)
  /\ MaxDownloads \in Nat \ {0} /\ Budget \in Nat \ {0} /\ Cpus \in Nat \ {0}
  /\ Needs \subseteq Nat \ {0}

VARIABLES
  held,       \* permits of each semaphore that the handler of a request holds
  taskCpu,    \* CPU permit moved into the blocking task of a request
  queue,      \* who waits for each semaphore, in order
  pc,         \* where get_file_inner and encode are
  kind,       \* what encode found the response to be
  need,       \* budget_bytes
  thread,     \* the blocking thread of a request
  streaming   \* the remote body is being passed on to the client

vars == <<held, taskCpu, queue, pc, kind, need, thread, streaming>>

Semaphores == {"download", "budget", "cpu"}

Capacity == [download |-> MaxDownloads, budget |-> Budget, cpu |-> Cpus]

Kinds == {"unknown", "image", "svg"}

\* The awaits at which the handler's future can be dropped.
Awaiting == Semaphores \cup {"fetch", "load", "encode"}

\* Types; who waits is in the queue of what it waits for, once.
TypeOK ==
  /\ held \in [Semaphores -> [Requests -> Nat]]
  /\ taskCpu \in [Requests -> 0..1]
  /\ \A s \in Semaphores : /\ IsInjective(queue[s])
                           /\ ToSet(queue[s]) = {r \in Requests : pc[r] = s}
  /\ pc \in [Requests -> Awaiting \cup {"idle", "done"}]
  /\ kind \in [Requests -> Kinds]
  /\ need \in [Requests -> Needs]
  /\ thread \in [Requests -> {"none", "queued", "running", "ended"}]
  /\ streaming \in [Requests -> BOOLEAN]

Init ==
  /\ held = [s \in Semaphores |-> [r \in Requests |-> 0]]
  /\ taskCpu = [r \in Requests |-> 0]
  /\ queue = [s \in Semaphores |-> <<>>]
  /\ pc = [r \in Requests |-> "idle"]
  /\ kind = [r \in Requests |-> "unknown"]
  /\ need \in [Requests -> Needs]
  /\ thread = [r \in Requests |-> "none"]
  /\ streaming = [r \in Requests |-> FALSE]

-----------------------------------------------------------------------------
\* Semaphores

Asks(s, r) == IF s = "budget" THEN need[r] ELSE 1

\* What a request has of a semaphore, wherever the permit is.
Uses(s, r) == held[s][r] + (IF s = "cpu" THEN taskCpu[r] ELSE 0)

\* The permits that are out, each as the pair of its holder and a number.
Taken(s) == UNION {{r} \X (1 .. Uses(s, r)) : r \in Requests}

InUse(s) == Cardinality(Taken(s))

\* The semaphore hands its permits to the first in the queue.
Granted(s, r) ==
  /\ pc[r] = s
  /\ Head(queue[s]) = r
  /\ InUse(s) + Asks(s, r) <= Capacity[s]

Wait(s, r) ==
  /\ pc' = [pc EXCEPT ![r] = s]
  /\ queue' = [queue EXCEPT ![s] = Append(@, r)]

Leave(s, r) == queue' = [queue EXCEPT ![s] = RemoveFirst(@, r)]

Hold(s, r) == held' = [held EXCEPT ![s][r] = Asks(s, r)]

\* Mutant: drop(self.dl_permit.take()) is missing.
KeepDownload(r) == UNCHANGED held

\* drop(self.dl_permit.take()).
ReleaseDownload(r) == held' = [held EXCEPT !["download"][r] = 0]

\* The handler returns or is dropped: every permit it still holds goes back.
ReleaseAll(r) == held' = [s \in Semaphores |-> [held[s] EXCEPT ![r] = 0]]

Finish(r) ==
  /\ pc' = [pc EXCEPT ![r] = "done"]
  /\ ReleaseAll(r)

-----------------------------------------------------------------------------
\* The handler

Arrive(r) ==
  /\ pc[r] = "idle"
  /\ Wait("download", r)
  /\ UNCHANGED <<held, taskCpu, kind, need, thread, streaming>>

AcquireDownload(r) ==
  /\ Granted("download", r)
  /\ Leave("download", r) /\ Hold("download", r)
  /\ pc' = [pc EXCEPT ![r] = "fetch"]
  /\ UNCHANGED <<taskCpu, kind, need, thread, streaming>>

\* Mutant: the wait for a CPU permit has no timeout.
OnlyEarlyWaitsTimeOut(r) ==
  /\ pc[r] \in {"download", "budget"}
  /\ Leave(pc[r], r)
  /\ Finish(r)
  /\ UNCHANGED <<taskCpu, kind, need, thread, streaming>>

\* The wait for a permit times out: 503, and what was acquired before is given back.
WaitTimesOut(r) ==
  /\ pc[r] \in Semaphores
  /\ Leave(pc[r], r)
  /\ Finish(r)
  /\ UNCHANGED <<taskCpu, kind, need, thread, streaming>>

\* No response, a bad one, or one that is neither sent on nor decoded.
FetchRefused(r) ==
  /\ pc[r] = "fetch"
  /\ Finish(r)
  /\ UNCHANGED <<taskCpu, queue, kind, need, thread, streaming>>

\* encode returns a body that streams; the RequestContext with the permit is dropped.
Stream(r) ==
  /\ pc[r] = "fetch"
  /\ streaming' = [streaming EXCEPT ![r] = TRUE]
  /\ Finish(r)
  /\ UNCHANGED <<taskCpu, queue, kind, need, thread>>

StreamEnds(r) ==
  /\ streaming[r]
  /\ streaming' = [streaming EXCEPT ![r] = FALSE]
  /\ UNCHANGED <<held, taskCpu, queue, pc, kind, need, thread>>

Decodable(r) ==
  /\ pc[r] = "fetch"
  /\ \E k \in {"image", "svg"} : kind' = [kind EXCEPT ![r] = k]
  /\ Wait("budget", r)
  /\ UNCHANGED <<held, taskCpu, need, thread, streaming>>

AcquireBudget(r) ==
  /\ Granted("budget", r)
  /\ Leave("budget", r) /\ Hold("budget", r)
  /\ pc' = [pc EXCEPT ![r] = "load"]
  /\ UNCHANGED <<taskCpu, kind, need, thread, streaming>>

\* load_all fails, or an image is passed through as it is.
LoadIsTheEnd(r) ==
  /\ pc[r] = "load"
  /\ Finish(r)
  /\ UNCHANGED <<taskCpu, queue, kind, need, thread, streaming>>

LoadEnds(r) ==
  /\ pc[r] = "load"
  /\ ReleaseDownload(r)
  /\ Wait("cpu", r)
  /\ UNCHANGED <<taskCpu, kind, need, thread, streaming>>

\* Mutant: the handler keeps the permit of an image instead of moving it into the task.
AcquireCpuInHandler(r) ==
  /\ Granted("cpu", r)
  /\ Leave("cpu", r)
  /\ Hold("cpu", r)
  /\ pc' = [pc EXCEPT ![r] = "encode"]
  /\ thread' = [thread EXCEPT ![r] = "queued"]
  /\ UNCHANGED <<taskCpu, kind, need, streaming>>

\* For an image the permit is moved into the closure, for an SVG it stays with the handler.
AcquireCpu(r) ==
  /\ Granted("cpu", r)
  /\ Leave("cpu", r)
  /\ \/ kind[r] = "image" /\ taskCpu' = [taskCpu EXCEPT ![r] = 1] /\ UNCHANGED held
     \/ kind[r] = "svg" /\ Hold("cpu", r) /\ UNCHANGED taskCpu
  /\ pc' = [pc EXCEPT ![r] = "encode"]
  /\ thread' = [thread EXCEPT ![r] = "queued"]
  /\ UNCHANGED <<kind, need, streaming>>

EncodeAnswered(r) ==
  /\ pc[r] = "encode" /\ thread[r] = "ended"
  /\ Finish(r)
  /\ UNCHANGED <<taskCpu, queue, kind, need, thread, streaming>>

\* abort() drops a closure that still waits for a thread, and does nothing to one that runs.
EncodeTimesOut(r) ==
  /\ pc[r] = "encode"
  /\ \/ /\ thread[r] = "queued"
        /\ thread' = [thread EXCEPT ![r] = "ended"]
        /\ taskCpu' = [taskCpu EXCEPT ![r] = 0]
     \/ thread[r] = "running" /\ UNCHANGED <<thread, taskCpu>>
  /\ Finish(r)
  /\ UNCHANGED <<queue, kind, need, streaming>>

\* Mutant: the waiter of a dropped future stays in the queue.
CancelStaysQueued(r) ==
  /\ pc[r] \in Awaiting
  /\ Finish(r)
  /\ UNCHANGED <<taskCpu, queue, kind, need, thread, streaming>>

\* The client leaves; a blocking task, waiting for its thread or not, is left to itself.
Cancel(r) ==
  /\ pc[r] \in Awaiting
  /\ \/ pc[r] \in Semaphores /\ Leave(pc[r], r)
     \/ pc[r] \notin Semaphores /\ UNCHANGED queue
  /\ Finish(r)
  /\ UNCHANGED <<taskCpu, kind, need, thread, streaming>>

-----------------------------------------------------------------------------
\* The blocking thread

ThreadStarts(r) ==
  /\ thread[r] = "queued"
  /\ thread' = [thread EXCEPT ![r] = "running"]
  /\ UNCHANGED <<held, taskCpu, queue, pc, kind, need, streaming>>

\* Mutant: the permit that went into the closure is never dropped (std::mem::forget).
ThreadKeepsPermit(r) ==
  /\ thread[r] = "running"
  /\ thread' = [thread EXCEPT ![r] = "ended"]
  /\ UNCHANGED <<held, taskCpu, queue, pc, kind, need, streaming>>

\* It returns or panics: the closure is dropped, with the permit in it.
ThreadEnds(r) ==
  /\ thread[r] = "running"
  /\ thread' = [thread EXCEPT ![r] = "ended"]
  /\ taskCpu' = [taskCpu EXCEPT ![r] = 0]
  /\ UNCHANGED <<held, queue, pc, kind, need, streaming>>

-----------------------------------------------------------------------------
\* Steps of the handler that wait for nothing but what it asked for.
Proceed(r) ==
  \/ AcquireDownload(r) \/ FetchRefused(r) \/ Stream(r) \/ Decodable(r)
  \/ AcquireBudget(r) \/ LoadIsTheEnd(r) \/ LoadEnds(r)
  \/ AcquireCpu(r) \/ EncodeAnswered(r)

TimeOut(r) == WaitTimesOut(r) \/ EncodeTimesOut(r)

ThreadStep(r) == ThreadStarts(r) \/ ThreadEnds(r)

Next ==
  \E r \in Requests : \/ Arrive(r) \/ Proceed(r) \/ TimeOut(r) \/ Cancel(r)
                      \/ ThreadStep(r) \/ StreamEnds(r)

Spec == Init /\ [][Next]_vars

\* The runtime runs the handlers; nothing is asked of timers, blocking threads and clients.
HandlersFairSpec == Spec /\ \A r \in Requests : WF_vars(Proceed(r))

TimersFire == \A r \in Requests : WF_vars(TimeOut(r))

ThreadsEndAtLast == \A r \in Requests : WF_vars(ThreadStep(r))

-----------------------------------------------------------------------------
\* Properties

\* A request that is through holds nothing, and the CPU permit of an image lives as long as its
\* task, be the handler there to wait for it or not.
PermitsReturned ==
  \A r \in Requests :
    /\ pc[r] \in {"idle", "done"} => \A s \in Semaphores : held[s][r] = 0
    /\ taskCpu[r] = 1 <=> kind[r] = "image" /\ thread[r] \in {"queued", "running"}

\* No semaphore is overdrawn and none loses a permit, whichever way requests end.
PermitsAccounted == (\A s \in Semaphores : InUse(s) <= Capacity[s]) /\ PermitsReturned

\* Image decodes that really run never exceed the CPU permits, however many of their
\* handlers have timed out or gone.
ImageThreadsBounded ==
  Cardinality({r \in Requests : kind[r] = "image" /\ thread[r] = "running"}) <= Cpus

\* README.md:359: waiting for the CPU, or using it, holds up no download.
DownloadsNotHeldByEncoding ==
  \A r \in Requests : held["download"][r] > 0 => pc[r] \in {"fetch", "budget", "load"}

Answered == \A r \in Requests : pc[r] # "idle" ~> pc[r] = "done"

\* The timers alone end every request, whatever blocking threads do and even if a request
\* asks for more than the whole budget.
AnsweredInTime == TimersFire => Answered

\* The three semaphores do not deadlock: without any timer the order in which the permits
\* are taken ends every request, if its thread ends and no request asks for more than the
\* whole budget.
AnsweredInOrder == (ThreadsEndAtLast /\ \A r \in Requests : need[r] <= Budget) => Answered
=============================================================================
