---------------------------- MODULE EncodeProofs ----------------------------
(***************************************************************************)
(* Theorems about Encode, for any statuses, types and data: what a client  *)
(* and the cache get, however the handler and the blocking task interleave.*)
(***************************************************************************)
EXTENDS Encode, TLAPS

\* What an answer of the blocking task may be.
GoodAnswer(a) ==
  /\ a = [status |-> a.status, body |-> a.body, type |-> a.type, length |-> a.length,
          cache |-> a.cache, error |-> a.error]
  /\ a.cache = "immutable" => a.status = 200 /\ a.body = "image" /\ a.error = "none" /\ a.length = "none"
  /\ a.status = 200 => a.body = "image"

\* An entry is what the answer of a success was.
Matches(entry, a) ==
  /\ entry.status = 200 /\ entry.body \in {"image", "remote"}
  /\ entry.status = a.status /\ entry.body = a.body /\ entry.type = a.type /\ entry.cache = a.cache

GoodOutcome(o) ==
  /\ GoodAnswer(o.answer)
  /\ o.entry # NoEntry => Matches(o.entry, o.answer)

\* Headers of a success so far: they let nothing be kept.
Plain(h) == \E t, l : h = [type |-> t, length |-> l, cache |-> "no-store", error |-> "none"]

Running == {"queued", "start", "single", "image", "anim"}

\* The task runs from the moment the handler waits for it, and only it caches then.
TaskInv ==
  /\ task \in Running \cup {"done", "panicked", "aborted"} => pc \in {"encode", "answered"}
  /\ pc = "encode" => task \in Running \cup {"done", "panicked"}
  /\ task = "done" => GoodAnswer(result) /\ (cached # NoEntry => Matches(cached, result))
  /\ cached # NoEntry => task = "done" \/ (pc = "answered" /\ task = "none")
  /\ pc = "answered" /\ task \in Running => answer.error = "ImageEncodeTimeout"

\* A stream is neither loaded nor encoded, and an image has lost the length of the remote body.
RouteInv ==
  /\ pc = "render" => route = "svg"
  /\ pc \in {"budget", "load", "small", "cpu"} => route \in {"svg", "image"}
  /\ task # "none" => route = "image"
  /\ route = "image" => headers.length = "none"

Inv ==
  /\ Plain(headers)
  /\ RouteInv
  /\ task \in Running \cup {"none", "done", "panicked", "aborted"}
  /\ TaskInv
  /\ FallbackAnswersImage /\ ImmutableMeansImage /\ EntryIsAnswer

LEMMA PlainKept ==
  ASSUME NEW h, Plain(h)
  PROVE  /\ \A t : Plain(Typed(h, t)) /\ Typed(h, t).length = h.length
         /\ Plain(Lengthless(h)) /\ Lengthless(h).length = "none"
         /\ h.cache = "no-store" /\ h.error = "none"
  <1>1. PICK t, l : h = [type |-> t, length |-> l, cache |-> "no-store", error |-> "none"]
    BY DEF Plain
  <1>2. ASSUME NEW u PROVE Plain(Typed(h, u)) /\ Typed(h, u).length = h.length
    <2>1. Typed(h, u) = [type |-> u, length |-> l, cache |-> "no-store", error |-> "none"]
      BY <1>1 DEF Typed
    <2>2. Plain(Typed(h, u))
      BY <2>1, Zenon DEF Plain
    <2> QED
      BY <1>1, <2>1, <2>2
  <1>3. Plain(Lengthless(h)) /\ Lengthless(h).length = "none"
    <2>1. \A v : [h EXCEPT !.length = v] = [type |-> t, length |-> v, cache |-> "no-store", error |-> "none"]
      BY <1>1
    <2>2. Lengthless(h) = [type |-> t, length |-> "none", cache |-> "no-store", error |-> "none"]
      BY <2>1, Zenon DEF Lengthless
    <2>3. Plain(Lengthless(h))
      BY <2>2, Zenon DEF Plain
    <2> QED
      BY <2>2, <2>3
  <1> QED
    BY <1>1, <1>2, <1>3

LEMMA FailureGood ==
  ASSUME NEW h, Plain(h), NEW e
  PROVE  GoodOutcome(Failure(h, e))
  <1>1. PICK t, l : h = [type |-> t, length |-> l, cache |-> "no-store", error |-> "none"]
    BY DEF Plain
  <1>2. Erroneous(h, e) = [type |-> t, length |-> l, cache |-> "no-store", error |-> e]
    BY <1>1 DEF Erroneous
  <1>3. Failure(h, e) = [answer |-> [status |-> 502, body |-> "empty", type |-> t, length |-> l,
                                     cache |-> "no-store", error |-> e],
                         entry |-> NoEntry]
    BY <1>2 DEF Failure, Uncached, Reply
  <1> QED
    BY <1>3 DEF GoodOutcome, GoodAnswer

LEMMA CachedGood ==
  ASSUME NEW h, Plain(h), h.length = "none"
  PROVE  GoodOutcome(Cached("image", Immutable(h)))
  <1>0. PICK t, l : h = [type |-> t, length |-> l, cache |-> "no-store", error |-> "none"]
    BY DEF Plain
  <1>1. h = [type |-> t, length |-> "none", cache |-> "no-store", error |-> "none"]
    BY <1>0
  <1>2. Immutable(h) = [type |-> t, length |-> "none", cache |-> "immutable", error |-> "none"]
    BY <1>1 DEF Immutable
  <1>3. Cached("image", Immutable(h)) =
          [answer |-> [status |-> 200, body |-> "image", type |-> t, length |-> "none",
                       cache |-> "immutable", error |-> "none"],
           entry |-> [status |-> 200, body |-> "image", type |-> t, cache |-> "immutable"]]
    BY <1>2 DEF Cached, Reply
  <1> QED
    BY <1>3 DEF GoodOutcome, GoodAnswer, Matches

LEMMA BareGood == GoodOutcome(Uncached(Bare)) /\ Bare.status = 500 /\ Bare.cache = "none"
  BY DEF GoodOutcome, GoodAnswer, Uncached, Bare, Reply

LEMMA ResponseImgGood ==
  ASSUME NEW h, Plain(h), h.length = "none", NEW o \in ResponseImg(h)
  PROVE  GoodOutcome(o)
  <1>1. \/ o = Uncached(Bare)
        \/ \E t : o = Cached("image", Immutable(Typed(h, t)))
        \/ \E t : o = Failure(Typed(h, t), "EncodeError")
    BY DEF ResponseImg
  <1>2. CASE o = Uncached(Bare)
    BY <1>2, BareGood
  <1>3. CASE \E t : o = Cached("image", Immutable(Typed(h, t)))
    BY <1>3, CachedGood, PlainKept
  <1>4. CASE \E t : o = Failure(Typed(h, t), "EncodeError")
    BY <1>4, FailureGood, PlainKept
  <1> QED
    BY <1>1, <1>2, <1>3, <1>4

-----------------------------------------------------------------------------
\* A step of the task: to another label, or to its end with a good outcome.
TaskStep ==
  /\ Work
  /\ task \in Running
  /\ \/ task' \in Running \cup {"panicked"} /\ UNCHANGED <<result, cached>>
     \/ \E o : Return(o) /\ GoodOutcome(o)

LEMMA DecodingSteps ==
  ASSUME Inv, task \in Running, NEW kinds, NEW next, next \subseteq Running, NEW e, Decoding(kinds, next, e)
  PROVE  TaskStep
  <1>1. Plain(headers)
    BY DEF Inv
  <1> QED
    BY <1>1, FailureGood DEF Decoding, TaskStep

LEMMA EncodeImgSteps ==
  ASSUME Inv, EncodeImg
  PROVE  TaskStep
  <1>1. Plain(headers) /\ (task # "none" => headers.length = "none")
    BY DEF Inv, RouteInv
  <1>2. CASE Mng \/ Vips
    BY <1>2, DecodingSteps DEF Mng, Vips, Running
  <1>3. CASE TooLarge \/ NoCodec
    BY <1>1, <1>3, FailureGood DEF TooLarge, NoCodec, Other, TaskStep, Running
  <1>4. CASE Shaped \/ OtherCodec \/ Jpeg
    BY <1>4 DEF Shaped, OtherCodec, Jpeg, ByCodec, Other, TaskStep, Running
  <1>5. CASE Jxl \/ AvifSeq \/ Jpeg2000 \/ JpegXR \/ Heic \/ Pdf
    BY <1>5, DecodingSteps DEF Jxl, AvifSeq, Jpeg2000, JpegXR, Heic, Pdf, ByType, Other, Running
  <1>6. CASE Png \/ Gif \/ WebP
    BY <1>6, DecodingSteps DEF Png, Gif, WebP, ByCodec, Other, Running
  <1>7. CASE EncodeSingle
    BY <1>1, <1>7, FailureGood, DecodingSteps DEF EncodeSingle, TaskStep, Running
  <1>8. CASE EncodeImage
    <2>1. PICK o \in ResponseImg(headers) : Return(o)
      BY <1>8 DEF EncodeImage
    <2>2. GoodOutcome(o)
      BY <1>1, <1>8, ResponseImgGood DEF EncodeImage
    <2> QED
      BY <1>8, <2>1, <2>2 DEF EncodeImage, TaskStep, Running
  <1>9. CASE EncodeAnim
    <2>1. PICK o \in {Failure(headers, "NoAvailableFrames"), Failure(headers, "FramesLimit"),
                      Uncached(Bare),
                      Cached("image", Immutable(Typed(headers, "image/webp"))),
                      Cached("image", Erroneous([Typed(headers, "image/webp") EXCEPT !.cache = "none"],
                                                "WebPAnimEncodeError"))} : Return(o)
      BY <1>9 DEF EncodeAnim
    <2>2. GoodOutcome(Cached("image", Erroneous([Typed(headers, "image/webp") EXCEPT !.cache = "none"],
                                                "WebPAnimEncodeError")))
      BY DEF GoodOutcome, GoodAnswer, Matches, Cached, Reply, Typed, Erroneous, Plain
    <2>3. headers.length = "none"
      BY <1>1, <1>9 DEF EncodeAnim
    <2>4. GoodOutcome(Cached("image", Immutable(Typed(headers, "image/webp"))))
      BY <1>1, <2>3, CachedGood, PlainKept
    <2>5. GoodOutcome(o)
      BY <1>1, <2>1, <2>2, <2>4, BareGood, FailureGood
    <2> QED
      BY <1>9, <2>1, <2>5 DEF EncodeAnim, TaskStep, Running
  <1> QED
    BY <1>2, <1>3, <1>4, <1>5, <1>6, <1>7, <1>8, <1>9 DEF EncodeImg

LEMMA InvTask ==
  ASSUME Inv, TaskStep
  PROVE  Inv'
  <1>1. UNCHANGED <<q, remote, headers, codec, pc, route, answer>>
    BY DEF TaskStep, Work
  <1>2. pc \in {"encode", "answered"} /\ cached = NoEntry
    BY DEF Inv, TaskInv, TaskStep, Running
  <1>3. task' \in Running \cup {"panicked", "done"}
    BY DEF TaskStep, Return
  <1>0. task # "none" /\ route = "image" /\ headers.length = "none"
    BY DEF Inv, RouteInv, TaskStep, Running
  <1>4. CASE task' \in Running \cup {"panicked"} /\ UNCHANGED <<result, cached>>
    BY <1>0, <1>1, <1>2, <1>4 DEF Inv, TaskInv, RouteInv, TaskStep, Running, FallbackAnswersImage, ImmutableMeansImage, EntryIsAnswer, Answered
  <1>5. CASE \E o : Return(o) /\ GoodOutcome(o)
    <2>1. task' = "done" /\ GoodAnswer(result)' /\ (cached' # NoEntry => Matches(cached, result)')
      BY <1>2, <1>5 DEF Return, GoodOutcome, GoodAnswer, Matches
    <2>2. pc = "answered" => answer.error = "ImageEncodeTimeout"
      BY DEF Inv, TaskInv, TaskStep
    <2>3. TaskInv'
      BY <1>1, <1>2, <2>1 DEF TaskInv, Running
    <2>4. EntryIsAnswer'
      BY <1>1, <2>1, <2>2 DEF EntryIsAnswer, Matches, Answered
    <2> QED
      BY <1>0, <1>1, <2>1, <2>3, <2>4 DEF Inv, RouteInv, FallbackAnswersImage, ImmutableMeansImage, Answered
  <1> QED
    BY <1>4, <1>5 DEF TaskStep

-----------------------------------------------------------------------------
\* An answer that every property allows, whatever the request was.
Allowed(a) ==
  /\ q.fallback => \/ a.status \in {200, 206} /\ a.body # "empty"
                   \/ a.error \in {"BufferBudgetError", "CpuSemaphoreError", "ResponseTooLarge", "BodyReadFailed"}
                   \/ route = "svg" /\ (a.status = 500 \/ a.error = "EncodeError")
  /\ a.cache = "immutable" => \/ /\ a.status \in {200, 206} /\ a.body \in {"image", "remote"} /\ a.error = "none"
                                 /\ a.length = "remote" => a.body = "remote"
                              \/ route = "svg" /\ a.error = "EncodeError"

\* Steps of the handler: to another label; to an answer without an entry; to an answer that is
\* also cached, before there is a task.
HandlerStep ==
  /\ UNCHANGED <<q, remote, result>>
  /\ \/ /\ pc \in {"response", "budget", "load", "small", "cpu"} /\ pc' \notin {"answered", "encode"}
        /\ RouteInv' /\ Plain(headers)' /\ UNCHANGED <<task, cached, answer>>
     \/ /\ pc = "cpu" /\ pc' = "encode" /\ task' = "queued" /\ route = "image"
        /\ UNCHANGED <<headers, route, cached, answer>>
     \/ /\ pc # "answered" /\ pc # "encode" /\ Answer(answer') /\ Allowed(answer')
        /\ UNCHANGED <<headers, route, task>>
        /\ cached' # NoEntry => cached' = cached \/ Matches(cached', answer')

LEMMA InvHandlerStep ==
  ASSUME Inv, HandlerStep
  PROVE  Inv'
  <1>1. task \in Running => pc \in {"encode", "answered"}
    BY DEF Inv, TaskInv
  <1>2. pc \notin {"encode", "answered"} => task = "none" /\ cached = NoEntry
    BY DEF Inv, TaskInv, Running
  <1>3. CASE pc \in {"response", "budget", "load", "small", "cpu"} /\ pc' \notin {"answered", "encode"}
             /\ RouteInv' /\ Plain(headers)' /\ UNCHANGED <<task, cached, answer>>
    <2>1. Plain(headers)' /\ task' = "none" /\ cached' = NoEntry /\ RouteInv'
          /\ pc' \notin {"answered", "encode"}
      BY <1>2, <1>3
    <2>2. TaskInv'
      BY <2>1 DEF TaskInv, Running
    <2>3. (FallbackAnswersImage /\ ImmutableMeansImage /\ EntryIsAnswer)'
      BY <2>1 DEF FallbackAnswersImage, ImmutableMeansImage, EntryIsAnswer, Answered
    <2> QED
      BY <2>1, <2>2, <2>3, Zenon DEF Inv, Running
  <1>4. CASE pc = "cpu" /\ pc' = "encode" /\ task' = "queued" /\ route = "image"
             /\ UNCHANGED <<headers, route, cached, answer>>
    <2>1. pc' = "encode" /\ task' = "queued" /\ cached' = NoEntry /\ UNCHANGED <<headers, route, answer>>
          /\ route = "image"
      BY <1>2, <1>4
    <2>2. TaskInv' /\ Plain(headers)' /\ RouteInv'
      BY <2>1 DEF Inv, TaskInv, RouteInv, Running, Plain
    <2>3. (FallbackAnswersImage /\ ImmutableMeansImage /\ EntryIsAnswer)'
      BY <2>1 DEF FallbackAnswersImage, ImmutableMeansImage, EntryIsAnswer, Answered
    <2> QED
      BY <2>1, <2>2, <2>3 DEF Inv, Running
  <1>5. CASE pc # "answered" /\ pc # "encode" /\ Answer(answer') /\ Allowed(answer')
             /\ UNCHANGED <<headers, route, task>>
             /\ (cached' # NoEntry => cached' = cached \/ Matches(cached', answer'))
    <2>1. task' = "none" /\ pc' = "answered" /\ (cached' # NoEntry => Matches(cached', answer'))
      BY <1>2, <1>5 DEF Answer
    <2>2. TaskInv' /\ EntryIsAnswer'
      BY <2>1 DEF TaskInv, EntryIsAnswer, Matches, Answered, Running
    <2>3. FallbackAnswersImage' /\ ImmutableMeansImage'
      BY <1>5 DEF HandlerStep, Allowed, FallbackAnswersImage, ImmutableMeansImage, Answered
    <2>4. RouteInv'
      BY <1>5, <2>1 DEF Inv, RouteInv
    <2> QED
      BY <1>5, <2>1, <2>2, <2>3, <2>4 DEF Inv, Plain
  <1> QED
    BY <1>3, <1>4, <1>5 DEF HandlerStep

\* An error of the resources and of load_all.
LEMMA RefusalAllowed ==
  ASSUME NEW h, Plain(h), NEW status,
         NEW e \in {"BufferBudgetError", "CpuSemaphoreError", "ResponseTooLarge", "BodyReadFailed"}
  PROVE  Allowed(Reply(status, "empty", Erroneous(h, e)))
  <1>1. PICK t, l : h = [type |-> t, length |-> l, cache |-> "no-store", error |-> "none"]
    BY DEF Plain
  <1>2. Erroneous(h, e) = [type |-> t, length |-> l, cache |-> "no-store", error |-> e]
    BY <1>1 DEF Erroneous
  <1> QED
    BY <1>2 DEF Allowed, Reply

\* The dummy image, and an empty answer to a request without fallback.
LEMMA FailureAllowed ==
  ASSUME NEW h, h.cache = "no-store", NEW status
  PROVE  /\ Allowed(Dummy(h))
         /\ ~ q.fallback => Allowed(Reply(status, "empty", h))
  BY DEF Allowed, Dummy, Reply, Typed

\* What a timeout or a panic of the task is answered with.
LEMMA InterruptedAllowed ==
  ASSUME NEW h, Plain(h), NEW status, NEW e
  PROVE  /\ Allowed(IF q.fallback THEN Dummy(Erroneous(h, e)) ELSE Reply(status, "empty", Erroneous(h, e)))
         /\ (IF q.fallback THEN Dummy(Erroneous(h, e)) ELSE Reply(status, "empty", Erroneous(h, e))).error = e
  <1>1. PICK t, l : h = [type |-> t, length |-> l, cache |-> "no-store", error |-> "none"]
    BY DEF Plain
  <1>2. Erroneous(h, e) = [type |-> t, length |-> l, cache |-> "no-store", error |-> e]
    BY <1>1 DEF Erroneous
  <1>3. Dummy(Erroneous(h, e)).error = e /\ Reply(status, "empty", Erroneous(h, e)).error = e
    BY <1>2 DEF Dummy, Reply, Typed
  <1> QED
    BY <1>2, <1>3, FailureAllowed

LEMMA InvNext ==
  ASSUME Inv, [Next]_vars
  PROVE  Inv'
  <1> USE DEF Inv
  <1>0. /\ Plain(headers) /\ headers.cache = "no-store" /\ headers.error = "none"
        /\ Plain(Lengthless(headers))
    BY PlainKept
  <1>1. CASE RemoteError
    <2> DEFINE h == Erroneous(Lengthless(headers), "status")
    <2>1. h.cache = "no-store"
      BY <1>0 DEF Plain, Erroneous
    <2>2. Allowed(Dummy(h)) /\ (~ q.fallback => Allowed(Reply(MapStatus(remote.status), "empty", h)))
      BY <2>1, FailureAllowed
    <2> QED
      BY <1>1, <2>2, InvHandlerStep DEF RemoteError, HandlerStep, Answer
  <1>2. CASE Sniff
    <2>1. Plain(headers)'
      BY <1>0, <1>2, PlainKept DEF Sniff
    <2>2. RouteInv'
      BY <1>0, <1>2, PlainKept DEF Sniff, RouteInv, TaskInv, Running
    <2> QED
      BY <1>2, <2>1, <2>2, InvHandlerStep DEF Sniff, HandlerStep
  <1>3. CASE NoBudget \/ LoadFails \/ NoCpu
    <2>1. Allowed(answer')
      BY <1>0, <1>3, RefusalAllowed DEF NoBudget, LoadFails, NoCpu, Answer
    <2> QED
      BY <1>3, <2>1, InvHandlerStep DEF NoBudget, LoadFails, NoCpu, HandlerStep, Answer
  <1>4. CASE Budget \/ Load \/ NotSmall
    BY <1>0, <1>4, InvHandlerStep DEF Budget, Load, NotSmall, HandlerStep, RouteInv, TaskInv, Running, Plain
  <1>5. CASE PassThrough
    <2>1. PICK t, l : headers = [type |-> t, length |-> l, cache |-> "no-store", error |-> "none"]
      BY <1>0 DEF Plain
    <2>2. Immutable(headers) = [type |-> t, length |-> l, cache |-> "immutable", error |-> "none"]
      BY <2>1 DEF Immutable
    <2>3. Allowed(answer') /\ Matches(cached', answer')
      BY <1>5, <2>2 DEF PassThrough, Answer, Cached, Reply, Allowed, Matches
    <2> QED
      BY <1>5, <2>3, InvHandlerStep DEF PassThrough, HandlerStep, Answer
  <1>6. CASE Cpu
    BY <1>0, <1>6, InvHandlerStep DEF Cpu, HandlerStep, RouteInv, TaskInv, Running, Plain
  <1>7. CASE Render
    <2> DEFINE h == Immutable(Lengthless(headers))
    <2>0. PICK t, l : Lengthless(headers) = [type |-> t, length |-> l, cache |-> "no-store", error |-> "none"]
      BY <1>0 DEF Plain
    <2>1. Lengthless(headers) = [type |-> t, length |-> "none", cache |-> "no-store", error |-> "none"]
      BY <1>0, <2>0, PlainKept
    <2>2. h = [type |-> t, length |-> "none", cache |-> "immutable", error |-> "none"]
      BY <2>1 DEF Immutable
    <2>3. PICK o \in ResponseImg(h) : Answer(o.answer) /\ cached' = o.entry
      BY <1>7 DEF Render
    <2>4. route = "svg"
      BY <1>7 DEF Render, RouteInv
    <2>5. ASSUME NEW u
          PROVE  /\ Typed(h, u) = [type |-> u, length |-> "none", cache |-> "immutable", error |-> "none"]
                 /\ Immutable(Typed(h, u)) = Typed(h, u)
                 /\ Erroneous(Typed(h, u), "EncodeError")
                      = [type |-> u, length |-> "none", cache |-> "immutable", error |-> "EncodeError"]
      <3>1. Typed(h, u) = [type |-> u, length |-> "none", cache |-> "immutable", error |-> "none"]
        BY <2>2 DEF Typed
      <3> QED
        BY <3>1 DEF Immutable, Erroneous
    <2>6. \/ o = Uncached(Bare)
          \/ \E u : o = Cached("image", Immutable(Typed(h, u)))
          \/ \E u : o = Failure(Typed(h, u), "EncodeError")
      BY <2>3 DEF ResponseImg
    <2>7. Allowed(o.answer) /\ (o.entry # NoEntry => Matches(o.entry, o.answer))
      <3>1. CASE o = Uncached(Bare)
        BY <2>4, <3>1, BareGood DEF Allowed, Uncached
      <3>2. CASE \E u : o = Cached("image", Immutable(Typed(h, u)))
        BY <2>5, <3>2 DEF Allowed, Matches, Cached, Reply
      <3>3. CASE \E u : o = Failure(Typed(h, u), "EncodeError")
        BY <2>4, <2>5, <3>3 DEF Allowed, Failure, Uncached, Reply
      <3> QED
        BY <2>6, <3>1, <3>2, <3>3
    <2> QED
      BY <1>7, <2>3, <2>7, InvHandlerStep DEF Render, HandlerStep, Answer
  <1>8. CASE RenderFails
    <2> DEFINE h == Typed(Lengthless(headers), "none")
    <2>1. h.cache = "no-store" /\ Erroneous(h, "SvgEncodeError").cache = "no-store"
      BY <1>0 DEF Plain, Erroneous, Typed
    <2>2. Allowed(Dummy(h)) /\ (~ q.fallback => Allowed(Reply(502, "empty", Erroneous(h, "SvgEncodeError"))))
      BY <2>1, FailureAllowed
    <2> QED
      BY <1>8, <2>2, InvHandlerStep DEF RenderFails, HandlerStep, Answer
  <1>9. CASE Conclude
    <2>1. GoodAnswer(result) /\ (cached # NoEntry => Matches(cached, result))
      BY <1>9 DEF Conclude, TaskInv
    <2>2. pc' = "answered" /\ UNCHANGED <<q, remote, headers, route, task, result, cached>> /\ task = "done"
      BY <1>9 DEF Conclude, Answer
    <2>3. CASE q.fallback /\ result.status # 200
      <3>1. cached = NoEntry /\ result.cache # "immutable"
        BY <2>1, <2>3 DEF GoodAnswer, Matches
      <3>2. answer' = Dummy(Lengthless(result))
        BY <1>9, <2>3 DEF Conclude, Answer
      <3>3. answer'.status = 200 /\ answer'.body = "dummy" /\ answer'.cache # "immutable"
        BY <2>1, <3>1, <3>2 DEF GoodAnswer, Dummy, Reply, Typed, Lengthless
      <3>4. RouteInv' /\ Plain(headers)'
        BY <1>0, <2>2 DEF RouteInv, Plain
      <3>5. TaskInv'
        BY <2>1, <2>2, <3>1 DEF TaskInv, Running, GoodAnswer
      <3>6. FallbackAnswersImage' /\ ImmutableMeansImage' /\ EntryIsAnswer'
        BY <2>2, <3>1, <3>3 DEF FallbackAnswersImage, ImmutableMeansImage, EntryIsAnswer
      <3> QED
        BY <2>2, <3>4, <3>5, <3>6
    <2>4. CASE ~ (q.fallback /\ result.status # 200)
      <3>1. answer' = result
        BY <1>9, <2>4 DEF Conclude, Answer
      <3>2. FallbackAnswersImage' /\ ImmutableMeansImage'
        BY <2>1, <2>2, <2>4, <3>1 DEF FallbackAnswersImage, ImmutableMeansImage, GoodAnswer
      <3>3. EntryIsAnswer'
        BY <2>1, <2>2, <3>1 DEF EntryIsAnswer, Matches
      <3>4. TaskInv'
        BY <2>1, <2>2, <3>1 DEF TaskInv, Running, GoodAnswer, Matches
      <3>5. Plain(headers)' /\ RouteInv'
        BY <1>0, <2>2 DEF Plain, RouteInv
      <3> QED
        BY <2>2, <3>2, <3>3, <3>4, <3>5
    <2> QED
      BY <2>3, <2>4
  <1>10. CASE Panicked
    <2>1. Allowed(answer') /\ pc' = "answered"
      BY <1>0, <1>10, InterruptedAllowed DEF Panicked, Interrupted, Answer
    <2>2. cached = NoEntry
      BY <1>10 DEF Panicked, TaskInv
    <2>3. UNCHANGED <<q, remote, headers, codec, route, task, result, cached>>
      BY <1>10 DEF Panicked
    <2>4. TaskInv'
      BY <1>10, <2>1, <2>2, <2>3 DEF Panicked, TaskInv, Running
    <2>5. FallbackAnswersImage' /\ ImmutableMeansImage' /\ EntryIsAnswer'
      BY <2>1, <2>2, <2>3 DEF Allowed, FallbackAnswersImage, ImmutableMeansImage, EntryIsAnswer, Answered
    <2>6. Plain(headers)' /\ RouteInv' /\ task' \in Running \cup {"none", "done", "panicked", "aborted"}
      BY <1>0, <1>10, <2>1, <2>3 DEF Panicked, Plain, RouteInv, TaskInv, Running
    <2> QED
      BY <2>4, <2>5, <2>6
  <1>11. CASE Timeout
    <2>1. Allowed(answer') /\ pc' = "answered" /\ answer'.error = "ImageEncodeTimeout"
      BY <1>0, <1>11, InterruptedAllowed DEF Timeout, Interrupted, Answer
    <2>2. cached = NoEntry
      BY <1>11 DEF Timeout, TaskInv
    <2>3. task' \in Running \cup {"aborted"}
      BY <1>11 DEF Timeout, TaskInv, Running
    <2>4. UNCHANGED <<q, remote, headers, codec, route, result, cached>>
      BY <1>11 DEF Timeout
    <2>5. TaskInv'
      BY <1>11, <2>1, <2>2, <2>3, <2>4 DEF Timeout, TaskInv, Running
    <2>6. FallbackAnswersImage' /\ ImmutableMeansImage' /\ EntryIsAnswer'
      BY <2>1, <2>2, <2>4 DEF Allowed, FallbackAnswersImage, ImmutableMeansImage, EntryIsAnswer, Answered
    <2>7. Plain(headers)' /\ RouteInv' /\ task' \in Running \cup {"none", "done", "panicked", "aborted"}
      BY <1>0, <1>11, <2>1, <2>3, <2>4 DEF Timeout, Plain, RouteInv, TaskInv, Running
    <2> QED
      BY <2>5, <2>6, <2>7
  <1>12. CASE NonBrowsersafe
    <2>1. Erroneous(Lengthless(headers), "NonBrowsersafeType").cache = "no-store"
      BY <1>0 DEF Plain, Erroneous
    <2> QED
      BY <1>12, <2>1, FailureAllowed, InvHandlerStep DEF NonBrowsersafe, HandlerStep, Answer
  <1>13. CASE Stream
    <2>1. PICK t, l : headers = [type |-> t, length |-> l, cache |-> "no-store", error |-> "none"]
      BY <1>0 DEF Plain
    <2>2. Immutable(headers) = [type |-> t, length |-> l, cache |-> "immutable", error |-> "none"]
      BY <2>1 DEF Immutable
    <2>3. Allowed(answer')
      BY <1>13, <2>2 DEF Stream, Answer, Reply, Allowed
    <2> QED
      BY <1>13, <2>3, InvHandlerStep DEF Stream, HandlerStep, Answer
  <1>14. CASE StartTask \/ Panic
    BY <1>14, InvTask DEF StartTask, Panic, TaskStep, Running
  <1>15. CASE EncodeImg
    BY <1>15, EncodeImgSteps, InvTask
  <1>16. CASE UNCHANGED vars
    <2>1. Plain(headers)' /\ RouteInv'
          /\ task' \in Running \cup {"none", "done", "panicked", "aborted"}
      BY <1>16 DEF vars, Plain, RouteInv
    <2>2. TaskInv'
      BY <1>16 DEF vars, TaskInv, GoodAnswer, Matches
    <2>3. FallbackAnswersImage' /\ ImmutableMeansImage' /\ EntryIsAnswer'
      BY <1>16 DEF vars, FallbackAnswersImage, ImmutableMeansImage, EntryIsAnswer, Answered
    <2> QED
      BY <2>1, <2>2, <2>3, Zenon DEF Running
  <1> QED
    BY <1>1, <1>2, <1>3, <1>4, <1>5, <1>6, <1>7, <1>8, <1>9, <1>10, <1>11, <1>12, <1>13, <1>14, <1>15, <1>16
    DEF Next

LEMMA InvInit == Init => Inv
  <1> SUFFICES ASSUME Init PROVE Inv
    OBVIOUS
  <1>1. Plain(headers) /\ RouteInv
    <2>1. Plain(headers)
      BY DEF Init, Plain
    <2>2. RouteInv
      BY DEF Init, RouteInv
    <2> QED
      BY <2>1, <2>2
  <1>2. TaskInv /\ task \in Running \cup {"none", "done", "panicked", "aborted"}
    BY DEF Init, TaskInv, Running
  <1>3. FallbackAnswersImage /\ ImmutableMeansImage /\ EntryIsAnswer
    BY DEF Init, FallbackAnswersImage, ImmutableMeansImage, EntryIsAnswer, Answered
  <1> QED
    BY <1>1, <1>2, <1>3 DEF Inv

\* The invariant of the specification: headers of a success so far, the state of the task against
\* that of the handler, what the task returns, and the three properties.
THEOREM InvAlways == Spec => []Inv
  BY InvInit, InvNext, PTL DEF Spec

\* A request with fallback is answered with an image, whatever fails (encode, main.rs:3738-3783,
\* and remote_error_response), but for the exceptions the property names.
THEOREM FallbackCorrect == Spec => []FallbackAnswersImage
  BY InvAlways, PTL DEF Inv

\* Cache-Control: immutable goes out only with an image or a stream without an error
\* (response_img, img.rs:1303-1346, and encode, main.rs:3653-3705).
THEOREM ImmutableCorrect == Spec => []ImmutableMeansImage
  BY InvAlways, PTL DEF Inv

\* The entry for later requests is what this request was answered with, even if the task caches
\* while the handler waits for it with a timeout (cache_response, main.rs:3345).
THEOREM EntryCorrect == Spec => []EntryIsAnswer
  BY InvAlways, PTL DEF Inv
=============================================================================
