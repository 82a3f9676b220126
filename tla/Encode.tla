------------------------------- MODULE Encode -------------------------------
(***************************************************************************)
(* What becomes of a response of a remote server (RequestContext::encode   *)
(* in src/main.rs, encode_img and its helpers in src/img.rs): an error, a  *)
(* stream that is passed on, an SVG that is rendered, or an image that a   *)
(* blocking task encodes while the handler waits with a timeout.  Headers  *)
(* are those that decide how a client and the cache treat the answer;      *)
(* whether data can be decoded, and how large it is, is a choice.          *)
(***************************************************************************)
EXTENDS Integers

CONSTANTS
  Statuses,     \* of remote servers
  Types,        \* Content-Type of remote servers, "none" for no such header
  Data,         \* what a body holds, see Kinds
  NoEntry,
  NoAnswer

\* What image::guess_format knows.
Known == {"webp", "png", "jpeg", "gif", "avif", "tiff"}

\* What encode itself recognizes, with the Content-Type it gives to it.
Renamed == [jxl |-> "image/jxl", jp2 |-> "image/jp2", jxr |-> "image/jxr", pdf |-> "application/pdf",
            mng |-> "image/x-mng", avis |-> "image/avif"]

Kinds == Known \cup DOMAIN Renamed \cup {"vips", "svg", "other"}

ImageTypes == {"image/svg+xml", "image/x-tga", "image/png", "image/heic"}
              \cup {Renamed[k] : k \in DOMAIN Renamed \ {"pdf"}}
Browsersafe == {"video/mp4"}
Success == 200 .. 299

ASSUME EncodeAssumption ==
  /\ Statuses \subseteq 100 .. 599
  /\ Types \subseteq ImageTypes \cup Browsersafe \cup {"text/html", "application/pdf", "none"}
  /\ Data \subseteq Kinds

VARIABLES
  q,          \* [fallback, shape, avif]: fallback, static or badge, is_accept_avif
  remote,     \* [status, data, head, large]: the response, what its first chunk shows, its length
  headers,    \* [type, length, cache, error]
  codec,      \* a member of Known, "tga", "unknown" (Err(Some)) or "none" (Err(None))
  pc,         \* of the handler
  route,      \* "svg", "image" or "stream"
  task,       \* of the blocking task
  result,     \* what the task returns
  cached,     \* the entry put into the response cache
  answer

vars == <<q, remote, headers, codec, pc, route, task, result, cached, answer>>

Reply(status, body, h) == [status |-> status, body |-> body, type |-> h.type, length |-> h.length,
                           cache |-> h.cache, error |-> h.error]

Typed(h, type) == [h EXCEPT !.type = type]
Lengthless(h) == [h EXCEPT !.length = "none"]
Erroneous(h, e) == [h EXCEPT !.error = e]
Immutable(h) == [h EXCEPT !.cache = "immutable"]

\* 200 with the dummy image.
Dummy(h) == Reply(200, "dummy", Typed(h, "image/png"))

\* An answer that is not cached, and one that cache_response keeps; X-Proxy-Error is lost there.
Uncached(a) == [answer |-> a, entry |-> NoEntry]
Cached(body, h) ==
  [answer |-> Reply(200, body, h),
   entry  |-> [status |-> 200, body |-> body, type |-> h.type, cache |-> h.cache]]

\* The answer when an image cannot be resized has none of the headers.
Bare == Reply(500, "empty", [type |-> "none", length |-> "none", cache |-> "none", error |-> "none"])

Failure(h, e) == Uncached(Reply(502, "empty", Erroneous(h, e)))

Init ==
  /\ q \in [fallback : BOOLEAN, shape : {"plain", "static", "badge"}, avif : BOOLEAN]
  /\ \E d \in Data, t \in Types, l \in {"none", "remote"} :
       /\ remote \in [status : Statuses, data : {d}, head : {d, "other"} \cup (IF d = "other" THEN {"empty"} ELSE {}),
                       large : BOOLEAN]
       /\ headers = [type |-> t, length |-> IF t \in ImageTypes THEN "none" ELSE l,
                     cache |-> "no-store", error |-> "none"]
  /\ codec = "none" /\ pc = "response" /\ route = "stream"
  /\ task = "none" /\ result = NoAnswer /\ cached = NoEntry /\ answer = NoAnswer

-----------------------------------------------------------------------------
\* The handler

Answer(a) == pc' = "answered" /\ answer' = a

\* Errors of the remote server are passed on as errors.
MapStatus(s) == CASE s \in {400, 403, 404, 410, 451} -> s
                  [] s = 408 -> 504
                  [] OTHER -> 502

RemoteError ==
  /\ pc = "response" /\ remote.status \notin Success
  /\ LET h == Erroneous(Lengthless(headers), "status")
     IN  Answer(IF q.fallback THEN Dummy(h) ELSE Reply(MapStatus(remote.status), "empty", h))
  /\ UNCHANGED <<q, remote, headers, codec, route, task, result, cached>>

\* The first chunk of the body, as it arrives, decides what the response is.
Sniff ==
  LET k == remote.head
      svg == headers.type = "image/svg+xml" \/ k = "svg"
      image == headers.type \in ImageTypes \/ k \in DOMAIN Renamed \cup {"vips"}
  IN  /\ pc = "response" /\ remote.status \in Success
      /\ codec' = CASE k \in Known -> k
                    [] k \in {"empty", "svg"} -> "none"
                    [] headers.type = "image/x-tga" /\ k \notin Known \cup {"empty", "svg"} -> "tga"
                    [] OTHER -> "unknown"
      /\ route' = IF svg THEN "svg"
                  ELSE IF image \/ codec' \notin {"none", "unknown"} THEN "image" ELSE "stream"
      /\ LET h == IF k \in DOMAIN Renamed THEN Typed(headers, Renamed[k]) ELSE headers
         IN  headers' = IF route' = "image" THEN Lengthless(h) ELSE h
      /\ pc' = IF route' = "stream" THEN "stream" ELSE "budget"
      /\ UNCHANGED <<q, remote, task, result, cached, answer>>

\* Two permits are waited for, with a timeout each.
NoBudget ==
  /\ pc = "budget"
  /\ Answer(Reply(503, "empty", Erroneous(headers, "BufferBudgetError")))
  /\ UNCHANGED <<q, remote, headers, codec, route, task, result, cached>>

Budget ==
  /\ pc = "budget" /\ pc' = "load"
  /\ UNCHANGED <<q, remote, headers, codec, route, task, result, cached, answer>>

\* load_all: the length is known to be too large, or what arrives is, or reading fails.
LoadFails ==
  /\ pc = "load"
  /\ \E e \in {"ResponseTooLarge", "BodyReadFailed"} :
       /\ remote.large => e = "ResponseTooLarge"
       /\ Answer(Reply(502, "empty", Erroneous(headers, e)))
  /\ UNCHANGED <<q, remote, headers, codec, route, task, result, cached>>

Load ==
  /\ pc = "load" /\ ~ remote.large
  /\ pc' = IF route = "svg" THEN "cpu" ELSE "small"
  /\ UNCHANGED <<q, remote, headers, codec, route, task, result, cached, answer>>

\* A small image of a format that clients know is passed on as it is.
PassThrough ==
  /\ pc = "small" /\ q.shape = "plain" /\ codec \in {"webp", "png", "jpeg", "gif"}
  /\ LET o == Cached("remote", Immutable(headers)) IN Answer(o.answer) /\ cached' = o.entry
  /\ UNCHANGED <<q, remote, headers, codec, route, task, result>>

NotSmall ==
  /\ pc = "small" /\ pc' = "cpu"
  /\ UNCHANGED <<q, remote, headers, codec, route, task, result, cached, answer>>

NoCpu ==
  /\ pc = "cpu"
  /\ Answer(Reply(503, "empty", Erroneous(headers, "CpuSemaphoreError")))
  /\ UNCHANGED <<q, remote, headers, codec, route, task, result, cached>>

Cpu ==
  /\ pc = "cpu"
  /\ IF route = "svg" THEN pc' = "render" /\ UNCHANGED task
                      ELSE pc' = "encode" /\ task' = "queued"
  /\ UNCHANGED <<q, remote, headers, codec, route, result, cached, answer>>

-----------------------------------------------------------------------------
\* Mutant: Cache-Control is set before it is known whether the image can be encoded.
ResponseImgEarly(h0) ==
  LET h == Immutable(h0)
      types == IF q.shape = "badge" THEN {"image/png"}
               ELSE IF q.avif THEN {"image/avif"} ELSE {"image/webp", "image/jpeg"}
  IN  {Uncached(Bare)}
      \cup {Cached("image", Typed(h, t)) : t \in types}
      \cup {Failure(Typed(h, t), "EncodeError") : t \in types \cup {"none"}}

\* response_img: the image cannot be resized, is encoded, or cannot be encoded.  JPEG and WebP
\* set the Content-Type only when they succeed.
ResponseImg(h) ==
  LET types == IF q.shape = "badge" THEN {"image/png"}
               ELSE IF q.avif THEN {"image/avif"} ELSE {"image/webp", "image/jpeg"}
      unencoded == IF q.shape = "badge" \/ q.avif THEN types ELSE {"none"}
  IN  {Uncached(Bare)}
      \cup {Cached("image", Immutable(Typed(h, t))) : t \in types}
      \cup {Failure(Typed(h, t), "EncodeError") : t \in unencoded}

\* Headers of an SVG are those of a success before response_img.
Render ==
  /\ pc = "render"
  /\ \E o \in ResponseImg(Immutable(Lengthless(headers))) : Answer(o.answer) /\ cached' = o.entry
  /\ UNCHANGED <<q, remote, headers, codec, route, task, result>>

\* It cannot be parsed, is too large, or takes too long.
RenderFails ==
  /\ pc = "render"
  /\ LET h == Typed(Lengthless(headers), "none")
     IN  Answer(IF q.fallback THEN Dummy(h) ELSE Reply(502, "empty", Erroneous(h, "SvgEncodeError")))
  /\ UNCHANGED <<q, remote, headers, codec, route, task, result, cached>>

\* Mutant: the dummy image is the answer to every request with fallback.
ConcludeAlwaysDummy ==
  /\ pc = "encode" /\ task = "done"
  /\ Answer(IF q.fallback THEN Dummy(Lengthless(result)) ELSE result)
  /\ UNCHANGED <<q, remote, headers, codec, route, task, result, cached>>

\* A task that is over before the timeout.  With fallback, whatever is not a success becomes
\* the dummy image, under the headers of the failure.
Conclude ==
  /\ pc = "encode" /\ task = "done"
  /\ Answer(IF q.fallback /\ result.status # 200 THEN Dummy(Lengthless(result)) ELSE result)
  /\ UNCHANGED <<q, remote, headers, codec, route, task, result, cached>>

\* Mutant: a timeout is answered with its status even if there is a fallback.
InterruptedNoFallback(status, e) == Answer(Reply(status, "empty", Erroneous(headers, e)))

Interrupted(status, e) ==
  LET h == Erroneous(headers, e) IN Answer(IF q.fallback THEN Dummy(h) ELSE Reply(status, "empty", h))

Panicked ==
  /\ pc = "encode" /\ task = "panicked"
  /\ Interrupted(500, "ImageEncodeThread")
  /\ UNCHANGED <<q, remote, headers, codec, route, task, result, cached>>

\* The timeout aborts a task that no thread has taken yet; others run on and may still cache.
Timeout ==
  /\ pc = "encode" /\ task \notin {"done", "panicked"}
  /\ Interrupted(504, "ImageEncodeTimeout")
  /\ task' = IF task = "queued" THEN "aborted" ELSE task
  /\ UNCHANGED <<q, remote, headers, codec, route, result, cached>>

NonBrowsersafe ==
  /\ pc = "stream" /\ headers.type \notin Browsersafe
  /\ Answer(Dummy(Erroneous(Lengthless(headers), "NonBrowsersafeType")))
  /\ UNCHANGED <<q, remote, headers, codec, route, task, result, cached>>

Stream ==
  /\ pc = "stream" /\ headers.type \in Browsersafe
  /\ Answer(Reply(IF remote.status = 206 THEN 206 ELSE 200, "remote", Immutable(headers)))
  /\ UNCHANGED <<q, remote, headers, codec, route, task, result, cached>>

-----------------------------------------------------------------------------
\* The blocking task: encode_img

Work == UNCHANGED <<q, remote, headers, codec, pc, route, answer>>

Undetermined == codec \in {"none", "unknown"}

Return(o) ==
  /\ task' = "done" /\ result' = o.answer
  /\ cached' = IF o.entry = NoEntry THEN cached ELSE o.entry

\* One of the next steps, if the data is of a kind that this decoder reads, or a failure.
Decoding(kinds, next, e) ==
  /\ \/ remote.data \in kinds /\ task' \in next /\ UNCHANGED <<result, cached>>
     \/ Return(Failure(headers, e))
  /\ Work

StartTask == task = "queued" /\ task' = "start" /\ Work /\ UNCHANGED <<result, cached>>

Panic == task \in {"start", "single", "image", "anim"} /\ task' = "panicked" /\ Work
         /\ UNCHANGED <<result, cached>>

\* Two kinds are recognized by the data itself, whatever its first chunk was.
Mng ==
  /\ task = "start" /\ Undetermined /\ remote.data = "mng"
  /\ Decoding({"mng"}, IF q.shape = "plain" THEN {"image", "anim"} ELSE {"image"}, "MngAnim")

Vips ==
  /\ task = "start" /\ Undetermined /\ remote.data = "vips"
  /\ Decoding({"vips"}, {"image"}, "VIPS Error")

Other == task = "start" /\ ~ (Undetermined /\ remote.data \in {"mng", "vips"})

TooLarge ==
  /\ Other /\ ~ Undetermined
  /\ Return(Failure(headers, "DecodeDimensions"))
  /\ Work

Shaped ==
  /\ Other /\ q.shape # "plain"
  /\ task' = "single"
  /\ Work /\ UNCHANGED <<result, cached>>

ByType(type) == Other /\ q.shape = "plain" /\ Undetermined /\ headers.type = type

Jxl == ByType("image/jxl") /\ Decoding({"jxl"}, {"image", "anim"}, "JpegXL")

\* A sequence of one frame, or a file that is none, is a single image.
AvifSeq ==
  /\ \/ ByType("image/avif")
     \/ Other /\ q.shape = "plain" /\ codec = "avif"
  /\ Decoding({"avif", "avis"}, {"image", "anim"}, "AvifSeq")

Jpeg2000 == ByType("image/jp2") /\ Decoding({"jp2"}, {"image"}, "Jpeg2000 Error")
JpegXR == ByType("image/jxr") /\ Decoding({"jxr"}, {"image"}, "JpegXR decode")
\* HEIC is not recognized by its data.
Heic == ByType("image/heic") /\ Decoding({"other"}, {"image"}, "HEIC Error")
Pdf == ByType("application/pdf") /\ Decoding({"pdf"}, {"image"}, "PDF Error")

NoCodec ==
  /\ Other /\ q.shape = "plain" /\ Undetermined
  /\ headers.type \notin {"image/jxl", "image/avif", "image/jp2", "image/jxr", "image/heic",
                          "application/pdf"}
  /\ Return(Failure(headers, "CodecError"))
  /\ Work

ByCodec(c) == Other /\ q.shape = "plain" /\ codec = c

\* turbojpeg first, the decoder of the image crate when it fails.
Jpeg == ByCodec("jpeg") /\ task' \in {"image", "single"} /\ Work /\ UNCHANGED <<result, cached>>

Png == ByCodec("png") /\ Decoding({"png"}, {"single", "anim"}, "ApngAnim")
Gif == ByCodec("gif") /\ Decoding({"gif"}, {"single", "anim"}, "GifAnim")
WebP == ByCodec("webp") /\ Decoding({"webp"}, {"single", "anim"}, "WebPAnim")

OtherCodec ==
  /\ \E c \in {"tiff", "tga"} : ByCodec(c)
  /\ task' = "single"
  /\ Work /\ UNCHANGED <<result, cached>>

EncodeSingle ==
  /\ task = "single"
  /\ IF codec = "none"
     THEN Return(Failure(headers, "Unknown Format")) /\ Work
     ELSE Decoding(IF codec = "unknown" THEN {} ELSE {remote.data}, {"image"}, "DecodeError")

EncodeImage ==
  /\ task = "image"
  /\ \E o \in ResponseImg(headers) : Return(o)
  /\ Work

\* encode_anim, see Animation: an animation some of whose frames were refused is cached, but
\* has neither directive for caches.
EncodeAnim ==
  /\ task = "anim"
  /\ LET webp == Typed(headers, "image/webp")
     IN  \E o \in {Failure(headers, "NoAvailableFrames"), Failure(headers, "FramesLimit"),
                   Uncached(Bare),
                   Cached("image", Immutable(webp)),
                   Cached("image", Erroneous([webp EXCEPT !.cache = "none"], "WebPAnimEncodeError"))} :
           Return(o)
  /\ Work

EncodeImg ==
  \/ Mng \/ Vips \/ TooLarge \/ Shaped \/ Jxl \/ AvifSeq \/ Jpeg2000 \/ JpegXR \/ Heic \/ Pdf \/ NoCodec
  \/ Jpeg \/ Png \/ Gif \/ WebP \/ OtherCodec \/ EncodeSingle \/ EncodeImage \/ EncodeAnim

Next ==
  \/ RemoteError \/ Sniff \/ NoBudget \/ Budget \/ LoadFails \/ Load \/ PassThrough \/ NotSmall
  \/ NoCpu \/ Cpu \/ Render \/ RenderFails \/ Conclude \/ Panicked \/ Timeout \/ NonBrowsersafe
  \/ Stream \/ StartTask \/ EncodeImg \/ Panic

Spec == Init /\ [][Next]_vars

-----------------------------------------------------------------------------
\* Properties

Answered == pc = "answered"

\* With fallback every failure of the remote server, of a decoder, of an encoder or of the task
\* is answered with an image.  Resources that cannot be had and bodies that cannot be read are
\* the exceptions, and an SVG that was rendered but not encoded (main.rs:3587).
FallbackAnswersImage ==
  Answered /\ q.fallback =>
    \/ answer.status \in {200, 206} /\ answer.body # "empty"
    \/ answer.error \in {"BufferBudgetError", "CpuSemaphoreError", "ResponseTooLarge", "BodyReadFailed"}
    \/ route = "svg" /\ (answer.status = 500 \/ answer.error = "EncodeError")

\* What a client may keep for ever is an image or a stream without an error, never the dummy or
\* an empty body, and it has no length of another body; again except for an SVG that could not be
\* encoded.
ImmutableMeansImage ==
  Answered /\ answer.cache = "immutable" =>
    \/ /\ answer.status \in {200, 206} /\ answer.body \in {"image", "remote"} /\ answer.error = "none"
       /\ answer.length = "remote" => answer.body = "remote"
    \/ route = "svg" /\ answer.error = "EncodeError"

\* What is cached for the requests that follow is what this one was answered with, unless it
\* had given up before: then it is still an image, never the answer of a timeout.
EntryIsAnswer ==
  cached # NoEntry =>
    /\ cached.status = 200 /\ cached.body \in {"image", "remote"}
    /\ Answered /\ answer.error # "ImageEncodeTimeout" =>
         /\ cached.status = answer.status /\ cached.body = answer.body
         /\ cached.type = answer.type /\ cached.cache = answer.cache
=============================================================================
