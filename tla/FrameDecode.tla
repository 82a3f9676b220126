----------------------------- MODULE FrameDecode -----------------------------
(***************************************************************************)
(* How an animated image becomes a list of frames with delays, before      *)
(* encode_anim sees it: the chunk machine of MNG and JNG (src/mng.rs), the *)
(* scans that reject too large WebP, APNG and GIF animations before they   *)
(* are decoded, JPEG XL (src/img.rs) and AVIF sequences (src/avif_seq.rs). *)
(* Pixels are counted, not computed; what a file holds, and whether a      *)
(* decoder can read it, is a choice.                                       *)
(***************************************************************************)
EXTENDS Integers, Sequences

CONSTANTS
  Formats,        \* of "mng", "webp", "apng", "gif", "jxl", "avif"
  Sizes,          \* [w, h] of canvases and images in files
  MaxSide,        \* MAX_SIDE
  MaxPixels,      \* max_decode_pixels
  FramesLimit,    \* ANIMATION_FRAMES_LIMIT
  Ticks,          \* durations of frames in files
  Rates,          \* ticks per second in files
  Second,         \* milliseconds per second
  Half,           \* 2^31: delays are u32, timestamps i32
  Endless,        \* 0x7fffffff, the iteration count that means forever
  MaxChunks,      \* files are not longer
  NoSize

ASSUME DecodeAssumption ==
  /\ Formats \subseteq {"mng", "webp", "apng", "gif", "jxl", "avif"}
  /\ Sizes \subseteq [w : Nat, h : Nat] /\ NoSize \notin [w : Nat, h : Nat]
  /\ MaxSide \in Nat /\ MaxPixels \in Nat /\ FramesLimit \in Nat
  /\ Ticks \subseteq Nat /\ Rates \subseteq Nat
  /\ Second \in Nat \ {0} /\ Half \in Nat \ {0} /\ Endless \in Nat
  /\ MaxChunks \in Nat

VARIABLES
  format,
  firstOnly,      \* first_frame_only: static or badge
  pc,             \* "scan", "decode", "done" or "failed"
  chunks,         \* chunks read
  canvas,         \* canvas_pixels: of the last MHDR, VP8X or IHDR
  drawn,          \* the canvas that the decoders of WebP, APNG and GIF use: the first
  headers,        \* MHDR, VP8X, IHDR seen
  count,          \* frames announced (acTL, keyframes, samples) or counted by the scan
  budgeted,       \* not an APNG whose scan has found no acTL
  rects,          \* sum of the image descriptors of a GIF
  rate,           \* tps
  pending,        \* png_start or jng is set
  defaultDelay, nextDelay,   \* of MNG, in ticks
  ticks,          \* cumulative_ticks
  emitted,        \* emitted_ms
  loops,          \* loop_count
  frames,         \* delays and canvas of the frames decoded
  pixels,         \* what they take together
  shown           \* and how long they last together, in ms

file == <<format, firstOnly>>
scanned == <<canvas, drawn, headers, count, budgeted, rects, rate>>
mng == <<pending, defaultDelay, nextDelay, loops>>
timing == <<ticks, emitted>>
output == <<frames, pixels, shown>>
decodeVars == <<format, firstOnly, pc, chunks, canvas, drawn, headers, count, budgeted, rects,
                rate, pending, defaultDelay, nextDelay, ticks, emitted, loops, frames, pixels, shown>>

Pixels(d) == d.w * d.h

\* What n frames of one size take.
Taken(d, n) == Pixels(d) * n

DelayMax == 2 * Half - 1

\* Delay::from_saturating_duration keeps 32 bits of milliseconds.
Delay(ms) == IF ms > DelayMax THEN DelayMax ELSE ms

\* dimensions_allowed_for
Allowed(d) == d.w > 0 /\ d.h > 0 /\ d.w <= MaxSide /\ d.h <= MaxSide /\ Pixels(d) <= MaxPixels

\* Mutant: the pixels of one frame are compared, not those of all of them.
WithinBudgetOfOne(n) == canvas # NoSize /\ n <= FramesLimit /\ Pixels(canvas) <= MaxPixels

\* The frames so far and one more, or all that are announced: an unknown canvas is too large.
WithinBudget(n) == canvas # NoSize /\ n <= FramesLimit /\ Taken(canvas, n) <= MaxPixels

FrameType == [size : Sizes, ms : Nat]

\* Types; what frames are counted for has a canvas.
DecodeTypeOK ==
  /\ format \in Formats /\ firstOnly \in BOOLEAN
  /\ pc \in {"scan", "decode", "done", "failed"}
  /\ chunks \in 0 .. MaxChunks
  /\ canvas \in Sizes \cup {NoSize} /\ drawn \in Sizes \cup {NoSize}
  /\ headers \in Nat /\ count \in Nat /\ rects \in Nat /\ rate \in Nat
  /\ budgeted \in BOOLEAN
  /\ pending \in {"none", "png", "jng"}
  /\ defaultDelay \in Nat /\ nextDelay \in Nat
  /\ ticks \in Nat /\ emitted \in Nat /\ loops \in Nat
  /\ frames \in Seq(FrameType)
  /\ pixels \in Nat /\ shown \in Nat
  /\ (canvas = NoSize) <=> (headers = 0)
  /\ drawn = NoSize <=> (headers = 0 \/ format \in {"mng", "jxl", "avif"})
  /\ count > 0 /\ pc \in {"scan", "decode"} => canvas # NoSize

DecodeInit ==
  /\ format \in Formats
  /\ firstOnly \in BOOLEAN
  /\ firstOnly => format = "mng"   \* encode_img takes all others to encode_single then
  /\ pc = "scan" /\ chunks = 0
  /\ canvas = NoSize /\ drawn = NoSize /\ headers = 0 /\ count = 0 /\ rects = 0 /\ rate = 1
  /\ budgeted = TRUE
  /\ pending = "none" /\ defaultDelay = 1 /\ nextDelay = 1 /\ loops = 0
  /\ ticks = 0 /\ emitted = 0
  /\ frames = <<>> /\ pixels = 0 /\ shown = 0

-----------------------------------------------------------------------------
Chunk(f) == format = f /\ pc = "scan" /\ chunks < MaxChunks /\ chunks' = chunks + 1

Fail == pc' = "failed"

Emit(d, ms) ==
  /\ frames' = Append(frames, [size |-> d, ms |-> Delay(ms)])
  /\ pixels' = pixels + Pixels(d)
  /\ shown' = shown + Delay(ms)

\* A whole second has Second milliseconds; a rate of zero counts as one.
Milliseconds(t) == (t * Second) \div (IF rate > 0 THEN rate ELSE 1)

\* Mutant: each frame's ticks are converted by themselves.
EmitTicksEach(t) ==
  /\ ticks' = ticks + t
  /\ Emit(canvas, Milliseconds(t))
  /\ emitted' = emitted

\* MNG and JPEG XL convert the cumulative ticks and emit what is new, so that the fractions of
\* a millisecond add up.
EmitTicks(t) ==
  /\ ticks' = ticks + t
  /\ emitted' = Milliseconds(ticks')
  /\ Emit(canvas, IF emitted' > emitted THEN emitted' - emitted ELSE 0)

-----------------------------------------------------------------------------
\* MNG, and JNG in it or wrapped in one

\* A JNG file alone is read as an MNG whose MHDR has its size and 100 ticks per second.
Mhdr ==
  /\ Chunk("mng") /\ pending = "none"
  /\ \E d \in Sizes, r \in Rates :
       IF Allowed(d)
       THEN /\ canvas' = d /\ rate' = r /\ headers' = headers + 1
            /\ UNCHANGED <<drawn, count, budgeted, rects, pc>>
       ELSE Fail /\ UNCHANGED scanned
  /\ UNCHANGED <<file, mng, timing, output>>

Term ==
  /\ Chunk("mng")
  /\ \E n \in {1, Endless} : loops' = IF n >= Endless THEN 0 ELSE n
  /\ UNCHANGED <<file, pc, scanned, pending, defaultDelay, nextDelay, timing, output>>

\* change_delay: 1 for the next subframe, 2 for all that follow.
Fram ==
  /\ Chunk("mng") /\ pending = "none"
  /\ nextDelay' \in Ticks
  /\ defaultDelay' \in {defaultDelay, nextDelay'}
  /\ UNCHANGED <<file, pc, scanned, pending, loops, timing, output>>

\* An embedded PNG begins.
Ihdr ==
  /\ Chunk("mng") /\ pending = "none"
  /\ \E d \in Sizes : IF Allowed(d) THEN pending' = "png" /\ UNCHANGED pc
                                    ELSE Fail /\ UNCHANGED pending
  /\ UNCHANGED <<file, scanned, defaultDelay, nextDelay, loops, timing, output>>

\* An embedded JNG begins, of a color type, compression and alpha that are supported.
Jhdr ==
  /\ Chunk("mng") /\ pending = "none"
  /\ \E d \in Sizes : \/ Allowed(d) /\ pending' = "jng" /\ UNCHANGED pc
                      \/ Fail /\ UNCHANGED pending
  /\ UNCHANGED <<file, scanned, defaultDelay, nextDelay, loops, timing, output>>

\* The embedded image ends: it is decoded and laid over the canvas.
Iend ==
  /\ Chunk("mng") /\ pending # "none"
  /\ pending' = "none"
  /\ WithinBudget(Len(frames) + 1)
  /\ EmitTicks(nextDelay)
  /\ nextDelay' = defaultDelay
  /\ pc' = IF firstOnly THEN "done" ELSE "scan"
  /\ UNCHANGED <<file, scanned, defaultDelay, loops>>

\* No MHDR, too many frames or pixels, or the image cannot be decoded.
IendFails ==
  /\ Chunk("mng") /\ pending # "none"
  /\ Fail
  /\ UNCHANGED <<file, scanned, mng, timing, output>>

\* MEND, IEND of nothing, a truncated chunk, or the end of the data.
MngEnd ==
  /\ format = "mng" /\ pc = "scan"
  /\ pc' = IF frames = <<>> THEN "failed" ELSE "done"
  /\ UNCHANGED <<chunks, file, scanned, mng, timing, output>>

-----------------------------------------------------------------------------
\* The scans of WebP, APNG and GIF, and the headers of JPEG XL and AVIF

\* VP8X or IHDR.  The decoder's own canvas is that of the first, which encode_img has checked;
\* the scan goes by the last.
Canvas ==
  /\ \E f \in {"webp", "apng"} : Chunk(f)
  /\ canvas' \in Sizes
  /\ IF headers = 0 THEN Allowed(canvas') /\ drawn' = canvas' ELSE UNCHANGED drawn
  /\ headers' = headers + 1
  /\ UNCHANGED <<file, pc, count, budgeted, rects, rate, mng, timing, output>>

\* The logical screen of a GIF, which encode_img has checked.
Screen ==
  /\ Chunk("gif") /\ canvas = NoSize
  /\ canvas' \in Sizes /\ Allowed(canvas') /\ drawn' = canvas'
  /\ headers' = 1
  /\ UNCHANGED <<file, pc, count, budgeted, rects, rate, mng, timing, output>>

\* ANMF: one frame more.
Anmf ==
  /\ Chunk("webp")
  /\ count' = count + 1
  /\ IF WithinBudget(count + 1) THEN UNCHANGED pc ELSE Fail
  /\ UNCHANGED <<file, canvas, drawn, headers, budgeted, rects, rate, mng, timing, output>>

\* acTL announces the frames and ends the scan (is_apng has seen that IHDR comes first); a PNG
\* of 16 bits is then rewritten with 8, which may fail.
Actl ==
  /\ Chunk("apng") /\ canvas # NoSize
  /\ \E n \in 0 .. FramesLimit + 1 :
       /\ count' = n
       /\ IF WithinBudget(n) THEN pc' \in {"decode", "failed"} ELSE Fail
  /\ UNCHANGED <<file, canvas, drawn, headers, budgeted, rects, rate, mng, timing, output>>

\* IDAT or a truncated chunk before any acTL ends the scan too, and nothing is compared with the
\* budget; where the decoder finds an acTL all the same, it gives as many frames as it likes.
Unannounced ==
  /\ Chunk("apng") /\ canvas # NoSize
  /\ budgeted' = FALSE
  /\ count' \in 0 .. FramesLimit + 1
  /\ pc' \in {"decode", "failed"}
  /\ UNCHANGED <<file, canvas, drawn, headers, rects, rate, mng, timing, output>>

\* An image descriptor, within the screen.
Descriptor ==
  /\ Chunk("gif") /\ canvas # NoSize
  /\ \E d \in Sizes :
       IF /\ count < FramesLimit
          /\ d.w <= canvas.w /\ d.h <= canvas.h
          /\ rects + Pixels(d) <= MaxPixels
       THEN count' = count + 1 /\ rects' = rects + Pixels(d) /\ UNCHANGED pc
       ELSE Fail /\ UNCHANGED <<count, rects>>
  /\ UNCHANGED <<file, canvas, drawn, headers, budgeted, rate, mng, timing, output>>

\* The trailer, an unknown tag or a truncated chunk: what was counted is accepted.
ScanEnd ==
  /\ format \in {"webp", "gif"} /\ pc = "scan"
  /\ pc' = "decode"
  /\ UNCHANGED <<chunks, file, scanned, mng, timing, output>>

\* The headers of an animated JPEG XL, or of an AVIF sequence: dimensions, number of frames
\* and all their pixels (a JPEG XL of one keyframe is no animation).
Sequence ==
  /\ \E f \in {"jxl", "avif"} : Chunk(f)
  /\ \E d \in Sizes, r \in Rates, n \in 1 .. FramesLimit + 1 :
       /\ format = "jxl" => n > 1
       /\ IF Allowed(d) /\ n <= FramesLimit /\ Taken(d, n) <= MaxPixels
          THEN canvas' = d /\ headers' = 1 /\ rate' = r /\ count' = n /\ pc' = "decode"
          ELSE Fail /\ UNCHANGED <<canvas, headers, rate, count>>
  /\ UNCHANGED <<file, drawn, budgeted, rects, mng, timing, output>>

-----------------------------------------------------------------------------
\* Decoding what was announced

\* The decoders of GIF and APNG give a delay for each frame, WebP the time at which it ends.
DecodeFrame ==
  /\ format \in {"webp", "apng", "gif"} /\ pc = "decode" /\ Len(frames) < count
  /\ \E t \in Ticks : Emit(drawn, t)
  /\ UNCHANGED <<pc, chunks, file, scanned, mng, timing>>

\* A keyframe of a JPEG XL.
Keyframe ==
  /\ format = "jxl" /\ pc = "decode" /\ Len(frames) < count
  /\ \E t \in Ticks : EmitTicks(t)
  /\ UNCHANGED <<pc, chunks, file, scanned, mng>>

\* A picture of an AVIF sequence: of its own size, its own duration rounded down.
Picture ==
  /\ format = "avif" /\ pc = "decode" /\ Len(frames) < count
  /\ \E t \in Ticks, d \in Sizes :
       /\ Allowed(d)
       /\ Emit(d, Milliseconds(t))
       /\ ticks' = ticks + t
  /\ UNCHANGED <<pc, chunks, file, scanned, mng, emitted>>

\* All frames are there, or one of a lazily decoded animation cannot be decoded and ends it
\* (an AVIF decoder may give fewer pictures than samples).
DecodeEnd ==
  /\ pc = "decode"
  /\ Len(frames) = count \/ (format # "jxl" /\ Len(frames) < count)
  /\ pc' = IF format = "avif" /\ frames = <<>> THEN "failed" ELSE "done"
  /\ UNCHANGED <<chunks, file, scanned, mng, timing, output>>

\* A JPEG XL or an AVIF fails as a whole, for one frame or a picture that is too large.
DecodeFails ==
  /\ format \in {"jxl", "avif"} /\ pc = "decode"
  /\ Fail
  /\ UNCHANGED <<chunks, file, scanned, mng, timing, output>>

DecodeNext ==
  \/ Mhdr \/ Term \/ Fram \/ Ihdr \/ Jhdr \/ Iend \/ IendFails \/ MngEnd
  \/ Canvas \/ Screen \/ Anmf \/ Actl \/ Unannounced \/ Descriptor \/ ScanEnd \/ Sequence
  \/ DecodeFrame \/ Keyframe \/ Picture \/ DecodeEnd \/ DecodeFails

DecodeSpec == DecodeInit /\ [][DecodeNext]_decodeVars

-----------------------------------------------------------------------------
\* Properties

\* No frame is larger than max_decode_pixels, and what is announced is within the limit of frames.
\* The k-th frame of an MNG is one of at most max_decode_pixels / k pixels, also after another MHDR
\* (mng.rs:331).  All frames together are within max_decode_pixels if the file has one header;
\* those of a GIF as their descriptors say, those of an AVIF as its track does, and those of an
\* APNG if an acTL announced them (a later, smaller VP8X or IHDR, or an IDAT before the acTL, gets
\* past the scan: img.rs:113, 153, 179).
PixelsWithinBudget ==
  /\ \A k \in DOMAIN frames :
       Pixels(frames[k].size) <= MaxPixels /\ (format = "mng" => Taken(frames[k].size, k) <= MaxPixels)
  /\ budgeted => Len(frames) <= FramesLimit
  /\ CASE format = "gif"  -> rects <= MaxPixels
       [] format = "avif" -> canvas # NoSize => Taken(canvas, Len(frames)) <= MaxPixels
       [] OTHER           -> budgeted /\ headers <= 1 => pixels <= MaxPixels

\* No delay was cut to 32 bits.
Uncut == \A i \in DOMAIN frames : frames[i].ms < DelayMax

\* The frames of an MNG or a JPEG XL last as long together as its ticks, to the millisecond,
\* however many fractions there are (test fractional_frame_delays_preserve_total_cycle).  An
\* AVIF loses less than a millisecond per frame.
NoDrift ==
  (headers <= 1 /\ Uncut) =>
    /\ format \in {"mng", "jxl"} => shown = Milliseconds(ticks)
    /\ format = "avif" => Milliseconds(ticks) - Len(frames) <= shown /\ shown <= Milliseconds(ticks)

\* The inductive strengthening of PixelsWithinBudget: what was announced is within the budget
\* before anything is decoded, and what is decoded is no more than that.
BudgetInv ==
  /\ drawn # NoSize => Allowed(drawn)
  /\ format = "mng" /\ canvas # NoSize => Allowed(canvas)
  /\ \A k \in DOMAIN frames :
       Pixels(frames[k].size) <= MaxPixels /\ (format = "mng" => Taken(frames[k].size, k) <= MaxPixels)
  /\ format = "gif" => rects <= MaxPixels
  /\ canvas = NoSize => Len(frames) = 0
  /\ format \in {"webp", "apng", "gif"} /\ headers <= 1 => drawn = canvas
  /\ format \in {"jxl", "avif", "gif"} => headers <= 1
  /\ format # "mng" /\ pc = "scan" => Len(frames) = 0
  /\ format = "mng" => pc # "decode"
  /\ budgeted =>
       /\ Len(frames) <= FramesLimit
       /\ format # "gif" /\ headers <= 1 /\ canvas # NoSize => Taken(canvas, Len(frames)) <= MaxPixels
       /\ format # "mng" /\ pc \in {"scan", "decode"} /\ count > 0 =>
            count <= FramesLimit /\ (format # "gif" /\ headers <= 1 => Taken(canvas, count) <= MaxPixels)
  /\ format \notin {"gif", "avif"} /\ headers <= 1 =>
       pixels = IF canvas = NoSize THEN 0 ELSE Taken(canvas, Len(frames))
  /\ ~ budgeted => format = "apng" /\ pc # "scan"
  /\ format = "jxl" /\ pc = "decode" => Allowed(canvas)

\* The inductive strengthening of NoDrift: what was emitted is what the ticks make, and it is
\* shown unless a delay was cut to 32 bits.
DriftInv ==
  /\ headers = 0 \/ (format # "mng" /\ pc = "scan") => ticks = 0 /\ emitted = 0 /\ shown = 0
  /\ headers = 0 => Len(frames) = 0
  /\ format \in {"mng", "jxl"} /\ headers <= 1 =>
       emitted = Milliseconds(ticks) /\ (Uncut => shown = emitted)
  /\ format = "avif" /\ Uncut =>
       Milliseconds(ticks) - Len(frames) <= shown /\ shown <= Milliseconds(ticks)
=============================================================================
