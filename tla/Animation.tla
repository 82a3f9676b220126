------------------------------ MODULE Animation ------------------------------
(***************************************************************************)
(* encode_anim (src/img.rs): the frames of a decoded animation become a    *)
(* WebP animation.  Start times are i32 sums of the delays; libwebp learns *)
(* the length of a frame from the start of the next, so that the length of *)
(* the last one is written into the result afterwards.                     *)
(***************************************************************************)
EXTENDS FrameDecode

CONSTANT MaxDuration   \* 0xFFFFFF, what an ANMF chunk can hold

ASSUME AnimationAssumption == MaxDuration \in Nat \ {0} /\ MaxDuration < Half

VARIABLES
  epc,         \* "wait" for the decoder, "frames", "done"
  index,       \* frame_index
  size,        \* canvas of the first frame, and so of the encoder
  timestamp,   \* i32
  available,   \* available_frames
  lastStart,   \* start of the last frame the encoder took
  played,      \* lengths of the frames the encoder took, but of the last
  refused,     \* err is set
  answer       \* [status, immutable, cached, cycle]

encodeVars == <<epc, index, size, timestamp, available, lastStart, played, refused, answer>>

vars == <<format, firstOnly, pc, chunks, canvas, drawn, headers, count, budgeted, rects,
          rate, pending, defaultDelay, nextDelay, ticks, emitted, loops, frames, pixels, shown,
          epc, index, size, timestamp, available, lastStart, played, refused, answer>>

NoAnswer == [status |-> 0, immutable |-> FALSE, cached |-> FALSE, cycle |-> 0]

Refusal(status) == [NoAnswer EXCEPT !.status = status]

Statuses == {0, 200, 500, 502}

AnswerType == [status : Statuses, immutable : BOOLEAN, cached : BOOLEAN, cycle : Nat]

EncodeTypeOK ==
  /\ epc \in {"wait", "frames", "done"}
  /\ index \in Nat
  /\ size \in Sizes \cup {NoSize}
  /\ timestamp \in (- Half) .. (Half - 1)
  /\ available \in Nat /\ lastStart \in (- Half) .. (Half - 1) /\ played \in Nat
  /\ refused \in BOOLEAN
  /\ answer \in AnswerType

Init ==
  /\ DecodeInit
  /\ epc = "wait" /\ index = 0 /\ size = NoSize /\ timestamp = 0
  /\ available = 0 /\ lastStart = 0 /\ played = 0 /\ refused = FALSE
  /\ answer = NoAnswer

-----------------------------------------------------------------------------
\* i32 arithmetic of a release build
I32(x) == ((x + Half) % (2 * Half)) - Half

Decode == DecodeNext /\ UNCHANGED encodeVars

\* libwebp subtracts the start of the frame before as a u32, so that it never sees a wrap-around.
Since(start) == IF available = 0 THEN 0 ELSE (start - lastStart) % (2 * Half)

\* What it accepts: the length of the frame before must fit into an ANMF chunk.
Accepts(start) == Since(start) <= MaxDuration

Done(a) == epc' = "done" /\ answer' = a

\* A file that could not be decoded is answered at once, and so is a single image, which goes
\* to response_img instead.
NoAnimation ==
  /\ epc = "wait"
  /\ \/ pc = "failed" /\ Done(Refusal(502))
     \/ /\ pc = "done" /\ format \in {"mng", "avif"} /\ Len(frames) = 1
        /\ Done([NoAnswer EXCEPT !.status = 200, !.immutable = TRUE, !.cached = TRUE])
  /\ UNCHANGED <<decodeVars, index, size, timestamp, available, lastStart, played, refused>>

Begin ==
  /\ epc = "wait" /\ pc = "done"
  /\ ~ (format \in {"mng", "avif"} /\ Len(frames) = 1)
  /\ epc' = "frames"
  /\ UNCHANGED <<decodeVars, index, size, timestamp, available, lastStart, played, refused, answer>>

Frame == frames[index + 1]

\* Mutant: the time of a frame that is left out is not counted.
AdvanceAfterCheckDone(ms, kept) == timestamp' = IF kept THEN I32(timestamp + I32(ms)) ELSE timestamp

\* Mutant: the sum stops at the largest i32.
AdvanceSaturating(ms, kept) ==
  timestamp' = IF timestamp + ms < Half THEN timestamp + ms ELSE Half - 1

\* timestamp += delay as i32, before anything is known about the frame.
Advance(ms, kept) == timestamp' = I32(timestamp + I32(ms))

\* The encoder takes the frame or not; it may fail for other reasons than time.
AddFrame ==
  \/ /\ Accepts(timestamp)
     /\ available' = available + 1 /\ lastStart' = timestamp
     /\ played' = played + Since(timestamp)
     /\ UNCHANGED refused
  \/ refused' = TRUE /\ UNCHANGED <<available, lastStart, played>>

\* The next frame, of the size of the first once both are resized: images of the same canvas
\* always are.
EncodeFrame ==
  /\ epc = "frames" /\ index < Len(frames) /\ index < FramesLimit
  /\ index' = index + 1
  /\ Advance(Frame.ms, TRUE)
  /\ size' = IF size = NoSize THEN Frame.size ELSE size
  /\ AddFrame
  /\ UNCHANGED <<decodeVars, epc, answer>>

\* A frame of another size is left out, but its time passes.
LeaveOut ==
  /\ epc = "frames" /\ index < Len(frames) /\ index < FramesLimit
  /\ size # NoSize /\ Frame.size # size
  /\ index' = index + 1
  /\ Advance(Frame.ms, FALSE)
  /\ UNCHANGED <<decodeVars, epc, size, available, lastStart, played, refused, answer>>

\* A frame cannot be resized, or there are more than the limit.
GiveUp ==
  /\ epc = "frames" /\ index < Len(frames)
  /\ Done(Refusal(IF index < FramesLimit THEN 500 ELSE 502))
  /\ UNCHANGED <<decodeVars, index, size, timestamp, available, lastStart, played, refused>>

-----------------------------------------------------------------------------
\* The lengths of all frames but the last, in the result.
SumBeforeLast == Delay(played)

\* What libwebp makes of the last frame: the average of the others, by their start times.
Average == IF available > 1 THEN (played % (2 * Half)) \div (available - 1) ELSE 0

\* set_last_anmf_duration; where the sum is not larger the average stays.
LastDuration(total) ==
  IF total > SumBeforeLast
  THEN IF total - SumBeforeLast < MaxDuration THEN total - SumBeforeLast ELSE MaxDuration
  ELSE Average

Finish ==
  /\ epc = "frames" /\ index = Len(frames) /\ available > 0
  /\ Done([status |-> 200, immutable |-> ~ refused, cached |-> TRUE,
           cycle |-> played + LastDuration(IF timestamp > 0 THEN timestamp ELSE 0)])
  /\ UNCHANGED <<decodeVars, index, size, timestamp, available, lastStart, played, refused>>

\* NoAvailableFrames
FinishEmpty ==
  /\ epc = "frames" /\ index = Len(frames) /\ available = 0
  /\ Done(Refusal(502))
  /\ UNCHANGED <<decodeVars, index, size, timestamp, available, lastStart, played, refused>>

Next ==
  \/ Decode
  \/ NoAnimation \/ Begin \/ EncodeFrame \/ LeaveOut \/ GiveUp \/ Finish \/ FinishEmpty

Spec == Init /\ [][Next]_vars

-----------------------------------------------------------------------------
\* Properties

\* An animation that clients may keep for ever lasts as long as the one it was made of, though
\* frames of other sizes were left out and libwebp does not know the length of the last: where
\* that is at least a millisecond and fits into an ANMF chunk, and the whole into an i32.
CycleKept ==
  (epc = "done" /\ available > 1 /\ answer.immutable /\ shown < Half
     /\ shown - lastStart \in 1 .. MaxDuration) => answer.cycle = shown

OneSize == \A i, j \in DOMAIN frames : frames[i].size = frames[j].size

\* An animation of one size that clients may keep for ever has every frame of the file, and all
\* but the last are shown as long as there, though start times wrap around when an i32 does not
\* hold them any more (img.rs:1122); if any frame was refused, it is not marked.
FramesKept ==
  (epc = "done" /\ answer.immutable /\ Len(frames) > 1 /\ OneSize) =>
    /\ available = Len(frames)
    /\ played = shown - frames[Len(frames)].ms
=============================================================================
