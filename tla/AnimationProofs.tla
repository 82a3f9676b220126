--------------------------- MODULE AnimationProofs ---------------------------
(***************************************************************************)
(* Theorems about FrameDecode and Animation, for any sizes, budgets, rates *)
(* and durations.                                                          *)
(***************************************************************************)
EXTENDS Animation, TLAPS

\* A larger number of frames of one size takes more pixels.
LEMMA MoreFrames ==
  ASSUME NEW a \in Nat, NEW m \in Nat, NEW n \in Nat, m <= n
  PROVE  a * m <= a * n /\ a * (m + 1) = a * m + a /\ a * m \in Nat
  <1>1. PICK k \in Nat : n = m + k
    <2>1. n - m \in Nat /\ n = m + (n - m)
      OBVIOUS
    <2> QED
      BY <2>1
  <1>2. a * n = a * m + a * k /\ a * k \in Nat /\ a * m \in Nat
    BY <1>1
  <1>3. a * (m + 1) = a * m + a
    OBVIOUS
  <1> QED
    BY <1>2, <1>3

\* What \div is, for the two lemmas below.
LEMMA Quotient ==
  ASSUME NEW a \in Nat, NEW c \in Nat \ {0}
  PROVE  /\ a \div c \in Nat
         /\ c * (a \div c) <= a /\ a < c * (a \div c) + c
  OBVIOUS

\* Rounding down keeps the order.
LEMMA RoundingMonotone ==
  ASSUME NEW a \in Nat, NEW b \in Nat, NEW c \in Nat \ {0}, a <= b
  PROVE  a \div c <= b \div c
  <1> DEFINE p == a \div c
             q == b \div c
  <1>1. p \in Nat /\ q \in Nat /\ c * p <= a /\ b < c * q + c
    BY Quotient
  <1> HIDE DEF p, q
  <1>2. SUFFICES ASSUME q < p PROVE FALSE
    BY <1>1 DEF p, q
  <1>3. c * (q + 1) <= c * p /\ c * (q + 1) = c * q + c
    BY <1>1, <1>2, MoreFrames
  <1>4. c * p \in Nat /\ c * q \in Nat
    BY <1>1
  <1> QED
    BY <1>1, <1>3, <1>4

\* Rounding down two parts loses at most one.
LEMMA RoundingParts ==
  ASSUME NEW a \in Nat, NEW b \in Nat, NEW c \in Nat \ {0}
  PROVE  /\ (a \div c) + (b \div c) <= (a + b) \div c
         /\ (a + b) \div c <= (a \div c) + (b \div c) + 1
  <1> DEFINE p == a \div c
             q == b \div c
             r == (a + b) \div c
  <1>1. /\ p \in Nat /\ q \in Nat /\ r \in Nat
        /\ c * p <= a /\ a < c * p + c
        /\ c * q <= b /\ b < c * q + c
        /\ c * r <= a + b /\ a + b < c * r + c
    BY Quotient
  <1> HIDE DEF p, q, r
  <1>2. c * p \in Nat /\ c * q \in Nat /\ c * r \in Nat /\ c * (p + q) = c * p + c * q
    BY <1>1
  <1>3. p + q <= r
    <2> SUFFICES ASSUME r < p + q PROVE FALSE
      BY <1>1
    <2>1. c * (r + 1) <= c * (p + q) /\ c * (r + 1) = c * r + c
      BY <1>1, MoreFrames
    <2> QED
      BY <1>1, <1>2, <2>1
  <1>4. r <= p + q + 1
    <2> SUFFICES ASSUME p + q + 2 <= r PROVE FALSE
      BY <1>1
    <2>1. c * (p + q + 2) <= c * r
      BY <1>1, MoreFrames
    <2>2. c * (p + q + 2) = c * (p + q) + c + c
      BY <1>1
    <2> QED
      BY <1>1, <1>2, <2>1, <2>2
  <1> QED
    BY <1>3, <1>4 DEF p, q, r

-----------------------------------------------------------------------------
LEMMA PixelsNat ==
  ASSUME DecodeAssumption, NEW d \in Sizes
  PROVE  Pixels(d) \in Nat /\ d # NoSize
  BY DEF DecodeAssumption, Pixels

LEMMA MillisecondsNat ==
  ASSUME DecodeAssumption, rate \in Nat, NEW t \in Nat
  PROVE  Milliseconds(t) \in Nat
  <1> DEFINE r == IF rate > 0 THEN rate ELSE 1
  <1>1. r \in Nat \ {0} /\ t * Second \in Nat
    BY DEF DecodeAssumption
  <1> HIDE DEF r
  <1>2. (t * Second) \div r \in Nat
    BY <1>1, Quotient
  <1> QED
    BY <1>2 DEF Milliseconds, r

\* What one more frame does to the frames, their pixels and their time.
LEMMA EmitTyped ==
  ASSUME DecodeAssumption, DecodeTypeOK, NEW d \in Sizes, NEW ms \in Nat, Emit(d, ms)
  PROVE  /\ frames' \in Seq(FrameType) /\ pixels' \in Nat /\ shown' \in Nat
         /\ Len(frames') = Len(frames) + 1 /\ frames' # <<>>
         /\ pixels' = pixels + Pixels(d)
         /\ shown' = shown + Delay(ms) /\ Delay(ms) \in Nat
         /\ \A i \in DOMAIN frames : i \in DOMAIN frames' /\ frames'[i] = frames[i]
         /\ Len(frames') \in DOMAIN frames' /\ frames'[Len(frames')].ms = Delay(ms)
         /\ frames'[Len(frames')].size = d
         /\ \A i \in DOMAIN frames' : i \in DOMAIN frames \/ i = Len(frames')
  <1>1. Delay(ms) \in Nat
    BY DEF Delay, DelayMax, DecodeAssumption
  <1>2. Pixels(d) \in Nat
    BY PixelsNat
  <1>3. [size |-> d, ms |-> Delay(ms)] \in FrameType
    BY <1>1 DEF FrameType
  <1> DEFINE f == [size |-> d, ms |-> Delay(ms)]
  <1>4. frames \in Seq(FrameType) /\ frames' = Append(frames, f) /\ f.ms = Delay(ms) /\ f.size = d
    BY DEF DecodeTypeOK, Emit
  <1> HIDE DEF f
  <1>5. f \in FrameType
    BY <1>3 DEF f
  <1>6. frames' \in Seq(FrameType) /\ Len(frames') = Len(frames) + 1
    BY <1>4, <1>5
  <1>7. frames' # <<>>
    BY <1>4, <1>6
  <1>8. \A i \in DOMAIN frames : i \in DOMAIN frames' /\ frames'[i] = frames[i]
    BY <1>4, <1>5
  <1>9. Len(frames') \in DOMAIN frames' /\ frames'[Len(frames')] = f
    BY <1>4, <1>5, <1>6
  <1>10. pixels' = pixels + Pixels(d) /\ pixels' \in Nat
    BY <1>2 DEF DecodeTypeOK, Emit
  <1>11. shown' = shown + Delay(ms) /\ shown' \in Nat
    <2>1. shown \in Nat
      BY DEF DecodeTypeOK
    <2> QED
      BY <1>1, <2>1 DEF Emit
  <1>12. f.ms = Delay(ms) /\ f.size = d
    BY <1>4
  <1>13. \A i \in DOMAIN frames' : i \in DOMAIN frames \/ i = Len(frames')
    BY <1>4, <1>5, <1>6
  <1> QED
    BY <1>1, <1>6, <1>7, <1>8, <1>9, <1>10, <1>11, <1>12, <1>13

\* The same for frames that are timed in cumulative ticks.
LEMMA EmitTicksTyped ==
  ASSUME DecodeAssumption, DecodeTypeOK, canvas \in Sizes, NEW t \in Nat, EmitTicks(t)
  PROVE  /\ ticks' \in Nat /\ emitted' \in Nat
         /\ ticks' = ticks + t /\ emitted' = Milliseconds(ticks')
         /\ \E ms \in Nat :
              /\ Emit(canvas, ms)
              /\ ms = IF emitted' > emitted THEN emitted' - emitted ELSE 0
  <1>1. ticks' \in Nat /\ rate \in Nat /\ emitted \in Nat
    BY DEF EmitTicks, DecodeTypeOK
  <1>2. emitted' \in Nat
    BY <1>1, MillisecondsNat DEF EmitTicks
  <1> DEFINE ms == IF emitted' > emitted THEN emitted' - emitted ELSE 0
  <1>3. ms \in Nat
    <2>1. \A a, b \in Nat : (IF b > a THEN b - a ELSE 0) \in Nat
      OBVIOUS
    <2> QED
      BY <1>1, <1>2, <2>1
  <1>4. Emit(canvas, ms)
    BY DEF EmitTicks
  <1> QED
    BY <1>1, <1>2, <1>3, <1>4 DEF EmitTicks

\* Each step of the decoders keeps the types.
LEMMA DecodeTypeStep ==
  ASSUME DecodeAssumption, DecodeTypeOK, [DecodeNext]_decodeVars
  PROVE  DecodeTypeOK'
  <1> USE DEF DecodeTypeOK, file, scanned, mng, timing, output, Fail
  <1>0. Ticks \subseteq Nat /\ Rates \subseteq Nat /\ MaxChunks \in Nat /\ FramesLimit \in Nat
        /\ Endless \in Nat /\ NoSize \notin Sizes
    BY DEF DecodeAssumption
  <1>1. ASSUME NEW f \in STRING, Chunk(f)
        PROVE  chunks' \in 0 .. MaxChunks
    BY <1>0, <1>1 DEF Chunk
  <1>2. CASE Mhdr
    <2>1. chunks' \in 0 .. MaxChunks /\ UNCHANGED <<file, mng, timing, output>> /\ pc = "scan"
      BY <1>0, <1>1, <1>2 DEF Mhdr, Chunk
    <2>2. \/ UNCHANGED scanned /\ pc' = "failed"
          \/ /\ canvas' \in Sizes /\ rate' \in Rates /\ headers' = headers + 1
             /\ UNCHANGED <<drawn, count, budgeted, rects, pc>>
      BY <1>2 DEF Mhdr
    <2>3. CASE UNCHANGED scanned /\ pc' = "failed"
      BY <2>1, <2>3
    <2>4. CASE /\ canvas' \in Sizes /\ rate' \in Rates /\ headers' = headers + 1
               /\ UNCHANGED <<drawn, count, budgeted, rects, pc>>
      <3>1. /\ rate' \in Nat /\ headers' \in Nat /\ headers' # 0 /\ canvas' # NoSize
            /\ format = "mng" /\ drawn = NoSize
        BY <1>0, <1>2, <2>4 DEF Mhdr, Chunk
      <3> QED
        BY <2>1, <2>4, <3>1
    <2> QED
      BY <2>2, <2>3, <2>4
  <1>3. CASE Term
    BY <1>0, <1>1, <1>3 DEF Term, Chunk
  <1>4. CASE Fram
    BY <1>0, <1>1, <1>4 DEF Fram, Chunk
  <1>5. CASE Ihdr
    BY <1>0, <1>1, <1>5 DEF Ihdr, Chunk
  <1>6. CASE Jhdr
    BY <1>0, <1>1, <1>6 DEF Jhdr, Chunk
  <1>7. CASE Iend
    <2>1. canvas \in Sizes /\ EmitTicks(nextDelay)
      BY <1>7 DEF Iend, WithinBudget
    <2>2. PICK ms \in Nat : Emit(canvas, ms)
      BY <2>1, EmitTicksTyped
    <2>3. ticks' \in Nat /\ emitted' \in Nat
      BY <2>1, EmitTicksTyped
    <2>4. frames' \in Seq(FrameType) /\ pixels' \in Nat /\ shown' \in Nat
      BY <2>1, <2>2, EmitTyped
    <2> QED
      BY <1>0, <1>1, <1>7, <2>3, <2>4 DEF Iend, Chunk
  <1>8. CASE IendFails
    BY <1>0, <1>1, <1>8 DEF IendFails, Chunk
  <1>9. CASE MngEnd
    BY <1>9 DEF MngEnd
  <1>10. CASE Canvas \/ Screen
    <2>1. /\ format \in {"webp", "apng", "gif"} /\ pc = "scan"
          /\ chunks < MaxChunks /\ chunks' = chunks + 1
          /\ UNCHANGED <<file, pc, count, budgeted, rects, rate, mng, timing, output>>
      BY <1>10 DEF Canvas, Screen, Chunk
    <2>3. chunks' \in 0 .. MaxChunks
      BY <1>0, <2>1
    <2>2. /\ canvas' \in Sizes /\ canvas' # NoSize /\ headers' \in Nat /\ headers' # 0
          /\ drawn' \in Sizes /\ drawn' # NoSize
      BY <1>0, <1>10, <2>1 DEF Canvas, Screen
    <2> QED
      BY <2>1, <2>2, <2>3
  <1>11. CASE Anmf
    BY <1>0, <1>1, <1>11 DEF Anmf, Chunk, WithinBudget
  <1>12. CASE Actl \/ Unannounced
    <2>1. 0 .. FramesLimit + 1 \subseteq Nat
      BY <1>0
    <2>2. /\ pc' \in {"decode", "failed"} /\ budgeted' \in BOOLEAN /\ count' \in 0 .. FramesLimit + 1
          /\ chunks < MaxChunks /\ chunks' = chunks + 1 /\ canvas # NoSize
          /\ UNCHANGED <<file, canvas, drawn, headers, rects, rate, mng, timing, output>>
      <3>1. CASE Actl
        BY <3>1 DEF Actl, Chunk
      <3>2. CASE Unannounced
        BY <3>2 DEF Unannounced, Chunk
      <3> QED
        BY <1>12, <3>1, <3>2
    <2>3. chunks' \in 0 .. MaxChunks /\ count' \in Nat
      BY <1>0, <2>1, <2>2
    <2> QED
      BY <2>2, <2>3
  <1>13. CASE Descriptor
    <2>1. \A d \in Sizes : Pixels(d) \in Nat
      BY PixelsNat
    <2>2. /\ count' \in Nat /\ rects' \in Nat /\ pc' \in {"scan", "failed"}
          /\ chunks' \in 0 .. MaxChunks
      <3>1. Chunk("gif")
        BY <1>13 DEF Descriptor
      <3>2. PICK d \in Sizes :
              \/ count' = count + 1 /\ rects' = rects + Pixels(d) /\ UNCHANGED pc
              \/ pc' = "failed" /\ UNCHANGED <<count, rects>>
        BY <1>13 DEF Descriptor
      <3>3. chunks < MaxChunks /\ chunks' = chunks + 1 /\ pc = "scan"
        BY <3>1 DEF Chunk
      <3>4. chunks' \in 0 .. MaxChunks
        BY <1>0, <3>3
      <3>5. count \in Nat /\ rects \in Nat /\ Pixels(d) \in Nat
        BY <2>1
      <3>6. count' \in Nat /\ rects' \in Nat
        <4> HIDE DEF DecodeTypeOK
        <4> QED
          BY <3>2, <3>5
      <3> QED
        BY <3>2, <3>3, <3>4, <3>6
    <2>3. UNCHANGED <<file, canvas, drawn, headers, budgeted, rate, mng, timing, output>> /\ canvas # NoSize
      BY <1>13 DEF Descriptor
    <2> QED
      BY <2>2, <2>3
  <1>14. CASE ScanEnd
    BY <1>14 DEF ScanEnd
  <1>15. CASE Sequence
    <2>1. /\ chunks' \in 0 .. MaxChunks /\ pc' \in {"decode", "failed"}
          /\ format \in {"jxl", "avif"}
          /\ UNCHANGED <<file, drawn, budgeted, rects, mng, timing, output>>
      BY <1>0, <1>1, <1>15 DEF Sequence, Chunk
    <2>2. \/ UNCHANGED <<canvas, headers, rate, count>>
          \/ /\ canvas' \in Sizes /\ headers' = 1 /\ rate' \in Rates
             /\ count' \in 1 .. FramesLimit + 1
      BY <1>15 DEF Sequence
    <2>3. CASE UNCHANGED <<canvas, headers, rate, count>>
      BY <1>0, <1>15, <2>1, <2>3 DEF Sequence
    <2>4. CASE canvas' \in Sizes /\ headers' = 1 /\ rate' \in Rates /\ count' \in 1 .. FramesLimit + 1
      <3>1. count' \in Nat /\ rate' \in Nat /\ headers' \in Nat /\ headers' # 0 /\ canvas' # NoSize
        BY <1>0, <2>4
      <3> QED
        BY <2>1, <2>4, <3>1
    <2> QED
      BY <2>2, <2>3, <2>4
  <1>16. CASE DecodeFrame
    <2>1. PICK t \in Ticks : Emit(drawn, t)
      BY <1>16 DEF DecodeFrame
    <2>2. drawn \in Sizes
      BY <1>16 DEF DecodeFrame
    <2>3. frames' \in Seq(FrameType) /\ pixels' \in Nat /\ shown' \in Nat
      BY <1>0, <2>1, <2>2, EmitTyped
    <2> QED
      BY <1>16, <2>3 DEF DecodeFrame
  <1>17. CASE Keyframe
    <2>1. PICK t \in Ticks : EmitTicks(t)
      BY <1>17 DEF Keyframe
    <2>2. canvas \in Sizes /\ t \in Nat
      BY <1>0, <1>17 DEF Keyframe
    <2>3. PICK ms \in Nat : Emit(canvas, ms)
      BY <2>1, <2>2, EmitTicksTyped
    <2>4. ticks' \in Nat /\ emitted' \in Nat
      BY <2>1, <2>2, EmitTicksTyped
    <2>5. frames' \in Seq(FrameType) /\ pixels' \in Nat /\ shown' \in Nat
      BY <2>2, <2>3, EmitTyped
    <2> QED
      BY <1>17, <2>4, <2>5 DEF Keyframe
  <1>18. CASE Picture
    <2>1. PICK t \in Ticks, d \in Sizes : Emit(d, Milliseconds(t)) /\ ticks' = ticks + t
      BY <1>18 DEF Picture
    <2>2. t \in Nat /\ Milliseconds(t) \in Nat
      BY <1>0, <2>1, MillisecondsNat
    <2>3. frames' \in Seq(FrameType) /\ pixels' \in Nat /\ shown' \in Nat
      BY <2>1, <2>2, EmitTyped
    <2> QED
      BY <1>18, <2>1, <2>2, <2>3 DEF Picture
  <1>19. CASE DecodeEnd
    BY <1>19 DEF DecodeEnd
  <1>20. CASE DecodeFails
    BY <1>20 DEF DecodeFails
  <1>21. CASE UNCHANGED decodeVars
    BY <1>21 DEF decodeVars
  <1> QED
    BY <1>2, <1>3, <1>4, <1>5, <1>6, <1>7, <1>8, <1>9, <1>10, <1>11, <1>12, <1>13, <1>14,
       <1>15, <1>16, <1>17, <1>18, <1>19, <1>20, <1>21 DEF DecodeNext
-----------------------------------------------------------------------------
\* The encoder leaves what the decoders keep alone.
LEMMA DecodeOnly ==
  ASSUME [Next]_vars
  PROVE  [DecodeNext]_decodeVars
  <1>1. CASE Decode
    BY <1>1 DEF Decode
  <1>2. CASE NoAnimation \/ Begin \/ EncodeFrame \/ LeaveOut \/ GiveUp \/ Finish \/ FinishEmpty
    BY <1>2, Zenon DEF NoAnimation, Begin, EncodeFrame, LeaveOut, GiveUp, Finish, FinishEmpty
  <1>3. CASE UNCHANGED vars
    BY <1>3, Zenon DEF vars, decodeVars
  <1> QED
    BY <1>1, <1>2, <1>3, Zenon DEF Next

\* Every variable of the decoders keeps its type.
THEOREM DecodeTypeCorrect == Spec => []DecodeTypeOK
  <1>1. Init => DecodeTypeOK
    BY DecodeAssumption DEF Init, DecodeInit, DecodeTypeOK, DecodeAssumption
  <1>2. DecodeTypeOK /\ [Next]_vars => DecodeTypeOK'
    BY DecodeAssumption, DecodeOnly, DecodeTypeStep
  <1> QED
    BY <1>1, <1>2, PTL DEF Spec

-----------------------------------------------------------------------------
\* The pixels of one frame more.
LEMMA TakenFacts ==
  ASSUME DecodeAssumption, NEW d \in Sizes, NEW n \in Nat
  PROVE  /\ Taken(d, n) \in Nat /\ Taken(d, 0) = 0
         /\ Taken(d, n + 1) = Taken(d, n) + Pixels(d)
         /\ \A m \in Nat : m <= n => Taken(d, m) <= Taken(d, n)
  <1>1. Pixels(d) \in Nat
    BY PixelsNat
  <1>2. Pixels(d) * 0 = 0
    <2>1. \A k \in Nat : k * 0 = 0
      OBVIOUS
    <2> QED
      BY <1>1, <2>1
  <1>3. Pixels(d) * (n + 1) = Pixels(d) * n + Pixels(d) /\ Pixels(d) * n \in Nat
    BY <1>1, MoreFrames
  <1>4. \A m \in Nat : m <= n => Pixels(d) * m <= Pixels(d) * n
    BY <1>1, MoreFrames
  <1> QED
    BY <1>2, <1>3, <1>4 DEF Taken

\* One frame more of a size within the budget.
LEMMA FramesSmall ==
  ASSUME DecodeAssumption, DecodeTypeOK, BudgetInv, NEW d \in Sizes, NEW ms \in Nat, Emit(d, ms),
         Pixels(d) <= MaxPixels, format' = format,
         format = "mng" => Taken(d, Len(frames) + 1) <= MaxPixels
  PROVE  \A k \in DOMAIN frames' :
           /\ Pixels(frames'[k].size) <= MaxPixels
           /\ format' = "mng" => Taken(frames'[k].size, k) <= MaxPixels
  <1> TAKE k \in DOMAIN frames'
  <1>1. CASE k \in DOMAIN frames
    BY <1>1, EmitTyped DEF BudgetInv
  <1>2. CASE k = Len(frames')
    BY <1>2, EmitTyped
  <1> QED
    BY <1>1, <1>2, EmitTyped

\* Each step of the decoders keeps the budget.
LEMMA BudgetStep ==
  ASSUME DecodeAssumption, DecodeTypeOK, DecodeTypeOK', BudgetInv, [DecodeNext]_decodeVars
  PROVE  BudgetInv'
  <1>t. /\ canvas \in Sizes \cup {NoSize} /\ headers \in Nat /\ count \in Nat /\ rects \in Nat
        /\ drawn \in Sizes \cup {NoSize} /\ budgeted \in BOOLEAN
        /\ Len(frames) \in Nat /\ pixels \in Nat /\ (canvas = NoSize <=> headers = 0)
        /\ drawn = NoSize <=> (headers = 0 \/ format \in {"mng", "jxl", "avif"})
        /\ count > 0 /\ pc \in {"scan", "decode"} => canvas # NoSize
        /\ nextDelay \in Nat /\ rate \in Nat
    BY DEF DecodeTypeOK
  <1>0. /\ MaxPixels \in Nat /\ FramesLimit \in Nat
        /\ \A d \in Sizes : Pixels(d) \in Nat /\ d # NoSize
        /\ \A d : Allowed(d) => Pixels(d) <= MaxPixels
    BY PixelsNat DEF DecodeAssumption, Allowed
  <1>a. \A d \in Sizes : Taken(d, 0) = 0
    BY TakenFacts
  <1> USE DEF BudgetInv, file, scanned, mng, timing, output, Fail
  <1>1. CASE Mhdr
    <2>1. format = "mng" /\ pc = "scan" /\ UNCHANGED <<file, mng, timing, output>>
      BY <1>1 DEF Mhdr, Chunk
    <2>2. \/ /\ pc' = pc /\ headers' = headers + 1 /\ UNCHANGED <<drawn, count, budgeted, rects>>
             /\ canvas' \in Sizes /\ Allowed(canvas')
          \/ pc' = "failed" /\ UNCHANGED scanned
      BY <1>1 DEF Mhdr
    <2>3. CASE pc' = "failed" /\ UNCHANGED scanned
      BY <2>1, <2>3 DEF Allowed
    <2>4. CASE /\ pc' = pc /\ headers' = headers + 1 /\ UNCHANGED <<drawn, count, budgeted, rects>>
               /\ canvas' \in Sizes /\ Allowed(canvas')
      <3>0. /\ canvas' # NoSize /\ drawn = NoSize /\ budgeted
            /\ headers' > 1 \/ (headers = 0 /\ Len(frames) = 0 /\ pixels = 0)
        BY <1>0, <1>t, <2>1, <2>4
      <3>1. Taken(canvas', 0) = 0
        BY <1>a, <2>4
      <3>2. headers' <= 1 => Taken(canvas', Len(frames)) <= MaxPixels /\ pixels = Taken(canvas', Len(frames))
        BY <1>0, <1>t, <2>4, <3>0, <3>1
      <3> QED
        BY <2>1, <2>4, <3>0, <3>2
    <2> QED
      BY <2>2, <2>3, <2>4
  <1>2. CASE Term \/ Fram \/ Ihdr \/ Jhdr \/ IendFails \/ MngEnd
    BY <1>2 DEF Term, Fram, Ihdr, Jhdr, IendFails, MngEnd, Chunk, Allowed
  <1>3. CASE Iend
    <2>1. canvas \in Sizes /\ WithinBudget(Len(frames) + 1)
      BY <1>3, <1>t DEF Iend, WithinBudget
    <2>2. PICK ms \in Nat : Emit(canvas, ms)
      BY <1>t, <1>3, <2>1, EmitTicksTyped DEF Iend
    <2>3. pixels' = pixels + Pixels(canvas) /\ Len(frames') = Len(frames) + 1
      BY <2>1, <2>2, EmitTyped
    <2>4. Taken(canvas, Len(frames) + 1) = Taken(canvas, Len(frames)) + Pixels(canvas)
      BY <1>t, <2>1, TakenFacts
    <2>5. format = "mng" /\ pc' \in {"done", "scan"} /\ UNCHANGED <<format, scanned>>
      BY <1>3 DEF Iend, Chunk
    <2>6. \A k \in DOMAIN frames' :
            /\ Pixels(frames'[k].size) <= MaxPixels
            /\ format' = "mng" => Taken(frames'[k].size, k) <= MaxPixels
      <3>1. Pixels(canvas) <= MaxPixels /\ Taken(canvas, Len(frames) + 1) <= MaxPixels
        BY <1>0, <1>t, <2>1, <2>5 DEF WithinBudget
      <3> QED
        BY <2>1, <2>2, <2>5, <3>1, FramesSmall
    <2> QED
      BY <1>0, <1>t, <2>1, <2>3, <2>4, <2>5, <2>6 DEF WithinBudget, Allowed
  <1>4. CASE Canvas \/ Screen
    <2>1. /\ format \in {"webp", "apng", "gif"} /\ pc = "scan" /\ Len(frames) = 0
          /\ UNCHANGED <<file, pc, count, budgeted, rects, rate, mng, timing, output>>
      BY <1>4 DEF Canvas, Screen, Chunk
    <2>2. /\ canvas' \in Sizes /\ canvas' # NoSize /\ drawn' # NoSize /\ Allowed(drawn')
          /\ headers' <= 1 => headers = 0 /\ drawn' = canvas'
          /\ format = "gif" => headers' = 1
      BY <1>0, <1>t, <1>4, <2>1 DEF Canvas, Screen, Chunk
    <2>3. Taken(canvas', 0) = 0
      BY <1>a, <2>2
    <2>4. headers' <= 1 => count = 0 /\ (format # "gif" => pixels = 0)
      BY <1>t, <2>1, <2>2
    <2>5. headers' <= 1 =>
            /\ Taken(canvas', Len(frames)) <= MaxPixels
            /\ format # "gif" => pixels = Taken(canvas', Len(frames))
      BY <1>0, <2>1, <2>3, <2>4
    <2> QED
      BY <2>1, <2>2, <2>4, <2>5
  <1>5. CASE Anmf
    BY <1>0, <1>t, <1>5 DEF Anmf, Chunk, WithinBudget, Allowed
  <1>6. CASE Actl
    BY <1>0, <1>t, <1>6 DEF Actl, Chunk, WithinBudget, Allowed
  <1>15. CASE Unannounced
    BY <1>0, <1>t, <1>15 DEF Unannounced, Chunk, Allowed
  <1>7. CASE Descriptor
    <2>1. /\ format = "gif" /\ pc = "scan" /\ pc' \in {"scan", "failed"}
          /\ UNCHANGED <<file, canvas, drawn, headers, budgeted, rate, mng, timing, output>>
          /\ canvas # NoSize
      BY <1>7 DEF Descriptor, Chunk
    <2>2. \/ count < FramesLimit /\ count' = count + 1 /\ rects' <= MaxPixels
          \/ pc' = "failed" /\ UNCHANGED <<count, rects>>
      BY <1>7 DEF Descriptor
    <2>3. pc' = "scan" /\ budgeted /\ count' > 0 => count' <= FramesLimit
      BY <1>0, <1>t, <2>1, <2>2
    <2>4. rects' <= MaxPixels
      BY <2>1, <2>2
    <2> QED
      BY <2>1, <2>3, <2>4 DEF Allowed
  <1>8. CASE ScanEnd
    BY <1>0, <1>t, <1>8 DEF ScanEnd, Allowed
  <1>9. CASE Sequence
    <2>1. /\ format \in {"jxl", "avif"} /\ pc = "scan" /\ Len(frames) = 0
          /\ UNCHANGED <<file, drawn, budgeted, rects, mng, timing, output>>
      BY <1>9 DEF Sequence, Chunk
    <2>2. \/ pc' = "failed" /\ UNCHANGED <<canvas, headers, rate, count>>
          \/ /\ pc' = "decode" /\ canvas' \in Sizes /\ headers' = 1 /\ count' \in 1 .. FramesLimit
             /\ Allowed(canvas') /\ Taken(canvas', count') <= MaxPixels
      <3>1. PICK d \in Sizes, n \in 1 .. FramesLimit + 1 :
              IF Allowed(d) /\ n <= FramesLimit /\ Taken(d, n) <= MaxPixels
              THEN canvas' = d /\ headers' = 1 /\ count' = n /\ pc' = "decode"
              ELSE Fail /\ UNCHANGED <<canvas, headers, rate, count>>
        BY <1>9 DEF Sequence
      <3>2. n <= FramesLimit => n \in 1 .. FramesLimit
        BY <1>0
      <3> QED
        BY <3>1, <3>2
    <2>3. CASE pc' = "failed" /\ UNCHANGED <<canvas, headers, rate, count>>
      BY <2>1, <2>3 DEF Allowed
    <2>4. CASE /\ pc' = "decode" /\ canvas' \in Sizes /\ headers' = 1 /\ count' \in 1 .. FramesLimit
               /\ Allowed(canvas') /\ Taken(canvas', count') <= MaxPixels
      <3>1. drawn = NoSize /\ canvas' # NoSize /\ Taken(canvas', 0) = 0 /\ budgeted
        BY <1>0, <1>a, <1>t, <2>1, <2>4
      <3>2. format = "jxl" => pixels = 0
        BY <1>0, <1>a, <1>t, <2>1
      <3> QED
        BY <1>0, <1>t, <2>1, <2>4, <3>1, <3>2
    <2> QED
      BY <2>2, <2>3, <2>4
  <1>10. CASE DecodeFrame
    <2>1. PICK t \in Ticks : Emit(drawn, t)
      BY <1>10 DEF DecodeFrame
    <2>2. /\ canvas \in Sizes /\ t \in Nat /\ Len(frames) + 1 <= count
          /\ drawn \in Sizes /\ Allowed(drawn)
      BY <1>t, <1>10 DEF DecodeFrame, DecodeAssumption
    <2>3. pixels' = pixels + Pixels(drawn) /\ Len(frames') = Len(frames) + 1
      BY <2>1, <2>2, EmitTyped
    <2>4. /\ Taken(canvas, Len(frames) + 1) = Taken(canvas, Len(frames)) + Pixels(canvas)
          /\ Taken(canvas, Len(frames) + 1) <= Taken(canvas, count)
          /\ Taken(canvas, Len(frames)) \in Nat /\ Taken(canvas, count) \in Nat
      BY <1>t, <2>2, TakenFacts
    <2>5. format \in {"webp", "apng", "gif"} /\ pc = "decode" /\ pc' = pc
          /\ UNCHANGED <<format, scanned>>
      BY <1>10 DEF DecodeFrame
    <2>6. \A k \in DOMAIN frames' :
            /\ Pixels(frames'[k].size) <= MaxPixels
            /\ format' = "mng" => Taken(frames'[k].size, k) <= MaxPixels
      BY <1>0, <2>1, <2>2, <2>5, FramesSmall
    <2>7. headers <= 1 => drawn = canvas
      BY <2>5
    <2>8. budgeted =>
            /\ Len(frames') <= FramesLimit
            /\ format # "gif" /\ headers <= 1 => Taken(canvas, Len(frames')) <= MaxPixels
      <3>1. count > 0 /\ Len(frames') <= count /\ Len(frames') \in Nat
        BY <1>t, <2>2, <2>3
      <3>2. budgeted => count <= FramesLimit
                        /\ (format # "gif" /\ headers <= 1 => Taken(canvas, count) <= MaxPixels)
        BY <2>5, <3>1
      <3>3. Taken(canvas, Len(frames')) <= Taken(canvas, count) /\ Taken(canvas, Len(frames')) \in Nat
        <4>1. Pixels(canvas) \in Nat
          BY <1>0, <2>2
        <4> HIDE DEF BudgetInv
        <4> QED
          BY <2>3, <2>4, <4>1
      <3>4. \A a, b, c \in Int : a <= b /\ b <= c => a <= c
        OBVIOUS
      <3> HIDE DEF BudgetInv
      <3>5. budgeted => Len(frames') <= FramesLimit
        BY <1>0, <1>t, <3>1, <3>2, <3>4
      <3>6. budgeted /\ format # "gif" /\ headers <= 1 => Taken(canvas, Len(frames')) <= MaxPixels
        BY <1>0, <2>4, <3>2, <3>3, <3>4
      <3> QED
        BY <3>5, <3>6
    <2>9. format # "gif" /\ headers <= 1 => pixels' = Taken(canvas, Len(frames'))
      BY <1>0, <1>t, <2>2, <2>3, <2>4, <2>5, <2>7
    <2>10. canvas # NoSize /\ Len(frames') # 0
      BY <1>0, <1>t, <2>2, <2>3
    <2> QED
      BY <2>5, <2>6, <2>8, <2>9, <2>10 DEF Allowed
  <1>11. CASE Keyframe
    <2>1. PICK t \in Ticks : EmitTicks(t)
      BY <1>11 DEF Keyframe
    <2>2. canvas \in Sizes /\ t \in Nat /\ Len(frames) + 1 <= count
      BY <1>t, <1>11 DEF Keyframe, DecodeAssumption
    <2>3. PICK ms \in Nat : Emit(canvas, ms)
      BY <2>1, <2>2, EmitTicksTyped
    <2>4. pixels' = pixels + Pixels(canvas) /\ Len(frames') = Len(frames) + 1
      BY <2>2, <2>3, EmitTyped
    <2>5. /\ Taken(canvas, Len(frames) + 1) = Taken(canvas, Len(frames)) + Pixels(canvas)
          /\ Taken(canvas, Len(frames) + 1) <= Taken(canvas, count)
          /\ Taken(canvas, Len(frames)) \in Nat /\ Taken(canvas, count) \in Nat
      <3>1. Len(frames) + 1 \in Nat /\ Len(frames) \in Nat /\ count \in Nat
        BY <1>t
      <3> QED
        BY <2>2, <3>1, TakenFacts
    <2>6. format = "jxl" /\ pc = "decode" /\ pc' = pc /\ UNCHANGED <<format, scanned>>
      BY <1>11 DEF Keyframe
    <2>7. \A k \in DOMAIN frames' :
            /\ Pixels(frames'[k].size) <= MaxPixels
            /\ format' = "mng" => Taken(frames'[k].size, k) <= MaxPixels
      BY <1>0, <2>2, <2>3, <2>6, FramesSmall
    <2> QED
      BY <1>0, <1>t, <2>2, <2>4, <2>5, <2>6, <2>7 DEF Allowed
  <1>12. CASE Picture
    <2>1. PICK t \in Ticks, d \in Sizes : Emit(d, Milliseconds(t)) /\ Allowed(d)
      BY <1>12 DEF Picture
    <2>2. Milliseconds(t) \in Nat
      BY <1>t, <2>1, MillisecondsNat DEF DecodeAssumption
    <2>3. Len(frames') = Len(frames) + 1
      BY <2>1, <2>2, EmitTyped
    <2>4. canvas \in Sizes /\ Len(frames) + 1 <= count
      BY <1>t, <1>12 DEF Picture
    <2>5. Taken(canvas, Len(frames) + 1) <= Taken(canvas, count)
          /\ Taken(canvas, Len(frames) + 1) \in Nat /\ Taken(canvas, count) \in Nat
      <3>1. Len(frames) + 1 \in Nat /\ count \in Nat
        BY <1>t
      <3> QED
        BY <2>4, <3>1, TakenFacts
    <2>6. format = "avif" /\ pc = "decode" /\ pc' = pc /\ UNCHANGED <<format, scanned>>
      BY <1>12 DEF Picture
    <2>7. \A k \in DOMAIN frames' :
            /\ Pixels(frames'[k].size) <= MaxPixels
            /\ format' = "mng" => Taken(frames'[k].size, k) <= MaxPixels
      BY <1>0, <2>1, <2>2, <2>6, FramesSmall
    <2> QED
      BY <1>0, <1>t, <2>3, <2>4, <2>5, <2>6, <2>7 DEF Allowed
  <1>13. CASE DecodeEnd \/ DecodeFails
    BY <1>13 DEF DecodeEnd, DecodeFails, Allowed
  <1>14. CASE UNCHANGED decodeVars
    BY <1>14 DEF decodeVars, Allowed
  <1> QED
    BY <1>1, <1>2, <1>3, <1>4, <1>5, <1>6, <1>7, <1>8, <1>9, <1>10, <1>11, <1>12, <1>13, <1>14, <1>15
       DEF DecodeNext

\* No frame is larger than the budget, the k-th of an MNG no more than its k-th part whatever
\* headers the file has; frames that are announced are within the limit, and with one header all
\* together within the budget (those of a GIF by their descriptors, of an AVIF by its track).
THEOREM BudgetCorrect == Spec => []PixelsWithinBudget
  <1>1. Init => DecodeTypeOK /\ BudgetInv
    BY DecodeAssumption DEF Init, DecodeInit, DecodeTypeOK, BudgetInv, DecodeAssumption
  <1>2. DecodeTypeOK /\ BudgetInv /\ [Next]_vars => (DecodeTypeOK /\ BudgetInv)'
    <2> SUFFICES ASSUME DecodeTypeOK, BudgetInv, [Next]_vars
                 PROVE  (DecodeTypeOK /\ BudgetInv)'
      OBVIOUS
    <2>1. DecodeTypeOK'
      BY DecodeAssumption, DecodeOnly, DecodeTypeStep
    <2>2. BudgetInv'
      BY <2>1, DecodeAssumption, DecodeOnly, BudgetStep
    <2> QED
      BY <2>1, <2>2
  <1>3. DecodeTypeOK /\ BudgetInv => PixelsWithinBudget
    <2> SUFFICES ASSUME DecodeTypeOK, BudgetInv PROVE PixelsWithinBudget
      OBVIOUS
    <2>1. MaxPixels \in Nat /\ canvas \in Sizes \cup {NoSize}
      BY DecodeAssumption DEF DecodeAssumption, DecodeTypeOK
    <2>2. format \notin {"gif", "avif"} /\ budgeted /\ headers <= 1 => pixels <= MaxPixels
      BY <2>1 DEF BudgetInv
    <2>3. format = "avif" /\ canvas # NoSize => Taken(canvas, Len(frames)) <= MaxPixels
      BY DEF BudgetInv, DecodeTypeOK
    <2>4. (budgeted => Len(frames) <= FramesLimit) /\ (format = "gif" => rects <= MaxPixels)
      BY DEF BudgetInv
    <2>5. \A k \in DOMAIN frames :
            /\ Pixels(frames[k].size) <= MaxPixels
            /\ format = "mng" => Taken(frames[k].size, k) <= MaxPixels
      BY DEF BudgetInv
    <2> QED
      BY <2>2, <2>3, <2>4, <2>5 DEF PixelsWithinBudget
  <1> QED
    BY <1>1, <1>2, <1>3, PTL DEF Spec

-----------------------------------------------------------------------------
\* How ticks become milliseconds: rounding down keeps their order, and loses less than one.
LEMMA MillisecondsFacts ==
  ASSUME DecodeAssumption, rate \in Nat, NEW s \in Nat, NEW t \in Nat
  PROVE  /\ Milliseconds(s) <= Milliseconds(s + t)
         /\ Milliseconds(s) + Milliseconds(t) <= Milliseconds(s + t)
         /\ Milliseconds(s + t) <= Milliseconds(s) + Milliseconds(t) + 1
  <1> DEFINE r == IF rate > 0 THEN rate ELSE 1
  <1>1. r \in Nat \ {0} /\ s * Second \in Nat /\ t * Second \in Nat
    BY DEF DecodeAssumption
  <1>2. (s + t) * Second = s * Second + t * Second /\ (s + t) * Second \in Nat
    BY DEF DecodeAssumption
  <1> HIDE DEF r
  <1>3. s * Second <= s * Second + t * Second
    BY <1>1
  <1>4. (s * Second) \div r <= (s * Second + t * Second) \div r
    BY <1>1, <1>2, <1>3, RoundingMonotone
  <1>5. /\ (s * Second) \div r + (t * Second) \div r <= (s * Second + t * Second) \div r
        /\ (s * Second + t * Second) \div r <= (s * Second) \div r + (t * Second) \div r + 1
    BY <1>1, RoundingParts
  <1> QED
    BY <1>2, <1>4, <1>5 DEF Milliseconds, r

\* A delay that is not cut is shown in full.
LEMMA EmitUncut ==
  ASSUME DecodeAssumption, DecodeTypeOK, NEW d \in Sizes, NEW ms \in Nat, Emit(d, ms), Uncut'
  PROVE  Uncut /\ shown' = shown + ms
  <1>1. Uncut
    BY EmitTyped DEF Uncut
  <1>2. Delay(ms) < DelayMax
    BY EmitTyped DEF Uncut
  <1>3. Delay(ms) = ms
    BY <1>2 DEF Delay, DelayMax, DecodeAssumption
  <1> QED
    BY <1>1, <1>3, EmitTyped

\* The ticks of one frame more are shown to the millisecond.
LEMMA TicksShown ==
  ASSUME DecodeAssumption, DecodeTypeOK, canvas \in Sizes, NEW t \in Nat, EmitTicks(t), rate' = rate,
         emitted = Milliseconds(ticks), Uncut => shown = emitted
  PROVE  emitted' = Milliseconds(ticks)' /\ (Uncut' => shown' = emitted')
  <1>1. ticks \in Nat /\ rate \in Nat /\ emitted \in Nat /\ shown \in Nat
    BY DEF DecodeTypeOK
  <1>2. ticks' = ticks + t /\ emitted' = Milliseconds(ticks + t) /\ emitted' \in Nat
    BY EmitTicksTyped
  <1>3. emitted <= emitted'
    BY <1>1, <1>2, MillisecondsFacts
  <1>4. emitted' = Milliseconds(ticks)'
    BY <1>2 DEF Milliseconds
  <1>5. PICK ms \in Nat : /\ Emit(canvas, ms)
                          /\ ms = IF emitted' > emitted THEN emitted' - emitted ELSE 0
    BY EmitTicksTyped
  <1>6. emitted + ms = emitted'
    BY <1>1, <1>2, <1>3, <1>5
  <1>7. Uncut' => shown' = emitted'
    BY <1>1, <1>5, <1>6, EmitUncut
  <1> QED
    BY <1>4, <1>7

\* Each step of the decoders keeps what was shown and the ticks together.
LEMMA DriftStep ==
  ASSUME DecodeAssumption, DecodeTypeOK, BudgetInv, DriftInv, [DecodeNext]_decodeVars
  PROVE  DriftInv'
  <1>t. /\ canvas \in Sizes \cup {NoSize} /\ headers \in Nat /\ Len(frames) \in Nat
        /\ (canvas = NoSize <=> headers = 0)
        /\ count \in Nat /\ (count > 0 /\ pc \in {"scan", "decode"} => canvas # NoSize)
        /\ nextDelay \in Nat /\ rate \in Nat /\ ticks \in Nat /\ shown \in Nat
    BY DEF DecodeTypeOK
  <1>0. Milliseconds(0)' = 0 \/ rate' \notin Nat
    <2>1. \A r \in Nat \ {0} : (0 * Second) \div r = 0
      BY DEF DecodeAssumption
    <2>2. rate' \in Nat => (IF rate' > 0 THEN rate' ELSE 1) \in Nat \ {0}
      OBVIOUS
    <2> QED
      BY <2>1, <2>2 DEF Milliseconds
  <1>r. Rates \subseteq Nat /\ Ticks \subseteq Nat /\ NoSize \notin Sizes
    BY DEF DecodeAssumption
  <1>u. UNCHANGED <<format, headers, rate, ticks, emitted, shown, frames>>
          /\ (format # "mng" /\ pc' = "scan" => pc = "scan") => DriftInv'
    BY DEF DriftInv, Uncut, Milliseconds
  <1> USE DEF file, scanned, mng, timing, output, Fail
  <1>1. CASE Mhdr
    <2>1. format = "mng" /\ UNCHANGED <<format, ticks, emitted, shown, frames>>
      BY <1>1 DEF Mhdr, Chunk
    <2>2. CASE UNCHANGED <<headers, rate>>
      BY <1>u, <2>1, <2>2
    <2>3. CASE headers' = headers + 1 /\ rate' \in Nat
      <3>1. headers = 0 => ticks' = 0 /\ emitted' = 0 /\ shown' = 0
        BY <2>1 DEF DriftInv
      <3>2. headers' # 0 /\ (headers' <= 1 => headers = 0)
        BY <1>t, <2>3
      <3>3. ticks' = 0 => Milliseconds(ticks)' = 0
        BY <1>0, <2>3
      <3>4. headers' <= 1 => emitted' = Milliseconds(ticks)' /\ shown' = emitted'
        BY <3>1, <3>2, <3>3
      <3> QED
        BY <2>1, <3>2, <3>4 DEF DriftInv
    <2> QED
      BY <1>1, <1>r, <2>2, <2>3 DEF Mhdr
  <1>2. CASE Term \/ Fram \/ Ihdr \/ Jhdr \/ IendFails \/ MngEnd
    BY <1>u, <1>2 DEF Term, Fram, Ihdr, Jhdr, IendFails, MngEnd, Chunk
  <1>3. CASE Iend
    <2>1. canvas \in Sizes /\ EmitTicks(nextDelay) /\ UNCHANGED <<format, headers, rate>>
          /\ format = "mng" /\ headers # 0
      BY <1>t, <1>3 DEF Iend, WithinBudget, Chunk
    <2>2. headers <= 1 => emitted' = Milliseconds(ticks)' /\ (Uncut' => shown' = emitted')
      BY <1>t, <2>1, TicksShown DEF DriftInv
    <2> QED
      BY <2>1, <2>2 DEF DriftInv
  <1>4. CASE Canvas \/ Screen \/ Actl \/ Unannounced \/ Anmf \/ Descriptor \/ ScanEnd
    BY <1>t, <1>4 DEF Canvas, Screen, Actl, Unannounced, Anmf, Descriptor, ScanEnd, Chunk, DriftInv
  <1>5. CASE Sequence
    <2>1. /\ format \in {"jxl", "avif"} /\ pc = "scan" /\ pc' # "scan"
          /\ UNCHANGED <<format, ticks, emitted, shown, frames>>
      BY <1>5 DEF Sequence, Chunk
    <2>2. ticks = 0 /\ emitted = 0 /\ shown = 0 /\ Len(frames) = 0
      BY <2>1 DEF DriftInv, BudgetInv
    <2>3. UNCHANGED <<headers, rate>> \/ (headers' = 1 /\ rate' \in Rates)
      BY <1>5 DEF Sequence
    <2>4. Milliseconds(ticks)' = 0
      <3>1. rate' \in Nat
        BY <1>r, <1>t, <2>3
      <3>2. ticks' = 0
        BY <2>1, <2>2
      <3> QED
        BY <1>0, <3>1, <3>2
    <2>5. headers' = 0 => headers = 0
      BY <2>3
    <2> QED
      BY <2>1, <2>2, <2>4, <2>5 DEF DriftInv
  <1>6. CASE DecodeFrame
    BY <1>t, <1>6 DEF DecodeFrame, DriftInv
  <1>7. CASE Keyframe
    <2>1. PICK t \in Ticks : EmitTicks(t)
      BY <1>7 DEF Keyframe
    <2>2. canvas \in Sizes /\ t \in Nat /\ UNCHANGED <<format, headers, rate, pc>>
          /\ format = "jxl" /\ headers # 0 /\ pc = "decode"
      BY <1>r, <1>t, <1>7 DEF Keyframe
    <2>3. headers <= 1 => emitted' = Milliseconds(ticks)' /\ (Uncut' => shown' = emitted')
      BY <2>1, <2>2, TicksShown DEF DriftInv
    <2> QED
      BY <2>2, <2>3 DEF DriftInv
  <1>8. CASE Picture
    <2>1. PICK t \in Ticks, d \in Sizes : Emit(d, Milliseconds(t)) /\ ticks' = ticks + t
      BY <1>8 DEF Picture
    <2>2. /\ t \in Nat /\ UNCHANGED <<format, headers, rate, pc>>
          /\ format = "avif" /\ headers # 0 /\ pc = "decode"
      BY <1>r, <1>t, <1>8, <2>1 DEF Picture
    <2>3. /\ Milliseconds(t) \in Nat /\ Milliseconds(ticks) \in Nat
          /\ Milliseconds(ticks + t) \in Nat
      <3>1. t \in Nat /\ ticks \in Nat /\ ticks + t \in Nat /\ rate \in Nat
        BY <1>t, <2>2
      <3> QED
        BY <3>1, MillisecondsNat
    <2>4. Uncut' => Uncut /\ shown' = shown + Milliseconds(t)
      BY <2>1, <2>3, EmitUncut
    <2>5. Len(frames') = Len(frames) + 1
      BY <2>1, <2>3, EmitTyped
    <2>6. /\ Milliseconds(ticks) + Milliseconds(t) <= Milliseconds(ticks + t)
          /\ Milliseconds(ticks + t) <= Milliseconds(ticks) + Milliseconds(t) + 1
      BY <1>t, <2>2, MillisecondsFacts
    <2>7. Milliseconds(ticks)' = Milliseconds(ticks + t)
      BY <2>1, <2>2 DEF Milliseconds
    <2>8. Uncut' => Milliseconds(ticks)' - Len(frames') <= shown' /\ shown' <= Milliseconds(ticks)'
      <3>1. ASSUME Uncut'
            PROVE  /\ shown' = shown + Milliseconds(t)
                   /\ Milliseconds(ticks) - Len(frames) <= shown /\ shown <= Milliseconds(ticks)
        BY <2>2, <2>4, <3>1 DEF DriftInv
      <3>2. Len(frames) \in Nat /\ shown \in Nat
        BY <1>t
      <3> QED
        BY <2>3, <2>5, <2>6, <2>7, <3>1, <3>2
    <2> QED
      BY <2>2, <2>8 DEF DriftInv
  <1>9. CASE DecodeEnd \/ DecodeFails
    BY <1>u, <1>9 DEF DecodeEnd, DecodeFails
  <1>10. CASE UNCHANGED decodeVars
    BY <1>u, <1>10 DEF decodeVars
  <1> QED
    BY <1>1, <1>2, <1>3, <1>4, <1>5, <1>6, <1>7, <1>8, <1>9, <1>10 DEF DecodeNext

\* Fractions of a millisecond never make an animation shorter, whatever its rate and its ticks.
THEOREM DriftCorrect == Spec => []NoDrift
  <1> DEFINE Inv == DecodeTypeOK /\ BudgetInv /\ DriftInv
  <1>1. Init => Inv
    <2> SUFFICES ASSUME Init PROVE Inv
      OBVIOUS
    <2>1. DecodeTypeOK /\ BudgetInv
      BY DecodeAssumption DEF Init, DecodeInit, DecodeTypeOK, BudgetInv, DecodeAssumption
    <2>2. \A r \in Nat \ {0} : (0 * Second) \div r = 0
      BY DecodeAssumption DEF DecodeAssumption
    <2>3. Milliseconds(0) = 0 /\ Len(frames) = 0
      BY <2>2 DEF Milliseconds, Init, DecodeInit
    <2>4. DriftInv
      BY <2>3 DEF Init, DecodeInit, DriftInv
    <2> QED
      BY <2>1, <2>4
  <1>2. Inv /\ [Next]_vars => Inv'
    <2> SUFFICES ASSUME Inv, [Next]_vars PROVE Inv'
      OBVIOUS
    <2>1. DecodeTypeOK'
      BY DecodeAssumption, DecodeOnly, DecodeTypeStep
    <2>2. BudgetInv'
      BY <2>1, DecodeAssumption, DecodeOnly, BudgetStep
    <2>3. DriftInv'
      BY DecodeAssumption, DecodeOnly, DriftStep
    <2> QED
      BY <2>1, <2>2, <2>3
  <1>3. Inv => NoDrift
    BY DEF DriftInv, NoDrift
  <1> QED
    BY <1>1, <1>2, <1>3, PTL DEF Spec

-----------------------------------------------------------------------------
\* The times of the frames

LEMMA Remainder ==
  ASSUME NEW a \in Int, NEW m \in Nat \ {0}
  PROVE  /\ 0 <= a /\ a < m => a % m = a
         /\ m <= a /\ a < m + m => a % m = a - m
         /\ - m <= a /\ a < 0 => a % m = a + m
         /\ a % m \in Nat /\ a % m < m
  <1> DEFINE q == a \div m
             r == a % m
  <1>1. q \in Int /\ r \in Nat /\ r < m /\ a = m * q + r
    OBVIOUS
  <1> HIDE DEF q, r
  <1>2. m * q \in Int /\ m * 0 = 0 /\ m * 1 = m /\ m * (- 1) = - m
    BY <1>1
  <1>3. q >= 2 => m * q >= m + m
    <2> SUFFICES ASSUME q >= 2 PROVE m * q >= m + m
      OBVIOUS
    <2>1. m * 2 <= m * q /\ m * 2 = m + m
      BY <1>1, MoreFrames
    <2> QED
      BY <1>2, <2>1
  <1>4. q <= - 2 => m * q <= - m - m
    <2> SUFFICES ASSUME q <= - 2 PROVE m * q <= - m - m
      OBVIOUS
    <2>1. - q \in Nat /\ 2 <= - q
      BY <1>1
    <2>2. m * 2 <= m * (- q) /\ m * 2 = m + m
      BY <2>1, MoreFrames
    <2>3. m * (- q) = - (m * q)
      BY <1>1
    <2> QED
      BY <1>2, <2>2, <2>3
  <1>5. q <= - 2 \/ q = - 1 \/ q = 0 \/ q = 1 \/ q >= 2
    BY <1>1
  <1>6. /\ 0 <= a /\ a < m => r = a
        /\ m <= a /\ a < m + m => r = a - m
        /\ - m <= a /\ a < 0 => r = a + m
    BY <1>1, <1>2, <1>3, <1>4, <1>5
  <1> QED
    BY <1>1, <1>6 DEF r

\* The numbers of i32, and those that come back on the other side of zero.
LEMMA I32Facts ==
  ASSUME DecodeAssumption, NEW x \in Int
  PROVE  /\ I32(x) \in Int /\ - Half <= I32(x) /\ I32(x) < Half
         /\ - Half <= x /\ x < Half => I32(x) = x
         /\ Half <= x /\ x < Half + Half => I32(x) = x - Half - Half
         /\ - Half - Half <= x /\ x < - Half => I32(x) = x + Half + Half
  <1>1. Half \in Nat \ {0}
    BY DEF DecodeAssumption
  <1> DEFINE m == 2 * Half
             a == x + Half
             r == a % m
  <1>2. m \in Nat \ {0} /\ m = Half + Half /\ a \in Int
    BY <1>1
  <1>3. I32(x) = r - Half
    BY DEF I32
  <1> HIDE DEF m, r
  <1>4. /\ 0 <= a /\ a < m => r = a
        /\ m <= a /\ a < m + m => r = a - m
        /\ - m <= a /\ a < 0 => r = a + m
        /\ r \in Nat /\ r < m
    <2> HIDE DEF a
    <2> QED
      BY <1>2, Remainder DEF r
  <1> QED
    BY <1>1, <1>2, <1>3, <1>4

\* starts[i] is when frame i + 1 starts, by what the decoders say; the last one is the length
\* of the whole.
Timeline(starts) ==
  /\ starts \in [0 .. Len(frames) -> Nat]
  /\ starts[0] = 0 /\ starts[Len(frames)] = shown
  /\ \A i \in 1 .. Len(frames) : starts[i] = starts[i - 1] + frames[i].ms
  /\ \A i \in 0 .. Len(frames) : starts[i] <= shown
  /\ \A i \in 1 .. Len(frames) : frames[i].ms <= DelayMax

\* What a step of the decoders does to the frames: one more, or none.
LEMMA OneFrameMore ==
  ASSUME DecodeAssumption, DecodeTypeOK, BudgetInv, DecodeNext
  PROVE  /\ pc \in {"scan", "decode"}
         /\ UNCHANGED <<frames, shown>> \/ \E d \in Sizes, ms \in Nat : Emit(d, ms)
  <1>t. /\ canvas \in Sizes \cup {NoSize} /\ headers \in Nat /\ count \in Nat
        /\ Len(frames) \in Nat /\ (canvas = NoSize <=> headers = 0)
        /\ (count > 0 /\ pc \in {"scan", "decode"} => canvas # NoSize)
        /\ nextDelay \in Nat /\ rate \in Nat /\ ticks \in Nat
        /\ drawn \in Sizes \cup {NoSize}
        /\ (drawn = NoSize <=> headers = 0 \/ format \in {"mng", "jxl", "avif"})
    BY DEF DecodeTypeOK
  <1>r. Rates \subseteq Nat /\ Ticks \subseteq Nat
    BY DEF DecodeAssumption
  <1> USE DEF file, scanned, mng, timing, output, Fail, Chunk
  <1>1. CASE Mhdr
    BY <1>t, <1>1 DEF Mhdr
  <1>2. CASE Term \/ Fram \/ Ihdr \/ Jhdr \/ IendFails \/ MngEnd \/ ScanEnd \/ DecodeEnd \/ DecodeFails
    BY <1>2 DEF Term, Fram, Ihdr, Jhdr, IendFails, MngEnd, ScanEnd, DecodeEnd, DecodeFails
  <1>3. CASE Iend
    <2>1. canvas \in Sizes /\ EmitTicks(nextDelay)
      BY <1>t, <1>3 DEF Iend, WithinBudget
    <2>2. \E ms \in Nat : Emit(canvas, ms)
      BY <1>t, <2>1, EmitTicksTyped
    <2> QED
      BY <1>3, <2>1, <2>2 DEF Iend
  <1>4. CASE Canvas \/ Screen
    BY <1>4 DEF Canvas, Screen
  <1>5. CASE Anmf \/ Actl \/ Unannounced \/ Descriptor
    BY <1>5 DEF Anmf, Actl, Unannounced, Descriptor
  <1>6. CASE Sequence
    BY <1>6 DEF Sequence
  <1>7. CASE DecodeFrame
    <2>1. drawn \in Sizes
      BY <1>t, <1>7 DEF DecodeFrame
    <2> QED
      BY <1>r, <1>7, <2>1 DEF DecodeFrame
  <1>8. CASE Keyframe
    <2>1. PICK t \in Ticks : EmitTicks(t)
      BY <1>8 DEF Keyframe
    <2>2. canvas \in Sizes /\ t \in Nat
      BY <1>r, <1>t, <1>8 DEF Keyframe
    <2>3. \E ms \in Nat : Emit(canvas, ms)
      BY <2>1, <2>2, EmitTicksTyped
    <2> QED
      BY <1>8, <2>2, <2>3 DEF Keyframe
  <1>9. CASE Picture
    <2>1. PICK t \in Ticks, d \in Sizes : Emit(d, Milliseconds(t))
      BY <1>9 DEF Picture
    <2>2. Milliseconds(t) \in Nat
      BY <1>r, <1>t, <2>1, MillisecondsNat
    <2> QED
      BY <1>9, <2>1, <2>2 DEF Picture
  <1> QED
    BY <1>1, <1>2, <1>3, <1>4, <1>5, <1>6, <1>7, <1>8, <1>9 DEF DecodeNext

\* The timeline grows with the frames.
LEMMA TimelineGrows ==
  ASSUME DecodeAssumption, DecodeTypeOK, BudgetInv, DecodeNext, NEW starts, Timeline(starts)
  PROVE  \E longer : Timeline(longer)'
  <1>t. frames \in Seq(FrameType) /\ Len(frames) \in Nat /\ shown \in Nat /\ headers \in Nat
    BY DEF DecodeTypeOK
  <1>1. CASE UNCHANGED <<frames, shown>>
    <2>1. Timeline(starts)'
      BY <1>1 DEF Timeline
    <2> QED
      BY <2>1
  <1>2. ASSUME NEW d \in Sizes, NEW ms \in Nat, Emit(d, ms)
        PROVE  \E longer : Timeline(longer)'
    <2> DEFINE n == Len(frames)
    <2>1. /\ Len(frames') = n + 1 /\ shown' = shown + Delay(ms) /\ Delay(ms) \in Nat
          /\ \A i \in 1 .. n : frames'[i] = frames[i]
          /\ frames'[n + 1].ms = Delay(ms)
      <3>1. /\ Len(frames') = Len(frames) + 1
            /\ shown' = shown + Delay(ms) /\ Delay(ms) \in Nat
            /\ \A i \in DOMAIN frames : i \in DOMAIN frames' /\ frames'[i] = frames[i]
            /\ frames'[Len(frames')].ms = Delay(ms)
        BY <1>t, <1>2, EmitTyped
      <3>2. DOMAIN frames = 1 .. n
        BY <1>t
      <3> QED
        BY <3>1, <3>2
    <2>21. frames'[n + 1].ms = Delay(ms) /\ Delay(ms) \in Nat
      BY <2>1, Zenon
    <2>22. \A i : i = n + 1 => frames'[i].ms = Delay(ms)
      BY <2>21, Zenon
    <2>3. Delay(ms) <= DelayMax
      BY DEF Delay, DelayMax, DecodeAssumption
    <2>4. \A i \in 1 .. n + 1 : i \in 1 .. n \/ i = n + 1
      BY <1>t
    <2>20. PICK longer : longer = [i \in 0 .. n + 1 |-> IF i = n + 1 THEN shown + Delay(ms) ELSE starts[i]]
      OBVIOUS
    <2>5. longer \in [0 .. n + 1 -> Nat] /\ longer[0] = 0 /\ longer[n + 1] = shown + Delay(ms)
          /\ \A i \in 0 .. n : longer[i] = starts[i]
      BY <1>t, <2>1, <2>20 DEF Timeline
    <2>6. ASSUME NEW i \in 1 .. n + 1
          PROVE  longer[i] = longer[i - 1] + frames'[i].ms
      <3>1. CASE i \in 1 .. n
        <4>1. i \in 0 .. n /\ i - 1 \in 0 .. n
          BY <1>t, <3>1
        <4> QED
          BY <2>1, <2>5, <3>1, <4>1 DEF Timeline
      <3>2. CASE i = n + 1
        <4>1. n \in 0 .. n /\ i - 1 = n
          BY <1>t, <3>2
        <4>2. longer[i - 1] = shown
          BY <2>5, <4>1 DEF Timeline
        <4>3. longer[i] = shown + Delay(ms) /\ frames'[i].ms = Delay(ms)
          BY <2>5, <2>22, <3>2
        <4> QED
          BY <4>2, <4>3
      <3> QED
        BY <2>4, <3>1, <3>2
    <2>7. ASSUME NEW i \in 0 .. n + 1
          PROVE  longer[i] <= shown'
      <3>1. CASE i \in 0 .. n
        <4>1. longer[i] <= shown /\ longer[i] \in Nat
          BY <2>5, <3>1 DEF Timeline
        <4> QED
          BY <1>t, <2>1, <4>1
      <3>2. CASE i = n + 1
        BY <1>t, <2>1, <2>5, <3>2
      <3> QED
        BY <1>t, <3>1, <3>2
    <2>8. ASSUME NEW i \in 1 .. n + 1
          PROVE  frames'[i].ms <= DelayMax
      <3>1. CASE i \in 1 .. n
        BY <2>1, <3>1 DEF Timeline
      <3>2. CASE i = n + 1
        BY <2>3, <2>22, <3>2
      <3> QED
        BY <2>4, <3>1, <3>2
    <2>11. longer[0] = 0 /\ longer[n + 1] = shown' /\ longer \in [0 .. n + 1 -> Nat]
      BY <2>1, <2>5
    <2>13. Len(frames') = n + 1
      BY <2>1
    <2> HIDE DEF n
    <2>10. Timeline(longer)'
      BY <2>6, <2>7, <2>8, <2>11, <2>13, Zenon DEF Timeline
    <2> QED
      BY <2>10
  <1> QED
    BY <1>1, <1>2, OneFrameMore

\* Adding a delay to a time of i32: the difference, as a u32, is the delay, wherever the sum
\* wraps around; it does not where the sum is an i32.
LEMMA Clock ==
  ASSUME DecodeAssumption, NEW t \in Int, - Half <= t, t < Half, NEW ms \in Nat, ms <= DelayMax
  PROVE  /\ I32(t + I32(ms)) \in Int /\ - Half <= I32(t + I32(ms)) /\ I32(t + I32(ms)) < Half
         /\ 0 <= t /\ t + ms < Half => I32(t + I32(ms)) = t + ms
         /\ (I32(t + I32(ms)) - t) % (2 * Half) = ms
  <1>1. Half \in Nat \ {0} /\ ms < Half + Half
    BY DEF DecodeAssumption, DelayMax
  <1> DEFINE i == I32(ms)
             u == I32(t + i)
             m == 2 * Half
  <1>2. i = ms \/ i = ms - Half - Half
    BY <1>1, I32Facts
  <1>3. i \in Int /\ - Half <= i /\ i < Half
    BY <1>1, I32Facts
  <1> HIDE DEF i
  <1>4. t + i \in Int
    BY <1>3
  <1>5. u \in Int /\ - Half <= u /\ u < Half
    BY <1>4, I32Facts
  <1>6. u = t + i \/ u = t + i - Half - Half \/ u = t + i + Half + Half
    <2>1. - Half - Half <= t + i /\ t + i < Half + Half
      BY <1>1, <1>3
    <2>2. ASSUME NEW x \in Int, - Half - Half <= x, x < Half + Half
          PROVE  I32(x) = x \/ I32(x) = x - Half - Half \/ I32(x) = x + Half + Half
      BY <1>1, <2>2, I32Facts
    <2> QED
      BY <1>1, <1>3, <1>4, <2>1, <2>2
  <1> HIDE DEF u
  <1>7. u - t = ms \/ u - t = ms - Half - Half
    BY <1>1, <1>2, <1>3, <1>5, <1>6
  <1>8. 0 <= t /\ t + ms < Half => u = t + ms
    BY <1>1, <1>5, <1>7
  <1>9. (u - t) % m = ms
    <2> DEFINE d == u - t
    <2>1. m \in Nat \ {0} /\ m = Half + Half /\ d \in Int
      BY <1>1, <1>5
    <2>2. d = ms \/ d = ms - m
      BY <1>7, <2>1
    <2>3. ms < m /\ (d = ms => 0 <= d /\ d < m) /\ (d = ms - m => - m <= d /\ d < 0 /\ d + m = ms)
      BY <1>1, <2>1
    <2> HIDE DEF d, m
    <2>4. d % m = ms
      BY <2>1, <2>2, <2>3, Remainder
    <2> QED
      BY <2>4 DEF d
  <1> QED
    BY <1>5, <1>8, <1>9 DEF i, u

\* Where the encoder stands on the timeline.  Where the whole fits into an i32 the clock is right
\* whatever frames were left out, and the lengths add up to the start of the last frame taken;
\* where none can be left out, and none was refused, they add up to the timeline though the clock
\* may wrap around.
EncodeInv(starts) ==
  /\ index \in 0 .. Len(frames)
  /\ available \in Nat /\ played \in Nat
  /\ lastStart \in Int /\ - Half <= lastStart /\ lastStart < Half
  /\ timestamp \in Int /\ - Half <= timestamp /\ timestamp < Half
  /\ epc \in {"wait", "frames", "done"}
  /\ epc = "wait" => index = 0 /\ available = 0
  /\ epc # "wait" => pc \notin {"scan", "decode"}
  /\ index = 0 => timestamp = 0 /\ size = NoSize /\ available = 0
  /\ available = 0 => played = 0
  /\ ~ refused /\ index > 0 => available > 0
  /\ shown < Half => timestamp = starts[index]
  /\ shown < Half /\ ~ refused /\ available > 0 => played = lastStart /\ lastStart <= timestamp
  /\ OneSize => size = NoSize \/ \A i \in 1 .. Len(frames) : frames[i].size = size
  /\ OneSize /\ ~ refused /\ index > 0 =>
       /\ available = index /\ played = starts[index - 1]
       /\ timestamp = I32(lastStart + I32(frames[index].ms))
  /\ epc = "done" /\ answer.immutable =>
       \/ available = 0 /\ Len(frames) = 1
       \/ /\ ~ refused /\ index = Len(frames)
          /\ answer.cycle = played + LastDuration(IF timestamp > 0 THEN timestamp ELSE 0)

\* The next frame on the timeline, by its own start and delay.
LEMMA NextStart ==
  ASSUME DecodeAssumption, DecodeTypeOK, NEW starts, Timeline(starts), NEW i \in 1 .. Len(frames)
  PROVE  /\ starts[i - 1] \in Nat /\ starts[i] \in Nat /\ frames[i].ms \in Nat
         /\ starts[i] = starts[i - 1] + frames[i].ms /\ frames[i].ms <= DelayMax
         /\ starts[i - 1] <= shown /\ starts[i] <= shown /\ shown \in Nat
         /\ frames[i].size \in Sizes
         /\ OneSize => \A j \in 1 .. Len(frames) : frames[j].size = frames[i].size
  <1>1. frames \in Seq(FrameType) /\ Len(frames) \in Nat /\ shown \in Nat
    BY DEF DecodeTypeOK
  <1>2. i - 1 \in 0 .. Len(frames) /\ i \in 0 .. Len(frames)
    BY <1>1
  <1>3. frames[i] \in FrameType
    BY <1>1
  <1>4. frames[i].ms \in Nat /\ frames[i].size \in Sizes
    BY <1>3 DEF FrameType
  <1>5. starts[i - 1] \in Nat /\ starts[i] \in Nat
    BY <1>2 DEF Timeline
  <1>6. OneSize => \A j \in 1 .. Len(frames) : frames[j].size = frames[i].size
    <2>1. DOMAIN frames = 1 .. Len(frames)
      BY <1>1
    <2> QED
      BY <2>1 DEF OneSize
  <1> QED
    BY <1>1, <1>2, <1>4, <1>5, <1>6 DEF Timeline

\* The clock goes on by the delay of the next frame, whether the frame is taken or not.
LEMMA ClockAdvances ==
  ASSUME DecodeAssumption, DecodeTypeOK, NEW starts, Timeline(starts), EncodeInv(starts),
         index < Len(frames), timestamp' = I32(timestamp + I32(Frame.ms)), shown < Half
  PROVE  timestamp' = starts[index + 1] /\ timestamp <= timestamp'
  <1>1. index + 1 \in 1 .. Len(frames) /\ (index + 1) - 1 = index
    BY DEF EncodeInv, DecodeTypeOK
  <1>2. /\ starts[index] \in Nat /\ starts[index + 1] \in Nat /\ frames[index + 1].ms \in Nat
        /\ starts[index + 1] = starts[index] + frames[index + 1].ms
        /\ frames[index + 1].ms <= DelayMax
        /\ starts[index] <= shown /\ starts[index + 1] <= shown /\ shown \in Nat
    <2> DEFINE i == index + 1
    <2>1. i \in 1 .. Len(frames) /\ i - 1 = index
      BY <1>1
    <2> HIDE DEF i
    <2>2. /\ starts[i - 1] \in Nat /\ starts[i] \in Nat /\ frames[i].ms \in Nat
          /\ starts[i] = starts[i - 1] + frames[i].ms /\ frames[i].ms <= DelayMax
          /\ starts[i - 1] <= shown /\ starts[i] <= shown /\ shown \in Nat
      BY <2>1, NextStart
    <2> QED
      BY <2>1, <2>2, Zenon DEF i
  <1>3. timestamp = starts[index]
    BY DEF EncodeInv
  <1>4. Half \in Nat
    BY DEF DecodeAssumption
  <1>5. /\ starts[index] \in Int /\ - Half <= starts[index] /\ 0 <= starts[index]
        /\ starts[index] < Half /\ starts[index] + frames[index + 1].ms < Half
    BY <1>2, <1>4
  <1>6. I32(starts[index] + I32(frames[index + 1].ms)) = starts[index] + frames[index + 1].ms
    BY <1>2, <1>5, Clock
  <1>7. timestamp' = starts[index + 1]
    BY <1>2, <1>3, <1>6 DEF Frame
  <1> QED
    BY <1>2, <1>3, <1>7

\* The time since the last start is no less than zero, whatever happened.
LEMMA SinceNat ==
  ASSUME DecodeAssumption, timestamp \in Int, lastStart \in Int
  PROVE  Since(timestamp) \in Nat
  <1> DEFINE m == 2 * Half
             d == timestamp - lastStart
  <1>1. m \in Nat \ {0} /\ d \in Int
    BY DEF DecodeAssumption
  <1>2. Since(timestamp) = 0 \/ Since(timestamp) = d % m
    BY DEF Since
  <1> HIDE DEF d, m
  <1> QED
    BY <1>1, <1>2, Remainder

\* What libwebp counts when it takes a frame, after no refusal: where the whole fits into an i32
\* the time since the last start, and where all frames have one size, that of the frame before.
LEMMA FrameCounted ==
  ASSUME DecodeAssumption, DecodeTypeOK, NEW starts, Timeline(starts), EncodeInv(starts),
         index < Len(frames), ~ refused
  PROVE  /\ shown < Half => played + Since(timestamp) = timestamp
         /\ OneSize => available = index /\ played + Since(timestamp) = starts[index]
  <1>0. /\ Half \in Nat \ {0} /\ index \in Nat /\ Len(frames) \in Nat
        /\ available \in Nat /\ played \in Nat
        /\ lastStart \in Int /\ - Half <= lastStart /\ lastStart < Half
        /\ timestamp \in Int /\ - Half <= timestamp /\ timestamp < Half
    BY DEF DecodeAssumption, EncodeInv, DecodeTypeOK
  <1>1. CASE available = 0
    <2>1. index = 0
      BY <1>0, <1>1 DEF EncodeInv
    <2>2. played = 0 /\ timestamp = 0 /\ Since(timestamp) = 0 /\ starts[0] = 0
      BY <1>1, <2>1 DEF EncodeInv, Since, Timeline
    <2> QED
      BY <1>1, <2>1, <2>2
  <1>2. CASE available > 0
    <2> DEFINE m == 2 * Half
               d == timestamp - lastStart
    <2>1. m \in Nat \ {0} /\ m = Half + Half /\ d \in Int
      BY <1>0
    <2>2. Since(timestamp) = d % m
      BY <1>0, <1>2 DEF Since
    <2>3. d % m \in Nat /\ (0 <= d /\ d < m => d % m = d)
      <3> HIDE DEF d, m
      <3> QED
        BY <2>1, Remainder
    <2>4. shown < Half => played + Since(timestamp) = timestamp
      <3> SUFFICES ASSUME shown < Half PROVE played + Since(timestamp) = timestamp
        OBVIOUS
      <3>1. played = lastStart /\ lastStart <= timestamp
        BY <1>2 DEF EncodeInv
      <3>2. 0 <= d /\ d < m
        BY <1>0, <2>1, <3>1
      <3>3. Since(timestamp) = timestamp - lastStart
        BY <2>2, <2>3, <3>2
      <3> QED
        BY <1>0, <3>1, <3>3
    <2>5. ASSUME OneSize
          PROVE  available = index /\ played + Since(timestamp) = starts[index]
      <3>1. index > 0
        BY <1>0, <1>2 DEF EncodeInv
      <3>2. index \in 1 .. Len(frames)
        BY <1>0, <3>1
      <3>3. /\ available = index /\ played = starts[index - 1]
            /\ timestamp = I32(lastStart + I32(frames[index].ms))
        BY <2>5, <3>1 DEF EncodeInv
      <3>4. /\ frames[index].ms \in Nat /\ frames[index].ms <= DelayMax
            /\ starts[index] = starts[index - 1] + frames[index].ms
        BY <3>2, NextStart
      <3>5. d % m = frames[index].ms
        BY <1>0, <3>3, <3>4, Clock
      <3> QED
        BY <2>2, <3>3, <3>4, <3>5
    <2> QED
      BY <2>4, <2>5
  <1> QED
    BY <1>0, <1>1, <1>2

\* A frame encoded or left out.
LEMMA EncodeFrameStep ==
  ASSUME DecodeAssumption, DecodeTypeOK, NEW starts, Timeline(starts), EncodeInv(starts),
         UNCHANGED decodeVars,
         EncodeFrame \/ LeaveOut
  PROVE  EncodeInv(starts)'
  <1>0. /\ index \in 0 .. Len(frames) /\ Len(frames) \in Nat /\ index < Len(frames) /\ index \in Nat
        /\ available \in Nat /\ played \in Nat
        /\ lastStart \in Int /\ - Half <= lastStart /\ lastStart < Half
        /\ timestamp \in Int /\ - Half <= timestamp /\ timestamp < Half
    <2>1. Len(frames) \in Nat
      BY DEF DecodeTypeOK
    <2>2. /\ index \in 0 .. Len(frames) /\ index < Len(frames)
          /\ available \in Nat /\ played \in Nat
          /\ lastStart \in Int /\ - Half <= lastStart /\ lastStart < Half
          /\ timestamp \in Int /\ - Half <= timestamp /\ timestamp < Half
      BY Zenon DEF EncodeInv, EncodeFrame, LeaveOut
    <2> QED
      BY <2>1, <2>2
  <1>1. /\ frames' = frames /\ shown' = shown /\ pc' = pc /\ (OneSize' <=> OneSize)
    BY DEF decodeVars, OneSize
  <1>2. /\ index' = index + 1 /\ epc = "frames" /\ epc' = "frames" /\ answer' = answer
        /\ timestamp' = I32(timestamp + I32(Frame.ms))
    BY DEF EncodeFrame, LeaveOut, Advance
  <1>3. /\ index' \in 0 .. Len(frames) /\ index' \in 1 .. Len(frames) /\ index' # 0
        /\ index' - 1 = index
    BY <1>0, <1>2
  <1>4. /\ Frame.size \in Sizes /\ NoSize \notin Sizes
        /\ (OneSize => \A j \in 1 .. Len(frames) : frames[j].size = Frame.size)
        /\ Frame.ms \in Nat /\ Frame.ms <= DelayMax /\ Frame = frames[index']
    BY <1>2, <1>3, NextStart DEF Frame, DecodeAssumption
  <1>5. shown < Half => timestamp' = starts[index'] /\ timestamp <= timestamp'
    BY <1>0, <1>2, ClockAdvances
  <1>6. pc \notin {"scan", "decode"}
    BY <1>2 DEF EncodeInv
  <1>7. timestamp' \in Int /\ - Half <= timestamp' /\ timestamp' < Half
    BY <1>0, <1>2, <1>4, Clock
  <1>8. CASE LeaveOut
    <2>1. UNCHANGED <<size, available, lastStart, played, refused>> /\ size # NoSize /\ Frame.size # size
      BY <1>8 DEF LeaveOut
    <2>2. ~ OneSize
      BY <1>2, <1>3, <2>1 DEF EncodeInv, Frame
    <2>3. ~ refused => available > 0
      BY <1>0, <2>1 DEF EncodeInv
    <2>4. available = 0 => played = 0
      BY DEF EncodeInv
    <2>5. shown < Half /\ ~ refused /\ available > 0 => played = lastStart /\ lastStart <= timestamp'
      BY <1>0, <1>5, <1>7 DEF EncodeInv
    <2> QED
      BY <1>0, <1>1, <1>2, <1>3, <1>5, <1>6, <1>7, <2>1, <2>2, <2>3, <2>4, <2>5 DEF EncodeInv
  <1>9. CASE EncodeFrame
    <2>1. size' = IF size = NoSize THEN Frame.size ELSE size
      BY <1>9 DEF EncodeFrame
    <2>2. OneSize => \A j \in 1 .. Len(frames) : frames[j].size = size'
      BY <1>4, <2>1 DEF EncodeInv
    <2>3. CASE refused' = TRUE /\ UNCHANGED <<available, lastStart, played>>
      <3>1. available = 0 => played = 0
        BY DEF EncodeInv
      <3> QED
        BY <1>0, <1>1, <1>2, <1>3, <1>5, <1>6, <1>7, <2>2, <2>3, <3>1 DEF EncodeInv
    <2>4. CASE /\ available' = available + 1 /\ lastStart' = timestamp
               /\ played' = played + Since(timestamp) /\ refused' = refused
      <3>1. available' \in Nat /\ available' > 0 /\ available' # 0
        BY <1>0, <2>4
      <3>2. played' \in Nat
        BY <1>0, <2>4, SinceNat
      <3>3. shown < Half /\ ~ refused => played' = lastStart' /\ lastStart' <= timestamp'
        BY <1>0, <1>5, <2>4, FrameCounted
      <3>4. ASSUME OneSize, ~ refused
            PROVE  /\ available' = index' /\ played' = starts[index' - 1]
                   /\ timestamp' = I32(lastStart' + I32(frames'[index'].ms))
        <4>1. available = index /\ played + Since(timestamp) = starts[index]
          BY <1>0, <3>4, FrameCounted
        <4> QED
          BY <1>1, <1>2, <1>3, <1>4, <2>4, <4>1
      <3> QED
        BY <1>0, <1>1, <1>2, <1>3, <1>5, <1>6, <1>7, <2>2, <2>4, <3>1, <3>2, <3>3, <3>4 DEF EncodeInv
    <2> QED
      BY <1>9, <2>3, <2>4 DEF EncodeFrame, AddFrame
  <1> QED
    BY <1>8, <1>9

\* All that the theorems about the encoder need, at some timeline.
AnimationInv ==
  /\ DecodeTypeOK /\ BudgetInv
  /\ \E starts : Timeline(starts) /\ EncodeInv(starts)

LEMMA AnimationInvInit == Init => AnimationInv
  <1> SUFFICES ASSUME Init PROVE AnimationInv
    OBVIOUS
  <1>1. DecodeTypeOK /\ BudgetInv
    BY DecodeAssumption DEF Init, DecodeInit, DecodeTypeOK, BudgetInv, DecodeAssumption
  <1>2. PICK starts : starts = [i \in 0 .. 0 |-> 0]
    OBVIOUS
  <1>3. frames = <<>> /\ Len(frames) = 0 /\ shown = 0
    BY DEF Init, DecodeInit
  <1>4. Timeline(starts)
    BY <1>2, <1>3 DEF Timeline
  <1>0. Half \in Nat \ {0} /\ - Half <= 0 /\ 0 < Half
    BY DecodeAssumption DEF DecodeAssumption
  <1>5. EncodeInv(starts)
    BY <1>0, <1>2, <1>3 DEF Init, DecodeInit, EncodeInv, NoAnswer
  <1> QED
    BY <1>1, <1>4, <1>5 DEF AnimationInv

LEMMA AnimationInvStep == AnimationInv /\ [Next]_vars => AnimationInv'
  <1> SUFFICES ASSUME AnimationInv, [Next]_vars PROVE AnimationInv'
    OBVIOUS
  <1> USE DecodeAssumption
  <1>1. DecodeTypeOK /\ BudgetInv
    BY DEF AnimationInv
  <1>2. DecodeTypeOK' /\ BudgetInv'
    BY <1>1, DecodeOnly, DecodeTypeStep, BudgetStep
  <1>3. PICK starts : Timeline(starts) /\ EncodeInv(starts)
    BY DEF AnimationInv
  <1>4. SUFFICES \E later : Timeline(later)' /\ EncodeInv(later)'
    BY <1>2 DEF AnimationInv
  <1>t. frames \in Seq(FrameType) /\ Len(frames) \in Nat
    BY <1>1 DEF DecodeTypeOK
  <1>5. CASE Decode
    <2>1. DecodeNext /\ UNCHANGED encodeVars
      BY <1>5 DEF Decode
    <2>2. epc = "wait"
      BY <1>1, <1>3, <2>1, OneFrameMore DEF EncodeInv
    <2>3. PICK later : Timeline(later)'
      BY <1>1, <1>3, <2>1, TimelineGrows
    <2>4. Len(frames') \in Nat
      BY <1>2 DEF DecodeTypeOK
    <2>5. later[0] = 0
      BY <2>3 DEF Timeline
    <2>6. /\ index' = 0 /\ available' = 0 /\ timestamp' = 0 /\ size' = NoSize /\ epc' = "wait"
          /\ played' = 0
          /\ lastStart' \in Int /\ - Half <= lastStart' /\ lastStart' < Half
          /\ timestamp' \in Int /\ - Half <= timestamp' /\ timestamp' < Half
      BY <1>3, <2>1, <2>2 DEF EncodeInv, encodeVars
    <2>7. EncodeInv(later)'
      BY <2>4, <2>5, <2>6 DEF EncodeInv
    <2> QED
      BY <2>3, <2>7
  <1>6. ASSUME UNCHANGED decodeVars
        PROVE  Timeline(starts)' /\ (OneSize' <=> OneSize) /\ Len(frames') = Len(frames)
    BY <1>3, <1>6 DEF decodeVars, Timeline, OneSize
  <1>7. CASE EncodeFrame \/ LeaveOut
    <2>1. UNCHANGED decodeVars
      BY <1>7 DEF EncodeFrame, LeaveOut
    <2> QED
      BY <1>1, <1>3, <1>6, <1>7, <2>1, EncodeFrameStep
  <1>8. CASE UNCHANGED <<index, size, timestamp, available, lastStart, played, refused>>
             /\ UNCHANGED decodeVars
             /\ epc' \in {"wait", "frames", "done"}
             /\ (epc' = "wait" => epc = "wait")
             /\ (epc' # "wait" => pc \notin {"scan", "decode"})
             /\ (epc' = "done" /\ answer'.immutable =>
                  \/ available = 0 /\ Len(frames) = 1
                  \/ /\ ~ refused /\ index = Len(frames)
                     /\ answer'.cycle = played + LastDuration(IF timestamp > 0 THEN timestamp ELSE 0))
    <2>1. Timeline(starts)' /\ (OneSize' <=> OneSize)
      BY <1>6, <1>8
    <2>2. SumBeforeLast' = SumBeforeLast /\ Average' = Average
      BY <1>8 DEF SumBeforeLast, Average, Delay
    <2>3. \A n : LastDuration(n)' = LastDuration(n)
      BY <1>8, <2>2 DEF LastDuration
    <2>4. EncodeInv(starts)'
      BY <1>3, <1>8, <2>1, <2>2, <2>3 DEF EncodeInv, decodeVars
    <2> QED
      BY <2>1, <2>4
  <1>9. CASE NoAnimation
    BY <1>3, <1>8, <1>9 DEF NoAnimation, EncodeInv, Done, Refusal, NoAnswer
  <1>10. CASE Begin
    BY <1>3, <1>8, <1>10 DEF Begin, EncodeInv
  <1>11. CASE GiveUp
    BY <1>3, <1>8, <1>11 DEF GiveUp, EncodeInv, Done, Refusal, NoAnswer
  <1>12. CASE Finish
    <2> DEFINE cycle == played + LastDuration(IF timestamp > 0 THEN timestamp ELSE 0)
    <2>1. /\ epc = "frames" /\ epc' = "done" /\ index = Len(frames)
          /\ UNCHANGED <<index, size, timestamp, available, lastStart, played, refused>>
          /\ UNCHANGED decodeVars
          /\ answer' = [status |-> 200, immutable |-> ~ refused, cached |-> TRUE, cycle |-> cycle]
      BY <1>12 DEF Finish, Done
    <2> HIDE DEF cycle
    <2>2. answer'.cycle = cycle /\ (answer'.immutable <=> ~ refused)
      BY <2>1
    <2>3. pc \notin {"scan", "decode"}
      BY <1>3, <2>1 DEF EncodeInv
    <2> QED
      BY <1>8, <2>1, <2>2, <2>3 DEF cycle
  <1>14. CASE FinishEmpty
    BY <1>3, <1>8, <1>14 DEF FinishEmpty, EncodeInv, Done, Refusal, NoAnswer
  <1>13. CASE UNCHANGED vars
    BY <1>3, <1>8, <1>13 DEF vars, decodeVars, EncodeInv
  <1> QED
    BY <1>5, <1>7, <1>9, <1>10, <1>11, <1>12, <1>13, <1>14 DEF Next

LEMMA AnimationInvAlways == Spec => []AnimationInv
  BY AnimationInvInit, AnimationInvStep, PTL DEF Spec

\* However many frames of other sizes are left out, an animation that clients may keep for
\* ever lasts as long as its source, where the whole fits into an i32 and the last frame into
\* an ANMF chunk.
THEOREM CycleCorrect == Spec => []CycleKept
  <1>1. AnimationInv => CycleKept
    <2> SUFFICES ASSUME AnimationInv, epc = "done", available > 1, answer.immutable, shown < Half,
                        shown - lastStart \in 1 .. MaxDuration
                 PROVE  answer.cycle = shown
      BY DEF CycleKept
    <2>1. PICK starts : Timeline(starts) /\ EncodeInv(starts)
      BY DEF AnimationInv
    <2>2. /\ index = Len(frames) /\ played = lastStart /\ lastStart \in Nat
          /\ timestamp = starts[index]
          /\ answer.cycle = played + LastDuration(IF timestamp > 0 THEN timestamp ELSE 0)
      BY <2>1 DEF EncodeInv
    <2>3. timestamp = shown
      BY <2>1, <2>2 DEF Timeline
    <2>4. shown \in Nat /\ MaxDuration \in Nat /\ Half \in Nat \ {0}
      BY AnimationAssumption, DecodeAssumption
         DEF AnimationInv, DecodeTypeOK, AnimationAssumption, DecodeAssumption
    <2>5. shown > lastStart /\ shown > 0 /\ shown - lastStart <= MaxDuration
      BY <2>2, <2>4
    <2>6. SumBeforeLast = lastStart
      BY <2>2, <2>4, <2>5 DEF SumBeforeLast, Delay, DelayMax
    <2>7. LastDuration(shown) = shown - lastStart
      BY <2>2, <2>4, <2>5, <2>6 DEF LastDuration
    <2> QED
      BY <2>2, <2>3, <2>4, <2>5, <2>7
  <1> QED
    BY <1>1, AnimationInvAlways, PTL

\* Start times that wrap around in an i32 do no harm to the frames before the last, whatever
\* the delays: where no frame can be left out, an animation marked immutable has all of them,
\* and each lasts as long as in its source.
THEOREM FramesCorrect == Spec => []FramesKept
  <1>1. AnimationInv => FramesKept
    <2> SUFFICES ASSUME AnimationInv, epc = "done", answer.immutable, Len(frames) > 1, OneSize
                 PROVE  available = Len(frames) /\ played = shown - frames[Len(frames)].ms
      BY DEF FramesKept
    <2>1. PICK starts : Timeline(starts) /\ EncodeInv(starts)
      BY DEF AnimationInv
    <2>2. Len(frames) \in Nat /\ DecodeTypeOK
      BY DEF AnimationInv, DecodeTypeOK
    <2>3. Len(frames) = 1 \/ (~ refused /\ index = Len(frames))
      BY <2>1, Zenon DEF EncodeInv
    <2>8. Len(frames) # 1
      <3>1. \A n \in Nat : n > 1 => n # 1
        OBVIOUS
      <3> QED
        BY <2>2, <3>1, Zenon
    <2>4. ~ refused /\ index = Len(frames)
      BY <2>3, <2>8, Zenon
    <2>5. available = index /\ played = starts[index - 1]
      BY <2>1, <2>2, <2>4 DEF EncodeInv
    <2>6. index \in 1 .. Len(frames)
      BY <2>2, <2>4
    <2>7. /\ starts[index] = starts[index - 1] + frames[index].ms /\ starts[index] = shown
          /\ starts[index - 1] \in Nat /\ frames[index].ms \in Nat
      <3>1. starts[Len(frames)] = shown
        BY <2>1 DEF Timeline
      <3> QED
        BY <2>1, <2>2, <2>4, <2>6, <3>1, NextStart, DecodeAssumption
    <2> QED
      BY <2>4, <2>5, <2>7
  <1> QED
    BY <1>1, AnimationInvAlways, PTL
=============================================================================
