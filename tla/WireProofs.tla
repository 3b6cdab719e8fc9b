----------------------------- MODULE WireProofs -----------------------------
(***************************************************************************)
(* Proofs about Wire for every set of message sizes, every batch and cap:  *)
(* the reader stays in step, an end is exact, and the framing implements   *)
(* ByteStream.                                                             *)
(*                                                                         *)
(* Layout says how frames lie on the wire; Position where the reader is;   *)
(* Ends what is settled once a side has stopped.                           *)
(***************************************************************************)
EXTENDS Wire, TLAPS

\* The overhead of framing m, and the bytes frame f takes with it.
Over(m, n) ==
    CASE m = "binary" -> HEADER_SIZE
      [] m = "base94" -> HEADER_SIMPLE + HEADER_SIZE
      [] m = "prefix" -> IF n <= ShortMax THEN 1 ELSE 2

Bytes(m, f) == Over(m, f.size) + f.size

\* Frames lie end to end, on the wire and in the plaintext.
Layout ==
    /\ \A i \in 1..Len(frames) : frames[i].at + Bytes(mode, frames[i]) <= enc
    /\ \A i, j \in 1..Len(frames) : i < j => frames[i].at + Bytes(mode, frames[i]) <= frames[j].at
    /\ \A i \in 1..(Len(frames) - 1) :
        /\ frames[i + 1].at = frames[i].at + Bytes(mode, frames[i])
        /\ frames[i + 1].text = frames[i].text + frames[i].size
    /\ Len(frames) > 0 =>
        /\ frames[1].at = 0 /\ frames[1].text = 0
        /\ enc = frames[Len(frames)].at + Bytes(mode, frames[Len(frames)])
    /\ Len(frames) = 0 => enc = 0

\* The reader is at the next frame, or behind the header of it.
Position ==
    /\ Len(got) <= Len(frames)
    /\ pending # 0 => /\ mode = "binary" /\ Len(got) < Len(frames)
                      /\ pending = frames[Len(got) + 1].size
    /\ b = NextAt + (IF pending = 0 THEN 0 ELSE HEADER_SIZE)
    /\ mode # "prefix" => /\ heads = Len(got) + (IF pending = 0 THEN 0 ELSE 1)
                          /\ body = NextText
    /\ \A k \in 1..Len(got) : got[k] = k

\* Nothing moves behind a closed carrier, and an end of stream is final.
Ends ==
    /\ fin = "shut" => w = enc
    /\ end = "eof" => fin # "open"
    /\ EndIsExact

WireInv == TypeOK /\ Layout /\ Position /\ Ends

----------------------------------------------------------------------------
\* What the assumption says of sizes and framings.
LEMMA SizeFacts ==
    /\ \A n \in Sizes : n \in Nat /\ n > 0
    /\ \A m, u : <<m, u>> \in Modes => m \in {"binary", "base94", "prefix"}
  <1>1. Sizes \subseteq Nat \ {0}
    BY Zenon, WireAssumption
  <1>2. Modes \subseteq {"binary", "base94", "prefix"} \X {"tunnel", "link"}
    BY Zenon, WireAssumption
  <1>3. \A n \in Sizes : n \in Nat /\ n > 0
    BY <1>1
  <1> QED BY <1>2, <1>3

\* Every framing adds at least one byte to a message.
LEMMA FrameBytes ==
    ASSUME NEW m \in {"binary", "base94", "prefix"}, NEW f, f.size \in Sizes
    PROVE  /\ Over(m, f.size) \in 1..7 /\ f.size \in Nat /\ f.size > 0
           /\ Bytes(m, f) \in Nat /\ Bytes(m, f) > f.size
  <1>1. f.size \in Nat /\ f.size > 0
    BY SizeFacts
  <1>2. Over(m, f.size) \in 1..7
    BY DEF Over, HEADER_SIZE, HEADER_SIMPLE
  <1> QED BY <1>1, <1>2 DEF Bytes

\* A frame's fields and the bytes it takes.
LEMMA FrameType ==
    ASSUME TypeOK, NEW k \in 1..Len(frames)
    PROVE  /\ frames[k].at \in Nat /\ frames[k].text \in Nat
           /\ frames[k].size \in Nat /\ frames[k].size > 0
           /\ Overhead(frames[k].size) = Over(mode, frames[k].size)
           /\ Over(mode, frames[k].size) \in 1..7
           /\ Used(k) = Bytes(mode, frames[k])
           /\ Bytes(mode, frames[k]) = Over(mode, frames[k].size) + frames[k].size
           /\ Bytes(mode, frames[k]) \in Nat /\ Bytes(mode, frames[k]) > 0
  <1>1. frames[k] \in Frame
    BY DEF TypeOK
  <1>2. frames[k].at \in Nat /\ frames[k].text \in Nat /\ frames[k].size \in Sizes
    BY <1>1 DEF Frame
  <1>3. mode \in {"binary", "base94", "prefix"}
    BY WireAssumption DEF TypeOK
  <1>4. Overhead(frames[k].size) = Over(mode, frames[k].size)
    BY DEF Overhead, Over
  <1>5. Used(k) = Bytes(mode, frames[k])
    BY <1>4 DEF Used, Bytes
  <1>6. /\ Over(mode, frames[k].size) \in 1..7 /\ frames[k].size \in Nat /\ frames[k].size > 0
        /\ Bytes(mode, frames[k]) \in Nat /\ Bytes(mode, frames[k]) > frames[k].size
    BY <1>2, <1>3, FrameBytes
  <1> QED BY <1>2, <1>4, <1>5, <1>6 DEF Bytes

\* No two frames start at one place, and none starts at the end.
LEMMA OneStart ==
    ASSUME TypeOK, Layout, Position, NEW k \in 1..Len(frames), frames[k].at = NextAt
    PROVE  k = Len(got) + 1
  <1>0. Len(got) \in Nat /\ Len(frames) \in Nat
    BY DEF TypeOK
  <1>1. CASE Len(got) < Len(frames)
    <2> DEFINE n == Len(got) + 1
    <2>1. n \in 1..Len(frames) /\ frames[k].at = frames[n].at
      BY <1>0, <1>1 DEF NextAt
    <2> HIDE DEF n
    <2>2. Bytes(mode, frames[k]) > 0 /\ Bytes(mode, frames[n]) > 0 /\ Bytes(mode, frames[k]) \in Nat /\ Bytes(mode, frames[n]) \in Nat /\ frames[k].at \in Nat
      BY <2>1, FrameType
    <2>3. k < n => frames[k].at + Bytes(mode, frames[k]) <= frames[n].at
      BY <2>1 DEF Layout
    <2>4. n < k => frames[n].at + Bytes(mode, frames[n]) <= frames[k].at
      BY <2>1 DEF Layout
    <2>5. k = n
      BY <2>1, <2>2, <2>3, <2>4, <1>0
    <2> QED BY <2>5 DEF n
  <1>2. CASE ~(Len(got) < Len(frames))
    <2>1. frames[k].at = enc /\ frames[k].at + Bytes(mode, frames[k]) <= enc
      BY <1>2 DEF NextAt, Layout
    <2>2. Bytes(mode, frames[k]) \in Nat /\ Bytes(mode, frames[k]) > 0 /\ frames[k].at \in Nat
      BY FrameType
    <2> QED BY <2>1, <2>2
  <1> QED BY <1>1, <1>2

\* The next position is a number.
LEMMA NextType == ASSUME TypeOK PROVE NextAt \in Nat
  <1>1. CASE Len(got) < Len(frames)
    <2>1. Len(got) + 1 \in 1..Len(frames)
      BY <1>1 DEF TypeOK
    <2>2. frames[Len(got) + 1].at \in Nat
      BY <2>1, FrameType
    <2> QED BY <1>1, <2>2 DEF NextAt
  <1>2. CASE ~(Len(got) < Len(frames))
    BY <1>2 DEF NextAt, TypeOK
  <1> QED BY <1>1, <1>2

\* Where the reader is once it has taken the next frame.
LEMMA NextFrame ==
    ASSUME TypeOK, Layout, NEW k \in 1..Len(frames)
    PROVE  /\ (IF k < Len(frames) THEN frames[k + 1].at ELSE enc) = frames[k].at + Bytes(mode, frames[k])
           /\ (IF k < Len(frames) THEN frames[k + 1].text ELSE Text) = frames[k].text + frames[k].size
  <1>1. CASE k < Len(frames)
    <2>1. k \in 1..(Len(frames) - 1)
      BY <1>1 DEF TypeOK
    <2> QED BY <1>1, <2>1 DEF Layout
  <1>2. CASE ~(k < Len(frames))
    <2>1. k = Len(frames) /\ Len(frames) > 0 /\ frames # <<>>
      BY <1>2 DEF TypeOK
    <2> QED BY <1>2, <2>1 DEF Layout, Text
  <1> QED BY <1>1, <1>2

\* The empty wire.
LEMMA WireInit == Init => WireInv
  <1> SUFFICES ASSUME Init PROVE WireInv
    OBVIOUS
  <1>1. <<mode, user>> \in Modes
    BY WireAssumption DEF Init
  <1>2. TypeOK
    BY <1>1, WireAssumption DEF Init, TypeOK
  <1>3. Layout
    BY DEF Init, Layout
  <1>4. Position
    BY DEF Init, Position, NextAt, NextText, Text
  <1>5. Ends
    BY DEF Init, Ends, EndIsExact
  <1> QED BY <1>2, <1>3, <1>4, <1>5 DEF WireInv

----------------------------------------------------------------------------
(* The writer *)

\* A new frame is put behind the last one; the reader's next position is the
\* same, whether it was waiting for this frame or is still behind.
LEMMA EncodeStep == ASSUME WireInv, NEW n \in Sizes, Encode(n) PROVE WireInv'
  <1> USE DEF WireInv
  <1> DEFINE L == Len(frames)
             new == [at |-> enc, size |-> n, text |-> Text]
  <1>0. /\ TypeOK /\ L \in Nat /\ enc \in Nat /\ n \in Nat /\ n > 0 /\ Over(mode, n) \in Nat
        /\ Len(got) \in Nat
    <2>1. mode \in {"binary", "base94", "prefix"}
      BY SizeFacts DEF TypeOK
    <2>2. Over(mode, n) \in Nat
      BY <2>1 DEF Over, HEADER_SIZE, HEADER_SIMPLE
    <2>3. n \in Nat /\ n > 0
      BY SizeFacts
    <2> QED BY <2>2, <2>3 DEF TypeOK
  <1>1. Text \in Nat
    <2>1. CASE frames = <<>>
      BY <2>1 DEF Text
    <2>2. CASE frames # <<>>
      <3>1. L \in 1..Len(frames)
        BY <2>2 DEF TypeOK
      <3> QED BY <2>2, <3>1, FrameType DEF Text
    <2> QED BY <2>1, <2>2
  <1>2. new \in Frame
    BY <1>0, <1>1 DEF Frame
  <1>3. /\ frames' = Append(frames, new) /\ enc' = enc + Over(mode, n) + n /\ fin = "open" /\ L < MaxFrames
        /\ UNCHANGED <<mode, user, w, fin, r, b, pending, heads, body, got, plain, end>>
        /\ batch' = IF w = enc THEN 1 ELSE batch + 1
        /\ w = enc \/ batch \in 1..(Batch - 1)
    BY DEF Encode, Collecting, reader, Overhead, Over
  <1>4. /\ frames' \in Seq(Frame) /\ Len(frames') = L + 1
        /\ \A i \in 1..L : frames'[i] = frames[i]
        /\ frames'[L + 1] = new
    BY <1>2, <1>3, <1>0 DEF TypeOK
  <1>5. TypeOK'
    <2>1. Batch \in Nat \ {0} /\ MaxFrames \in Nat
      BY Zenon, WireAssumption
    <2>2. batch' \in 0..Batch
      BY <1>3, <2>1 DEF TypeOK
    <2>3. enc' \in Nat /\ w' \in 0..enc' /\ Len(frames') <= MaxFrames
      BY <1>0, <1>3, <1>4, <2>1 DEF TypeOK
    <2> QED BY <1>3, <1>4, <2>2, <2>3 DEF TypeOK
  <1>7. Bytes(mode, new) = Over(mode, n) + n
    BY DEF Bytes
  <1>8. \A i \in 1..L : /\ frames[i].at \in Nat /\ frames[i].text \in Nat /\ frames[i].size \in Nat
                        /\ Bytes(mode, frames[i]) \in Nat
    BY FrameType
  <1> HIDE DEF L
  <1>9. Layout'
    <2>0. new.at = enc /\ new.text = Text /\ new.size = n
      OBVIOUS
    <2> HIDE DEF new
    <2>1. \A i \in 1..(L + 1) : frames'[i].at + Bytes(mode, frames'[i]) <= enc'
      BY <1>0, <1>3, <1>4, <1>7, <1>8, <2>0 DEF Layout, L
    <2>2. \A i, j \in 1..(L + 1) : i < j => frames'[i].at + Bytes(mode, frames'[i]) <= frames'[j].at
      <3> SUFFICES ASSUME NEW i \in 1..L, NEW j \in 1..(L + 1), i < j
                   PROVE  frames'[i].at + Bytes(mode, frames'[i]) <= frames'[j].at
        BY <1>0
      <3>1. CASE j = L + 1
        <4>1. frames'[j].at = enc /\ frames'[i] = frames[i]
          BY <3>1, <1>4, <2>0
        <4>2. frames[i].at + Bytes(mode, frames[i]) <= enc
          BY DEF Layout, L
        <4> QED BY <4>1, <4>2
      <3>2. CASE j # L + 1
        <4>1. j \in 1..L /\ frames'[j] = frames[j] /\ frames'[i] = frames[i]
          BY <3>2, <1>0, <1>4
        <4>2. frames[i].at + Bytes(mode, frames[i]) <= frames[j].at
          BY <4>1 DEF Layout, L
        <4> QED BY <4>1, <4>2
      <3> QED BY <3>1, <3>2
    <2>3. L > 0 => enc = frames[L].at + Bytes(mode, frames[L]) /\ Text = frames[L].text + frames[L].size
                    /\ frames[1].at = 0 /\ frames[1].text = 0
      BY <1>0 DEF Layout, Text, L
    <2>4. \A i \in 1..L : /\ frames'[i + 1].at = frames'[i].at + Bytes(mode, frames'[i])
                          /\ frames'[i + 1].text = frames'[i].text + frames'[i].size
      <3> SUFFICES ASSUME NEW i \in 1..L
                   PROVE  /\ frames'[i + 1].at = frames'[i].at + Bytes(mode, frames'[i])
                          /\ frames'[i + 1].text = frames'[i].text + frames'[i].size
        OBVIOUS
      <3>1. CASE i = L
        <4>1. frames'[i + 1] = new /\ frames'[i] = frames[L] /\ L > 0
          BY <3>1, <1>0, <1>4
        <4> QED BY <4>1, <2>0, <2>3
      <3>2. CASE i # L
        <4>1. i \in 1..(L - 1) /\ i + 1 \in 1..L
          BY <3>2, <1>0
        <4>2. frames'[i + 1] = frames[i + 1] /\ frames'[i] = frames[i]
          BY <4>1, <1>4
        <4>3. /\ frames[i + 1].at = frames[i].at + Bytes(mode, frames[i])
              /\ frames[i + 1].text = frames[i].text + frames[i].size
          BY <4>1 DEF Layout, L
        <4> QED BY <4>2, <4>3
      <3> QED BY <3>1, <3>2
    <2>5. frames'[1].at = 0 /\ frames'[1].text = 0 /\ enc' = frames'[L + 1].at + Bytes(mode, frames'[L + 1])
      <3>1. CASE L = 0
        BY <3>1, <1>0, <1>3, <1>4, <1>7, <2>0 DEF Layout, Text, L, TypeOK
      <3>2. CASE L > 0
        BY <3>2, <1>0, <1>3, <1>4, <1>7, <2>0, <2>3
      <3> QED BY <3>1, <3>2, <1>0
    <2>6. Len(frames') > 0 /\ Len(frames') - 1 = L /\ mode' = mode
      BY <1>0, <1>3, <1>4
    <2> QED BY <1>0, <1>4, <2>1, <2>2, <2>4, <2>5, <2>6 DEF Layout
  <1>10. NextAt' = NextAt /\ NextText' = NextText
    BY <1>0, <1>3, <1>4 DEF NextAt, NextText, Position, L
  <1>11. Position'
    BY <1>0, <1>3, <1>4, <1>10 DEF Position, L
  <1>12. Ends'
    BY <1>3 DEF Ends, EndIsExact
  <1> QED BY <1>5, <1>9, <1>11, <1>12

\* Pushing bytes, shutting down and being cut leave the frames alone.
LEMMA SendStep ==
    ASSUME WireInv, (\E n \in 1..(enc - w) : Push(n)) \/ Shutdown \/ Cut
    PROVE  WireInv'
  <1> USE DEF WireInv
  <1>1. UNCHANGED <<mode, user, frames, enc, batch, r, b, pending, heads, body, got, plain, end>> /\ fin = "open"
    BY DEF Push, Shutdown, Cut, reader
  <1>3. TypeOK'
    <2>1. w' \in 0..enc /\ w' >= w /\ fin' \in {"open", "shut", "cut"}
      BY DEF Push, Shutdown, Cut, TypeOK
    <2> QED BY <1>1, <2>1 DEF TypeOK
  <1>4. Layout'
    BY <1>1 DEF Layout
  <1>5. Position'
    BY <1>1 DEF Position, NextAt, NextText, Text
  <1>6. Ends'
    BY <1>1 DEF Ends, EndIsExact, Push, Shutdown, Cut
  <1> QED BY <1>3, <1>4, <1>5, <1>6

----------------------------------------------------------------------------
(* The reader *)

\* Every reader step leaves the wire as it is.
LEMMA KeepsLayout == ASSUME Layout, UNCHANGED <<mode, user, sender>> PROVE Layout'
  BY DEF Layout, sender

\* A frame that is next and taken as a whole leaves the reader in step.
LEMMA Taken ==
    ASSUME WireInv, NEW k \in 1..Len(frames), k = Len(got) + 1,
           UNCHANGED <<mode, user, sender>>,
           got' = Append(got, k), pending' = 0,
           b' = frames[k].at + Bytes(mode, frames[k]),
           mode # "prefix" => heads' = k /\ body' = frames[k].text + frames[k].size
    PROVE  Position' /\ got' \in Seq(0..MaxFrames)
  <1> USE DEF WireInv, sender
  <1>0. Len(got) \in Nat /\ Len(frames) \in Nat /\ got \in Seq(0..MaxFrames) /\ Len(frames) <= MaxFrames /\ MaxFrames \in Nat
    <2>1. MaxFrames \in Nat
      BY Zenon, WireAssumption
    <2> QED BY <2>1 DEF TypeOK
  <1>1. got' \in Seq(0..MaxFrames)
    <2>1. k \in 0..MaxFrames
      BY <1>0
    <2> QED BY <1>0, <2>1
  <1>2. Len(got') = k /\ (\A i \in 1..k : got'[i] = i)
    BY <1>0 DEF Position
  <1>3. /\ NextAt' = IF k < Len(frames) THEN frames[k + 1].at ELSE enc
        /\ NextText' = IF k < Len(frames) THEN frames[k + 1].text ELSE Text
    BY <1>2 DEF NextAt, NextText, Text
  <1>4. NextAt' = frames[k].at + Bytes(mode, frames[k]) /\ NextText' = frames[k].text + frames[k].size
    BY <1>3, NextFrame
  <1>5. frames[k].at \in Nat /\ Bytes(mode, frames[k]) \in Nat
    BY FrameType
  <1> QED BY <1>0, <1>1, <1>2, <1>4, <1>5 DEF Position

\* A header goes through the protocol cipher once and is drained.
LEMMA HeaderStep == ASSUME WireInv, ParseHeader PROVE WireInv'
  <1> USE DEF WireInv, HEADER_SIZE
  <1>0. /\ UNCHANGED <<mode, user, sender, r, body, got, plain>>
        /\ end = "run" /\ mode = "binary" /\ pending = 0 /\ Buffered >= 3
    BY DEF ParseHeader, Polling, NeedsHeader
  <1>1. Layout'
    BY <1>0, KeepsLayout
  <1>2. NextAt' = NextAt /\ NextText' = NextText
    BY <1>0 DEF NextAt, NextText, Text, sender
  <1>3. CASE HeaderOf = {}
    <2>1. end' = "invalid" /\ UNCHANGED <<pending, b, heads>>
      BY <1>3 DEF ParseHeader
    <2>2. TypeOK'
      BY <1>0, <2>1 DEF TypeOK, sender
    <2>3. Position'
      BY <1>0, <1>2, <2>1 DEF Position, sender
    <2>4. Ends'
      BY <1>0, <2>1 DEF Ends, EndIsExact, sender
    <2> QED BY <1>1, <2>2, <2>3, <2>4
  <1>4. CASE HeaderOf # {}
    <2>1. /\ \E k \in HeaderOf : pending' = frames[k].size
          /\ b' = b + 3 /\ heads' = heads + 1 /\ end' = end
      BY <1>4 DEF ParseHeader
    <2>2. PICK k \in 1..Len(frames) : frames[k].at = b /\ pending' = frames[k].size
      BY <2>1 DEF HeaderOf, Starting
    <2>3. b = NextAt /\ b \in Nat /\ r \in Nat /\ heads \in Nat
      BY <1>0, NextType DEF Position, TypeOK
    <2>4. k = Len(got) + 1
      BY <2>2, <2>3, OneStart
    <2>5. frames[k].size \in Nat /\ frames[k].size > 0
      BY FrameType
    <2>6. TypeOK'
      <3>1. b' \in 0..r
        BY <1>0, <2>1, <2>3 DEF Buffered
      <3> QED BY <1>0, <2>1, <2>2, <2>3, <2>5, <3>1 DEF TypeOK, sender
    <2>7. Position'
      <3>1. Len(got) \in Nat /\ Len(frames) \in Nat
        BY DEF TypeOK
      <3> QED BY <1>0, <1>2, <2>1, <2>2, <2>3, <2>4, <2>5, <3>1 DEF Position, sender
    <2>8. Ends'
      BY <1>0, <2>1 DEF Ends, EndIsExact, sender
    <2> QED BY <1>1, <2>6, <2>7, <2>8
  <1> QED BY <1>3, <1>4

\* The body behind a stashed header is the next frame's.
LEMMA BodyStep == ASSUME WireInv, TakeBody PROVE WireInv'
  <1> USE DEF WireInv, HEADER_SIZE
  <1> DEFINE k == Len(got) + 1
  <1>0. /\ UNCHANGED <<mode, user, sender, r, heads, end>>
        /\ end = "run" /\ mode = "binary" /\ pending # 0 /\ Buffered >= pending
        /\ b' = b + pending /\ body' = body + pending /\ pending' = 0
    BY DEF TakeBody, Polling
  <1>1. Layout'
    BY <1>0, KeepsLayout
  <1>2. /\ k \in 1..Len(frames) /\ pending = frames[k].size
        /\ b = frames[k].at + 3 /\ body = frames[k].text /\ heads = k
    BY <1>0 DEF Position, NextAt, NextText, TypeOK
  <1>3. /\ Bytes(mode, frames[k]) = 3 + frames[k].size
        /\ frames[k].size \in Nat /\ frames[k].at \in Nat /\ frames[k].text \in Nat
    BY <1>0, <1>2, FrameType DEF Bytes, Over
  <1>4. k \in BodyOf
    BY <1>2 DEF BodyOf, Bodies
  <1>5. \A j \in BodyOf : j = k
    <2> SUFFICES ASSUME NEW j \in BodyOf PROVE j = k
      OBVIOUS
    <2>1. j \in 1..Len(frames) /\ frames[j].at + 3 = b
      BY DEF BodyOf, Bodies
    <2>2. frames[j].at \in Nat
      BY <2>1, FrameType
    <2>3. NextAt = frames[k].at
      BY <1>2 DEF NextAt, TypeOK
    <2> HIDE DEF k
    <2>4. frames[j].at = NextAt
      BY <2>1, <2>2, <2>3, <1>2, <1>3
    <2>5. j = Len(got) + 1
      BY <2>1, <2>4, OneStart
    <2> QED BY <2>5 DEF k
  <1>6. got' = Append(got, k) /\ plain' \in Nat
    <2>1. PICK j \in BodyOf : Deliver(j, pending)
      BY <1>4 DEF TakeBody
    <2> QED BY <1>2, <1>3, <1>5, <2>1 DEF Deliver
  <1>7. Position' /\ got' \in Seq(0..MaxFrames)
    <2>1. /\ b' = frames[k].at + Bytes(mode, frames[k])
          /\ heads' = k /\ body' = frames[k].text + frames[k].size
      <3> HIDE DEF k
      <3>1. heads' = k /\ b' = b + pending /\ body' = body + pending
        BY <1>0, <1>2
      <3>2. b' = (frames[k].at + 3) + frames[k].size
        BY <3>1, <1>2
      <3>3. body' = frames[k].text + frames[k].size
        BY <3>1, <1>2
      <3> QED BY <3>1, <3>2, <3>3, <1>3
    <2> QED BY <1>0, <1>2, <1>6, <2>1, Taken
  <1>8. TypeOK'
    <2>1. b' \in 0..r /\ body' \in Nat
      <3> HIDE DEF k
      <3>1. b \in Nat /\ r \in Nat /\ body \in Nat /\ pending \in Nat
        BY DEF TypeOK
      <3> QED BY <1>0, <3>1 DEF Buffered
    <2> QED BY <1>0, <1>6, <1>7, <2>1 DEF TypeOK, sender
  <1>9. Ends'
    BY <1>0 DEF Ends, EndIsExact, sender
  <1> QED BY <1>1, <1>7, <1>8, <1>9

\* A frame that is peeked and taken as a whole is the next one.
LEMMA FrameStep == ASSUME WireInv, TakeFrame PROVE WireInv'
  <1> USE DEF WireInv
  <1>0. /\ UNCHANGED <<mode, user, sender, r, pending>>
        /\ end = "run" /\ mode # "binary" /\ pending = 0
    BY DEF TakeFrame, Polling, Position
  <1>1. Layout'
    BY <1>0, KeepsLayout
  <1>2. CASE Starting = {}
    <2>1. end' = "invalid" /\ UNCHANGED <<b, heads, body, got, plain>>
      BY <1>2 DEF TakeFrame
    <2>2. TypeOK'
      BY <1>0, <2>1 DEF TypeOK, sender
    <2>3. Position'
      BY <1>0, <2>1 DEF Position, NextAt, NextText, Text, sender
    <2>4. Ends'
      BY <1>0, <2>1 DEF Ends, EndIsExact, sender
    <2> QED BY <1>1, <2>2, <2>3, <2>4
  <1>3. CASE Starting # {}
    <2>1. PICK k \in Starting :
              /\ Readable(k)
              /\ Deliver(IF Aligned(k) THEN k ELSE 0, frames[k].size)
              /\ b' = b + Used(k)
              /\ heads' = IF mode = "base94" THEN heads + 1 ELSE heads
              /\ body' = IF mode = "base94" THEN body + frames[k].size ELSE body
              /\ UNCHANGED end
      BY <1>3 DEF TakeFrame
    <2>2. k \in 1..Len(frames) /\ frames[k].at = b
      BY DEF Starting
    <2>3. b = NextAt /\ b \in Nat /\ r \in Nat /\ heads \in Nat /\ body \in Nat
      BY <1>0, NextType DEF Position, TypeOK
    <2>4. k = Len(got) + 1 /\ Len(got) \in Nat
      BY <2>2, <2>3, OneStart DEF TypeOK
    <2>5. /\ Used(k) = Bytes(mode, frames[k]) /\ Bytes(mode, frames[k]) \in Nat
          /\ frames[k].size \in Nat /\ frames[k].text \in Nat
          /\ Bytes(mode, frames[k]) = Over(mode, frames[k].size) + frames[k].size
          /\ Overhead(frames[k].size) = Over(mode, frames[k].size)
      BY <2>2, FrameType
    <2>6. mode \in {"base94", "prefix"}
      BY <1>0, SizeFacts DEF TypeOK
    <2>7. mode = "base94" => heads = Len(got) /\ body = frames[k].text
      BY <1>0, <2>2, <2>4 DEF Position, NextText, TypeOK
    <2>8. Aligned(k)
      BY <2>4, <2>7 DEF Aligned
    <2>9. got' = Append(got, k) /\ plain' \in Nat
      BY <2>1, <2>5, <2>8 DEF Deliver
    <2>10. /\ b' = frames[k].at + Bytes(mode, frames[k]) /\ pending' = 0
           /\ mode # "prefix" => heads' = k /\ body' = frames[k].text + frames[k].size
      BY <1>0, <2>1, <2>2, <2>4, <2>5, <2>6, <2>7
    <2>11. Position' /\ got' \in Seq(0..MaxFrames)
      BY <1>0, <2>2, <2>4, <2>9, <2>10, Taken
    <2>12. b' \in 0..r /\ heads' \in Nat /\ body' \in Nat
      <3>1. r - b >= Bytes(mode, frames[k])
        BY <2>1, <2>5, <2>6 DEF Readable, Buffered, Over, HEADER_SIZE, HEADER_SIMPLE
      <3> QED BY <2>1, <2>3, <2>5, <3>1
    <2>13. TypeOK'
      BY <1>0, <2>1, <2>9, <2>11, <2>12 DEF TypeOK, sender
    <2>14. Ends'
      BY <1>0, <2>1 DEF Ends, EndIsExact, sender
    <2> QED BY <1>1, <2>11, <2>13, <2>14
  <1> QED BY <1>2, <1>3

\* Bytes that arrive, a reset, and a caller that takes decoded bytes.
LEMMA ReadStep ==
    ASSUME WireInv, (\E n \in 0..(w - r) : Read(n)) \/ ReadError \/ (\E n \in 1..plain : Serve(n))
    PROVE  WireInv'
  <1> USE DEF WireInv
  <1>1. /\ UNCHANGED <<mode, user, sender, b, pending, heads, body, got>>
        /\ end = "run" /\ end' \in {"run", "invalid", "error"}
    BY DEF Read, ReadError, Serve, Starved, OverCap, Polling
  <1>2. r' \in 0..w /\ r' >= r
    BY DEF Read, ReadError, Serve, TypeOK
  <1>3. plain' \in Nat
    BY DEF Read, ReadError, Serve, TypeOK
  <1>4. TypeOK'
    <2>1. b \in 0..r'
      BY <1>2 DEF TypeOK
    <2> QED BY <1>1, <1>2, <1>3, <2>1 DEF TypeOK, sender
  <1>5. Layout'
    BY <1>1, KeepsLayout
  <1>6. Position'
    BY <1>1 DEF Position, NextAt, NextText, Text, sender
  <1>7. Ends'
    BY <1>1 DEF Ends, EndIsExact, sender
  <1> QED BY <1>4, <1>5, <1>6, <1>7

\* With everything read and no frame decodable, the next frame is not
\* completely on the carrier.
LEMMA StarvedMeans ==
    ASSUME WireInv, Starved, r = w, Len(got) < Len(frames)
    PROVE  frames[Len(got) + 1].at + Bytes(mode, frames[Len(got) + 1]) > w
  <1> USE DEF WireInv
  <1> DEFINE k == Len(got) + 1
  <1> SUFFICES frames[k].at + Bytes(mode, frames[k]) > w
    OBVIOUS
  <1>1. k \in 1..Len(frames) /\ NextAt = frames[k].at
    BY DEF TypeOK, NextAt
  <1>2. b \in Nat /\ w \in Nat /\ pending \in Nat
    BY DEF TypeOK
  <1>3. /\ Bytes(mode, frames[k]) \in Nat /\ frames[k].at \in Nat /\ frames[k].size \in Nat
        /\ Bytes(mode, frames[k]) = Over(mode, frames[k].size) + frames[k].size
        /\ Overhead(frames[k].size) = Over(mode, frames[k].size) /\ frames[k].size > 0
    BY <1>1, FrameType
  <1>4. mode \in {"binary", "base94", "prefix"}
    BY SizeFacts DEF TypeOK
  <1>5. CASE mode = "binary"
    <2>1. pending # 0 => pending = frames[k].size
      BY DEF Position
    <2>2. b = frames[k].at + (IF pending = 0 THEN 0 ELSE 3)
      BY <1>1 DEF Position, HEADER_SIZE
    <2>3. IF pending = 0 THEN w - b < 3 ELSE w - b < pending
      BY <1>5 DEF Starved, Buffered, HEADER_SIZE
    <2>4. Bytes(mode, frames[k]) = 3 + frames[k].size
      BY <1>3, <1>5 DEF Over, HEADER_SIZE
    <2>5. CASE pending = 0
      <3>1. b = frames[k].at /\ w - b < 3
        BY <2>2, <2>3, <2>5, <1>3
      <3> HIDE DEF k
      <3> QED BY <1>2, <1>3, <2>4, <3>1
    <2>6. CASE pending # 0
      <3>1. b = frames[k].at + 3
        BY <2>2, <2>6
      <3>a. w - b < pending
        BY <2>3, <2>6
      <3>2. w - b < frames[k].size
        BY <2>1, <2>6, <3>a, Zenon
      <3>3. ASSUME NEW a \in Nat, NEW n \in Nat, NEW c \in Nat, w - (a + 3) < n, c = 3 + n
            PROVE  a + c > w
        BY <1>2, <3>3
      <3>4. w - (frames[k].at + 3) < frames[k].size
        BY <3>1, <3>2, Zenon
      <3> HIDE DEF k
      <3> QED BY <1>3, <2>4, <3>3, <3>4
    <2> QED BY <2>5, <2>6
  <1>6. CASE mode # "binary"
    <2>1. b = frames[k].at
      BY <1>1, <1>3, <1>6 DEF Position
    <2>2. ~Readable(k)
      BY <1>1, <1>6, <2>1 DEF Starved, Starting
    <2>3. w - b < Bytes(mode, frames[k])
      <3>1. CASE mode = "base94"
        <4>1. ~(w - b >= 7 + frames[k].size) /\ Over(mode, frames[k].size) = 7
          BY <3>1, <2>2 DEF Readable, Buffered, Over, HEADER_SIZE, HEADER_SIMPLE
        <4> QED BY <4>1, <1>2, <1>3
      <3>2. CASE mode = "prefix"
        <4>1. ~(w - b >= Overhead(frames[k].size) + frames[k].size)
          BY <3>2, <2>2 DEF Readable, Buffered
        <4> QED BY <4>1, <1>2, <1>3
      <3> QED BY <3>1, <3>2, <1>4, <1>6
    <2> HIDE DEF k
    <2> QED BY <1>2, <1>3, <2>1, <2>3
  <1> QED BY <1>5, <1>6

\* A read of zero bytes: every complete frame has been taken, and a link's
\* clean end is not inside a frame.
LEMMA EofStep == ASSUME WireInv, ReadEof PROVE WireInv'
  <1> USE DEF WireInv
  <1>0. /\ UNCHANGED <<mode, user, sender, r, b, pending, heads, body, got, plain>>
        /\ Starved /\ fin # "open" /\ r = w /\ end = "run"
        /\ end' = IF user = "link" /\ MidFrame THEN "error" ELSE "eof"
    BY DEF ReadEof, Starved, Polling
  <1>1. TypeOK'
    BY <1>0 DEF TypeOK, sender
  <1>2. Layout'
    BY <1>0, KeepsLayout
  <1>3. Position'
    BY <1>0 DEF Position, NextAt, NextText, Text, sender
  <1>a. Len(got) \in Nat /\ Len(frames) \in Nat /\ w \in Nat
    BY DEF TypeOK
  <1>b. \A k \in 1..Len(frames) :
            /\ frames[k].at \in Nat /\ Bytes(mode, frames[k]) \in Nat /\ Bytes(mode, frames[k]) > 0
            /\ k \in Complete <=> frames[k].at + Bytes(mode, frames[k]) <= w
    <2> SUFFICES ASSUME NEW k \in 1..Len(frames)
                 PROVE  /\ frames[k].at \in Nat /\ Bytes(mode, frames[k]) \in Nat /\ Bytes(mode, frames[k]) > 0
                        /\ k \in Complete <=> frames[k].at + Bytes(mode, frames[k]) <= w
      OBVIOUS
    <2>1. /\ frames[k].at \in Nat /\ Bytes(mode, frames[k]) \in Nat /\ Bytes(mode, frames[k]) > 0
          /\ Bytes(mode, frames[k]) = Over(mode, frames[k].size) + frames[k].size
          /\ Overhead(frames[k].size) = Over(mode, frames[k].size) /\ frames[k].size \in Nat
          /\ Over(mode, frames[k].size) \in 1..7
      BY FrameType
    <2>2. k \in Complete <=> frames[k].at + Overhead(frames[k].size) + frames[k].size <= w
      BY DEF Complete
    <2>3. ASSUME NEW a \in Nat, NEW o \in Nat, NEW n \in Nat
          PROVE  a + o + n = a + (o + n)
      OBVIOUS
    <2>4. Over(mode, frames[k].size) \in Nat
      BY <2>1
    <2>5. frames[k].at + Over(mode, frames[k].size) + frames[k].size
            = frames[k].at + (Over(mode, frames[k].size) + frames[k].size)
      BY <2>1, <2>3, <2>4, Zenon
    <2> QED BY <2>1, <2>2, <2>5, Zenon
  <1>4. \A k \in Complete : k <= Len(got)
    <2> SUFFICES ASSUME NEW k \in Complete, ~(k <= Len(got)) PROVE FALSE
      OBVIOUS
    <2> DEFINE n == Len(got) + 1
    <2>1. k \in 1..Len(frames) /\ n \in 1..Len(frames) /\ (k = n \/ n < k)
      BY <1>a DEF Complete
    <2>2. frames[k].at + Bytes(mode, frames[k]) <= w
      BY <1>b, <2>1
    <2>3. n < k => frames[n].at + Bytes(mode, frames[n]) <= frames[k].at
      BY <2>1 DEF Layout
    <2>4. frames[n].at + Bytes(mode, frames[n]) > w
      BY <1>0, <1>a, <2>1, StarvedMeans
    <2> HIDE DEF n
    <2> QED BY <1>a, <1>b, <2>1, <2>2, <2>3, <2>4
  <1>5. ASSUME user = "link", ~MidFrame, NEW k \in 1..Len(frames), frames[k].at < w
        PROVE  k \in Complete
    <2>1. pending = 0 /\ b = w
      BY <1>0, <1>5 DEF MidFrame, Buffered, TypeOK
    <2>2. w = NextAt
      BY <2>1, NextType DEF Position
    <2>3. CASE Len(got) < Len(frames)
      <3> DEFINE n == Len(got) + 1
      <3>1. n \in 1..Len(frames) /\ w = frames[n].at
        BY <1>a, <2>2, <2>3 DEF NextAt
      <3>2. n < k => frames[n].at + Bytes(mode, frames[n]) <= frames[k].at
        BY <3>1 DEF Layout
      <3>3. k < n => frames[k].at + Bytes(mode, frames[k]) <= frames[n].at
        BY <3>1 DEF Layout
      <3> HIDE DEF n
      <3>4. k < n
        BY <1>5, <1>a, <1>b, <3>1, <3>2
      <3> QED BY <1>b, <3>1, <3>3, <3>4
    <2>4. CASE ~(Len(got) < Len(frames))
      <3>1. w = enc /\ frames[k].at + Bytes(mode, frames[k]) <= enc
        BY <2>2, <2>4 DEF NextAt, Layout
      <3> QED BY <1>b, <3>1
    <2> QED BY <2>3, <2>4
  <1>6. Complete' = Complete
    BY <1>0 DEF Complete, Overhead, sender
  <1>7. Ends'
    <2>1. EndIsExact'
      BY <1>0, <1>4, <1>5, <1>6 DEF EndIsExact, sender
    <2> QED BY <1>0, <2>1 DEF Ends, sender
  <1> QED BY <1>1, <1>2, <1>3, <1>7

----------------------------------------------------------------------------
\* Every step keeps the invariant.
LEMMA WireStep == WireInv /\ [Next]_vars => WireInv'
  <1> SUFFICES ASSUME WireInv, [Next]_vars PROVE WireInv'
    OBVIOUS
  <1>1. CASE UNCHANGED vars
    <2>1. UNCHANGED <<mode, user, frames, enc, w, batch, fin, r, b, pending, heads, body, got, plain, end>>
      BY <1>1 DEF vars, sender, reader
    <2>2. TypeOK' /\ Layout'
      BY <2>1 DEF WireInv, TypeOK, Layout
    <2>3. Position'
      BY <2>1 DEF WireInv, Position, NextAt, NextText, Text
    <2>4. Ends'
      BY <2>1 DEF WireInv, Ends, EndIsExact, Complete, Overhead
    <2> QED BY <2>2, <2>3, <2>4 DEF WireInv
  <1>2. CASE Next
    BY <1>2, EncodeStep, SendStep, HeaderStep, BodyStep, FrameStep, ReadStep, EofStep DEF Next
  <1> QED BY <1>1, <1>2

\* The invariant of writer, carrier and reader.
THEOREM WireInvariant == Spec => []WireInv
  BY WireInit, WireStep, PTL DEF Spec

\* However the bytes are chopped up, the reader stays in step with the encoder:
\* whole frames, each header and body through its cipher exactly once.
THEOREM WireInStep == Spec => []InStep
  <1>1. WireInv => InStep
    BY DEF WireInv, Position, InStep
  <1> QED BY <1>1, WireInvariant, PTL

\* An end of stream comes after every complete frame, and a link's clean end
\* is not inside one.
THEOREM WireEndIsExact == Spec => []EndIsExact
  <1>1. WireInv => EndIsExact
    BY DEF WireInv, Ends
  <1> QED BY <1>1, WireInvariant, PTL

----------------------------------------------------------------------------
(* Refinement: the framing implements ByteStream *)

\* Steps that neither accept nor deliver a message nor end the flow.
LEMMA Silent ==
    ASSUME UNCHANGED <<frames, got>>, (fin = "shut") = (fin' = "shut"),
           end # "eof", end' # "eof" \/ fin' # "shut"
    PROVE  UNCHANGED Flow!vars
  BY DEF Flow!vars

\* A delivered message is the next one.
LEMMA NextMessage ==
    ASSUME WireInv, WireInv', NEW k, got' = Append(got, k), UNCHANGED <<frames, fin, end>>, end = "run"
    PROVE  Flow!Read("tx")
  <1>1. got \in Seq(0..MaxFrames) /\ got' \in Seq(0..MaxFrames) /\ Len(got) \in Nat
    BY DEF WireInv, TypeOK
  <1>2. Len(got') = Len(got) + 1 /\ got'[Len(got) + 1] = k
    BY <1>1
  <1>3. Len(got) < Len(frames)
    BY <1>1, <1>2 DEF WireInv, Position, TypeOK
  <1>4. k = Len(got) + 1
    BY <1>1, <1>2 DEF WireInv, Position
  <1> QED BY <1>3, <1>4 DEF Flow!Read

\* Behind an orderly shutdown the end comes after the last message.
EndIsLast == end = "eof" /\ fin = "shut" => Len(got) = Len(frames)

LEMMA LastMessage == WireInv => EndIsLast
  <1> SUFFICES ASSUME WireInv, end = "eof", fin = "shut" PROVE Len(got) = Len(frames)
    BY DEF EndIsLast
  <1>1. Len(got) \in Nat /\ Len(frames) \in Nat /\ Len(got) <= Len(frames)
    BY DEF WireInv, TypeOK, Position
  <1>2. CASE Len(frames) = 0
    BY <1>1, <1>2
  <1>3. CASE Len(frames) # 0
    <2> DEFINE k == Len(frames)
    <2>1. k \in 1..Len(frames)
      BY <1>1, <1>3
    <2>2. w = enc /\ enc = frames[k].at + Bytes(mode, frames[k])
      BY <1>1, <1>3 DEF WireInv, Ends, Layout
    <2>3. /\ Overhead(frames[k].size) = Over(mode, frames[k].size)
          /\ Bytes(mode, frames[k]) = Over(mode, frames[k].size) + frames[k].size
          /\ frames[k].at \in Nat /\ frames[k].size \in Nat /\ Over(mode, frames[k].size) \in 1..7
      BY <2>1, FrameType DEF WireInv
    <2>4. frames[k].at + Overhead(frames[k].size) + frames[k].size <= w
      <3> HIDE DEF k
      <3> QED BY <2>2, <2>3
    <2>5. k \in Complete
      BY <2>1, <2>4 DEF Complete
    <2>6. k <= Len(got)
      BY <2>5 DEF WireInv, Ends, EndIsExact
    <2> QED BY <1>1, <2>6
  <1> QED BY <1>2, <1>3

\* Every step of the framing is a step of the flow, or none.
LEMMA FlowStep ==
    ASSUME WireInv, WireInv', EndIsLast', [Next]_vars
    PROVE  [Flow!Next]_(Flow!vars)
  <1>1. CASE UNCHANGED vars
    BY <1>1 DEF vars, sender, reader, Flow!vars
  <1>2. CASE \E n \in Sizes : Encode(n)
    <2>1. PICK f : frames' = Append(frames, f)
      BY <1>2 DEF Encode
    <2>2. fin = "open" /\ UNCHANGED <<fin, got, end>>
      BY <1>2 DEF Encode, reader
    <2>3. Len(frames') = Len(frames) + 1
      BY <2>1 DEF WireInv, TypeOK
    <2>4. Flow!Write("tx")
      BY <2>2, <2>3 DEF Flow!Write
    <2> QED BY <2>4 DEF Flow!Next
  <1>3. CASE \E n \in 1..(enc - w) : Push(n)
    BY <1>3 DEF Push, reader, Flow!vars
  <1>4. CASE Shutdown
    <2>1. fin = "open" /\ fin' = "shut" /\ UNCHANGED <<frames, got, end>> /\ end # "eof"
      BY <1>4 DEF Shutdown, reader, WireInv, Ends
    <2>2. Flow!Finish("tx")
      BY <2>1 DEF Flow!Finish
    <2> QED BY <2>2 DEF Flow!Next
  <1>5. CASE Cut
    <2>1. fin = "open" /\ fin' = "cut" /\ UNCHANGED <<frames, got, end>> /\ end # "eof"
      BY <1>5 DEF Cut, reader, WireInv, Ends
    <2> QED BY <2>1, Silent
  <1>6. CASE ParseHeader
    <2>1. UNCHANGED <<frames, got, fin>> /\ end # "eof" /\ end' # "eof"
      BY <1>6 DEF ParseHeader, Polling, sender
    <2> QED BY <2>1, Silent
  <1>7. CASE TakeBody
    <2>1. UNCHANGED <<frames, fin, end>> /\ end = "run"
      BY <1>7 DEF TakeBody, Polling, sender
    <2>2. PICK k : got' = Append(got, k)
      BY <1>7 DEF TakeBody, Deliver
    <2>3. Flow!Read("tx")
      BY <2>1, <2>2, NextMessage
    <2> QED BY <2>3 DEF Flow!Next
  <1>8. CASE TakeFrame
    <2>1. UNCHANGED <<frames, fin>> /\ end = "run"
      BY <1>8 DEF TakeFrame, Polling, sender
    <2>2. CASE Starting = {}
      <3>1. end' = "invalid" /\ UNCHANGED got
        BY <1>8, <2>2 DEF TakeFrame
      <3> QED BY <2>1, <3>1, Silent
    <2>3. CASE Starting # {}
      <3>1. PICK k : got' = Append(got, k) /\ UNCHANGED end
        BY <1>8, <2>3 DEF TakeFrame, Deliver
      <3>2. Flow!Read("tx")
        BY <2>1, <3>1, NextMessage
      <3> QED BY <3>2 DEF Flow!Next
    <2> QED BY <2>2, <2>3
  <1>9. CASE (\E n \in 0..(w - r) : Read(n)) \/ ReadError \/ (\E n \in 1..plain : Serve(n))
    <2>1. UNCHANGED <<frames, got, fin>> /\ end # "eof" /\ end' # "eof"
      BY <1>9 DEF Read, ReadError, Serve, Starved, OverCap, Polling, sender
    <2> QED BY <2>1, Silent
  <1>10. CASE ReadEof
    <2>1. UNCHANGED <<frames, got, fin>> /\ end = "run"
      BY <1>10 DEF ReadEof, Starved, Polling, sender
    <2>2. CASE end' = "eof" /\ fin' = "shut"
      <3>1. Len(got) = Len(frames)
        BY <2>1, <2>2 DEF EndIsLast
      <3>2. Flow!ReadEnd("tx")
        BY <2>1, <2>2, <3>1 DEF Flow!ReadEnd
      <3> QED BY <3>2 DEF Flow!Next
    <2>3. CASE ~(end' = "eof" /\ fin' = "shut")
      BY <2>1, <2>3, Silent
    <2> QED BY <2>2, <2>3
  <1> QED BY <1>1, <1>2, <1>3, <1>4, <1>5, <1>6, <1>7, <1>8, <1>9, <1>10 DEF Next

\* The framing implements a reliable flow of messages: in order, none lost or
\* repeated, and after an orderly shutdown the end comes behind the last.
THEOREM WireImplementsFlow == Spec => ReliableFrames
  <1>1. Init => Flow!Init
    BY DEF Init, Flow!Init
  <1>2. WireInv /\ WireInv' /\ EndIsLast' /\ [Next]_vars => [Flow!Next]_(Flow!vars)
    BY FlowStep
  <1>3. WireInv => EndIsLast
    BY LastMessage
  <1> QED BY <1>1, <1>2, <1>3, WireInvariant, PTL DEF Spec, ReliableFrames, Flow!Spec
=============================================================================
