-------------------------------- MODULE Wire --------------------------------
(***************************************************************************)
(* One direction of a tunnel or bond link as bytes: frames are encoded     *)
(* into a buffer, pushed onto the carrier in pieces of any size, read in   *)
(* pieces of any size and decoded by the incremental reader.               *)
(*                                                                         *)
(* Bytes are positions in the encoded stream.  What a decoder makes of the *)
(* bytes at the front of its buffer is decided by where that front is, and *)
(* by how far its two cipher streams have advanced: only at the start of a *)
(* frame, with the keystreams where the encoder had them, does it see the  *)
(* frame; anywhere else it sees garbage.                                   *)
(*                                                                         *)
(*   mode "binary"  session framing: encrypted 3-byte header, body         *)
(*        "base94"  plaintext-mode session framing: 4-byte header peeked   *)
(*        "prefix"  varint length prefix on a bonded carrier, no cipher    *)
(*   user "tunnel"  run_writer and FrameReader                             *)
(*        "link"    LinkWriteHalf and LinkReadHalf                         *)
(***************************************************************************)
EXTENDS Integers, Sequences

CONSTANTS Modes,     \* the (mode, user) pairs to run
          Sizes,     \* message sizes
          ShortMax,  \* largest size with a one-byte varint
          MaxFrames, \* bound on the messages of one behaviour
          Batch,     \* WRITE_BATCH (a link has one frame in flight)
          Cap        \* BUF_CAP / WIRE_CAP

HEADER_SIZE == 3    \* binary header
HEADER_SIMPLE == 4  \* base94 header of every frame after the handshake

ASSUME WireAssumption ==
    /\ Modes \subseteq {"binary", "base94", "prefix"} \X {"tunnel", "link"}
    /\ Sizes \subseteq Nat \ {0}
    /\ ShortMax \in Nat /\ MaxFrames \in Nat
    /\ Batch \in Nat \ {0}
    /\ Cap \in Nat
    /\ \A n \in Sizes : HEADER_SIMPLE + HEADER_SIZE + n <= Cap

VARIABLES mode, user,
          frames,  \* history: the encoded frames, [at, size, text]: wire offset,
                   \* message size, plaintext offset
          enc,     \* wire bytes encoded
          w,       \* wire bytes pushed onto the carrier
          batch,   \* frames in the writer's buffer
          fin,     \* the carrier's write side: "open", "shut", "cut"
          r,       \* wire bytes read into the reader's buffer
          b,       \* wire bytes drained off its front
          pending, \* pending_binary: length of a parsed frame, 0 for none
          heads,   \* protocol cipher: headers decrypted
          body,    \* transport cipher: bytes decrypted
          got,     \* the frames decoded, 0 for garbage
          plain,   \* link: decoded bytes not yet handed to the caller
          end      \* reader: "run", "eof", "error", "invalid"

sender == <<frames, enc, w, batch, fin>>
reader == <<r, b, pending, heads, body, got, plain, end>>
vars == <<mode, user, sender, reader>>

\* Bytes a message of size n adds around itself.
Overhead(n) ==
    CASE mode = "binary" -> HEADER_SIZE
      [] mode = "base94" -> HEADER_SIMPLE + HEADER_SIZE
      [] mode = "prefix" -> IF n <= ShortMax THEN 1 ELSE 2

Init ==
    /\ \E m \in Modes : mode = m[1] /\ user = m[2]
    /\ frames = <<>> /\ enc = 0 /\ w = 0 /\ batch = 0 /\ fin = "open"
    /\ r = 0 /\ b = 0 /\ pending = 0 /\ heads = 0 /\ body = 0
    /\ got = <<>> /\ plain = 0 /\ end = "run"

----------------------------------------------------------------------------
(* Writer: run_writer, LinkWriteHalf *)

Text == IF frames = <<>> THEN 0
        ELSE frames[Len(frames)].text + frames[Len(frames)].size

\* The tunnel writer is still collecting: nothing of its batch has left.
Collecting ==
    /\ user = "tunnel" /\ batch \in 1..(Batch - 1)
    /\ w = frames[Len(frames) - batch + 1].at

\* A message is encoded.  A link takes one once the last has fully left; the
\* tunnel writer collects a batch before it starts to write.
Encode(n) ==
    /\ fin = "open" /\ Len(frames) < MaxFrames
    /\ w = enc \/ Collecting
    /\ frames' = Append(frames, [at |-> enc, size |-> n, text |-> Text])
    /\ enc' = enc + Overhead(n) + n
    /\ batch' = IF w = enc THEN 1 ELSE batch + 1
    /\ UNCHANGED <<mode, user, w, fin, reader>>

\* The carrier accepts some of the buffer.
Push(n) ==
    /\ fin = "open" /\ n \in 1..(enc - w)
    /\ w' = w + n
    /\ UNCHANGED <<mode, user, frames, enc, batch, fin, reader>>

\* Mutant: the link's shutdown does not flush first.
ShutdownAtOnce ==
    /\ fin = "open"
    /\ fin' = "shut"
    /\ UNCHANGED <<mode, user, frames, enc, w, batch, reader>>

\* The outbound channel closed, or poll_shutdown after its flush.
Shutdown ==
    /\ fin = "open" /\ w = enc
    /\ fin' = "shut"
    /\ UNCHANGED <<mode, user, frames, enc, w, batch, reader>>

\* The writer is aborted or its process ends: the carrier closes wherever
\* it is, possibly inside a frame.
Cut ==
    /\ fin = "open"
    /\ fin' = "cut"
    /\ UNCHANGED <<mode, user, frames, enc, w, batch, reader>>

----------------------------------------------------------------------------
(* Reader: poll_frame_impl under FrameReader::next and LinkReadHalf *)

Buffered == r - b

\* Frames that start, or whose body starts, at the front of the buffer.
Starting == {k \in 1..Len(frames) : frames[k].at = b}
Bodies   == {k \in 1..Len(frames) : frames[k].at + HEADER_SIZE = b}

\* The caller asks for more only when it has nothing left to serve.
Polling == end = "run" /\ plain = 0

\* No header is stashed: the front of the buffer is a header.
NeedsHeader == mode = "binary" /\ pending = 0

\* Length of the frame at the front, as the header there says.
Readable(k) ==
    CASE mode = "binary" -> Buffered >= HEADER_SIZE
      [] mode = "base94" -> Buffered >= HEADER_SIMPLE + HEADER_SIZE + frames[k].size
      [] mode = "prefix" -> Buffered >= Overhead(frames[k].size) + frames[k].size

\* The frame the front of the buffer decodes to: its header if the protocol
\* cipher is where the encoder was, its body if the transport cipher is.
HeaderOf == {k \in Starting : heads = k - 1}
BodyOf   == {k \in Bodies : frames[k].size = pending /\ frames[k].text = body}

\* Mutant: the header stays in the buffer.
ParseHeaderKeeps ==
    /\ Polling /\ NeedsHeader
    /\ Buffered >= HEADER_SIZE
    /\ IF HeaderOf # {}
         THEN /\ \E k \in HeaderOf : pending' = frames[k].size
              /\ heads' = heads + 1
              /\ UNCHANGED end
         ELSE end' = "invalid" /\ UNCHANGED <<pending, heads>>
    /\ UNCHANGED <<mode, user, sender, r, b, body, got, plain>>

\* Binary framing: three bytes are in, the header is decrypted and drained,
\* its length stashed.  Out of step it decrypts to a wrong length.
ParseHeader ==
    /\ Polling /\ NeedsHeader
    /\ Buffered >= HEADER_SIZE
    /\ IF HeaderOf # {}
         THEN /\ \E k \in HeaderOf : pending' = frames[k].size
              /\ b' = b + HEADER_SIZE
              /\ heads' = heads + 1
              /\ UNCHANGED end
         ELSE end' = "invalid" /\ UNCHANGED <<pending, b, heads>>
    /\ UNCHANGED <<mode, user, sender, r, body, got, plain>>

\* Frame k, or garbage (0) of n bytes, goes to the caller.
Deliver(k, n) ==
    /\ got' = Append(got, k)
    /\ plain' = IF user = "link" THEN n ELSE 0

\* The whole body is in: it is decrypted in place, delivered and drained.
TakeBody ==
    /\ Polling /\ mode = "binary" /\ pending # 0
    /\ Buffered >= pending
    /\ IF BodyOf # {} THEN \E k \in BodyOf : Deliver(k, pending)
                      ELSE Deliver(0, pending)
    /\ b' = b + pending
    /\ body' = body + pending
    /\ pending' = 0
    /\ UNCHANGED <<mode, user, sender, r, heads, end>>

\* Wire bytes a whole frame occupies.
Used(k) == Overhead(frames[k].size) + frames[k].size

\* The ciphers are where the encoder of frame k had them.
Aligned(k) == mode = "base94" => heads = k - 1 /\ body = frames[k].text

\* base94 and prefix framing peek the length and take the frame as a whole.
\* Away from the start of a frame the bytes are no header and are rejected.
TakeFrame ==
    /\ Polling /\ mode # "binary"
    /\ IF Starting = {}
         THEN /\ Buffered >= HEADER_SIMPLE
              /\ end' = "invalid"
              /\ UNCHANGED <<b, heads, body, got, plain>>
         ELSE \E k \in Starting :
              /\ Readable(k)
              /\ Deliver(IF Aligned(k) THEN k ELSE 0, frames[k].size)
              /\ b' = b + Used(k)
              /\ heads' = IF mode = "base94" THEN heads + 1 ELSE heads
              /\ body' = IF mode = "base94" THEN body + frames[k].size ELSE body
              /\ UNCHANGED end
    /\ UNCHANGED <<mode, user, sender, r, pending>>

\* poll_frame returned None.
Starved ==
    /\ Polling
    /\ IF mode = "binary"
         THEN IF pending = 0 THEN Buffered < HEADER_SIZE ELSE Buffered < pending
         ELSE \A k \in Starting : ~Readable(k)

\* Mutant: the cap is looked at before the buffer is decoded.
OverCapEager == end = "run" /\ Buffered > Cap

\* More than the cap without a complete frame.
OverCap == Starved /\ Buffered > Cap

\* No frame is complete: a buffer over the cap is an error (n = 0), otherwise
\* the carrier gives any number of the bytes it has.
Read(n) ==
    /\ Starved \/ OverCap
    /\ IF OverCap THEN n = 0 /\ end' = "invalid" ELSE n > 0 /\ UNCHANGED end
    /\ r' = r + n
    /\ UNCHANGED <<mode, user, sender, b, pending, heads, body, got, plain>>

\* Mutant: the link looks at its buffer only.
MidFrameBuffer == Buffered > 0

\* A frame has begun and is not complete.
MidFrame == Buffered > 0 \/ pending # 0

\* A read of zero bytes: a link tells an end inside a frame from a clean one,
\* FrameReader does not.
ReadEof ==
    /\ Starved /\ ~OverCap /\ fin # "open" /\ r = w
    /\ end' = IF user = "link" /\ MidFrame THEN "error" ELSE "eof"
    /\ UNCHANGED <<mode, user, sender, r, b, pending, heads, body, got, plain>>

\* The carrier is reset.
ReadError ==
    /\ Starved
    /\ end' = "error"
    /\ UNCHANGED <<mode, user, sender, r, b, pending, heads, body, got, plain>>

\* LinkReadHalf hands decoded bytes to a caller with a small buffer.
Serve(n) ==
    /\ end = "run" /\ n \in 1..plain
    /\ plain' = plain - n
    /\ UNCHANGED <<mode, user, sender, r, b, pending, heads, body, got, end>>

Next ==
    \/ \E n \in Sizes : Encode(n)
    \/ \E n \in 1..(enc - w) : Push(n)
    \/ Shutdown \/ Cut
    \/ ParseHeader \/ TakeBody \/ TakeFrame
    \/ \E n \in 0..(w - r) : Read(n)
    \/ ReadEof \/ ReadError
    \/ \E n \in 1..plain : Serve(n)

\* The writer task pushes what it has, the carrier delivers, the reader polls.
Fairness ==
    /\ WF_vars(\E n \in 1..(enc - w) : Push(n))
    /\ WF_vars(\E n \in 0..(w - r) : Read(n))
    /\ WF_vars(ParseHeader) /\ WF_vars(TakeBody) /\ WF_vars(TakeFrame)
    /\ WF_vars(ReadEof) /\ WF_vars(\E n \in 1..plain : Serve(n))

Spec == Init /\ [][Next]_vars /\ Fairness

----------------------------------------------------------------------------
(* Properties *)

Frame == [at : Nat, size : Sizes, text : Nat]

TypeOK ==
    /\ <<mode, user>> \in Modes
    /\ frames \in Seq(Frame) /\ Len(frames) <= MaxFrames
    /\ enc \in Nat /\ w \in 0..enc /\ batch \in 0..Batch
    /\ fin \in {"open", "shut", "cut"}
    /\ r \in 0..w /\ b \in 0..r
    /\ pending \in Nat /\ heads \in Nat /\ body \in Nat /\ plain \in Nat
    /\ got \in Seq(0..MaxFrames)
    /\ end \in {"run", "eof", "error", "invalid"}

\* The wire offset and the plaintext offset the reader has to be at.
NextAt   == IF Len(got) < Len(frames) THEN frames[Len(got) + 1].at ELSE enc
NextText == IF Len(got) < Len(frames) THEN frames[Len(got) + 1].text ELSE Text

\* At any read boundaries the reader stays in step with the encoder: what it
\* has drained is whole frames plus at most one header, every header went
\* through the protocol cipher exactly once and every body through the
\* transport cipher.
InStep ==
    /\ TypeOK
    /\ b = NextAt + (IF pending = 0 THEN 0 ELSE HEADER_SIZE)
    /\ mode # "prefix" => /\ heads = Len(got) + (IF pending = 0 THEN 0 ELSE 1)
                          /\ body = NextText
    /\ \A k \in 1..Len(got) : got[k] = k

\* Frames that are completely on the carrier.
Complete == {k \in 1..Len(frames) : frames[k].at + Overhead(frames[k].size) + frames[k].size <= w}

\* An end of stream is reported only after every complete frame, and a link
\* reports a clean one only if no frame was cut: a tunnel cut in mid-frame
\* looks closed, a link does not.
EndIsExact ==
    end = "eof" =>
        /\ \A k \in Complete : k <= Len(got)
        /\ user = "link" => \A k \in 1..Len(frames) : frames[k].at < w => k \in Complete

\* What both users build on: an ordered, gapless flow of messages whose end,
\* after an orderly shutdown, comes behind the last of them.
Flow == INSTANCE ByteStream WITH
    Flows <- {"tx"},
    sent <- [f \in {"tx"} |-> Len(frames)],
    fin  <- IF fin = "shut" THEN {"tx"} ELSE {},
    got  <- [f \in {"tx"} |-> got],
    seen <- IF end = "eof" /\ fin = "shut" THEN {"tx"} ELSE {},
    broken <- {}

\* The framing implements that flow for every way the bytes are chopped up.
ReliableFrames == Flow!Spec

\* Every accepted message comes out, unless the carrier fails first.  In
\* particular a well-behaved peer is never taken for a hostile one: neither
\* the cap nor a decoder rejects what the encoder produced, however it is
\* chopped up or piled up.
Delivered ==
    \A k \in 1..MaxFrames :
        Len(frames) >= k ~> Len(got) >= k \/ end = "error" \/ fin = "cut"
=============================================================================
