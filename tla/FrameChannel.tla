---------------------------- MODULE FrameChannel ----------------------------
(***************************************************************************)
(* The byte channel between two processes (packages/ipc): a frame is its   *)
(* length and then its body, the stream cuts the bytes as it likes, and    *)
(* the decoder puts the frames together again.  The sender is the guardian *)
(* with its backlog (guardian/bin/service.mjs).                            *)
(*                                                                         *)
(* A byte is known by the frame it belongs to and its place in it.  What   *)
(* a frame says is left out, but for whether it is valid JSON and which    *)
(* value it carries: a number, or 0 for the notice that a value is too     *)
(* large to be sent.                                                       *)
(***************************************************************************)
EXTENDS Naturals, Sequences, SequencesExt

CONSTANTS HeadSize,  \* bytes of the length (4)
          MaxBytes,  \* limit of a body
          Budget,    \* limit of the bytes that wait to be written
          MaxFrames  \* bound on the frames

ASSUME FrameAssumption ==
    /\ {HeadSize, MaxBytes} \subseteq Nat \ {0}
    /\ {Budget, MaxFrames} \subseteq Nat

VARIABLES
    frames,    \* every frame the sender has put on its stream, in order
    unwritten, \* the frames whose write has not completed
    stopped,   \* selfShutdown() was called
    pipe,      \* bytes on their way
    chunks,    \* FrameDecoder.chunks
    buffered,  \* FrameDecoder.buffered
    poisoned,  \* FrameDecoder.poisoned
    draining,  \* drain() is in its loop
    received,  \* the values given to onFrame
    errors     \* calls of onError

frameVars == <<frames, unwritten, stopped, pipe, chunks, buffered, poisoned, draining,
               received, errors>>

FrameIds == 1..MaxFrames

FrameTypeOK ==
    /\ frames \in Seq([value : 0..MaxFrames, size : 0..(MaxBytes + 1), valid : BOOLEAN])
    /\ unwritten \in Seq(FrameIds)
    /\ buffered \in Nat /\ errors \in Nat
    /\ {stopped, poisoned, draining} \subseteq BOOLEAN
    /\ received \in Seq(0..MaxFrames)

FrameInit ==
    /\ frames = <<>> /\ unwritten = <<>> /\ stopped = FALSE
    /\ pipe = <<>>
    /\ chunks = <<>> /\ buffered = 0 /\ poisoned = FALSE /\ draining = FALSE
    /\ received = <<>> /\ errors = 0

-----------------------------------------------------------------------------
(* The sender. *)

FrameBytes(f) == [p \in 1..(HeadSize + frames[f].size) |-> <<f, p>>]

QueuedBytes(fs) == FoldSeq(LAMBDA f, bytes : bytes + HeadSize + frames[f].size, 0, fs)

\* send(): a value too large for a frame is replaced by a notice; a frame that
\* does not fit the backlog ends the guardian.
Send(size) ==
    /\ Len(frames) < MaxFrames
    /\ LET n == Len(frames) + 1
           fits == size <= MaxBytes
           bytes == IF fits THEN size ELSE 1
       IN IF QueuedBytes(unwritten) + HeadSize + bytes > Budget
          THEN stopped' = TRUE /\ UNCHANGED <<frames, unwritten>>
          ELSE /\ frames' = Append(frames, [value |-> IF fits THEN n ELSE 0,
                                            size |-> bytes, valid |-> TRUE])
               /\ unwritten' = Append(unwritten, n)
               /\ UNCHANGED stopped
    /\ UNCHANGED <<pipe, chunks, buffered, poisoned, draining, received, errors>>

\* Another program, or a sender without the limit, puts a frame on the stream
\* that is too large or is not JSON.
SendBad(size) ==
    /\ Len(frames) < MaxFrames
    /\ frames' = Append(frames, [value |-> Len(frames) + 1, size |-> size, valid |-> FALSE])
    /\ unwritten' = Append(unwritten, Len(frames) + 1)
    /\ UNCHANGED <<stopped, pipe, chunks, buffered, poisoned, draining, received, errors>>

\* writeFrame() has written one frame.
WriteFrame ==
    /\ unwritten # <<>>
    /\ unwritten' = Tail(unwritten)
    /\ pipe' = pipe \o FrameBytes(Head(unwritten))
    /\ UNCHANGED <<frames, stopped, chunks, buffered, poisoned, draining, received, errors>>

-----------------------------------------------------------------------------
(* The decoder. *)

\* Mutant: bytes that go beyond the first chunk are left in the next one.
Consume_FirstOnly(cs, n) ==
    IF n = 0 \/ cs = <<>> THEN cs
    ELSE IF Len(Head(cs)) <= n THEN Tail(cs)
    ELSE <<SubSeq(Head(cs), n + 1, Len(Head(cs)))>> \o Tail(cs)

\* The bytes of the first k chunks.
BytesOf(cs, k) == Len(FlattenSeq(SubSeq(cs, 1, k)))

\* consume: the chunks that lie within the n bytes are dropped whole, the one
\* after them is cut.
Consume(cs, n) ==
    LET whole == CHOOSE k \in 0..Len(cs) :
                    BytesOf(cs, k) <= n /\ (k < Len(cs) => n < BytesOf(cs, k + 1))
        first == cs[whole + 1]
    IN IF whole = Len(cs) THEN <<>>
       ELSE <<SubSeq(first, n - BytesOf(cs, whole) + 1, Len(first))>>
                \o SubSeq(cs, whole + 2, Len(cs))

\* peek, and the part of take that reads.
Peek(cs, n) == SubSeq(FlattenSeq(cs), 1, n)

\* The length in a header; bytes that are no header say anything, 0 here.
Declared(head) ==
    LET f == head[1][1]
    IN IF head = SubSeq(FrameBytes(f), 1, HeadSize) THEN frames[f].size ELSE 0

\* Bytes that are not one valid body do not parse.
Parses(body, f) ==
    /\ frames[f].valid
    /\ body = SubSeq(FrameBytes(f), HeadSize + 1, HeadSize + frames[f].size)

\* push: a chunk of any length arrives.
Push(n) ==
    /\ n \in 1..Len(pipe) /\ ~draining
    /\ pipe' = SubSeq(pipe, n + 1, Len(pipe))
    /\ IF poisoned THEN UNCHANGED <<chunks, buffered, draining>>
       ELSE /\ chunks' = Append(chunks, SubSeq(pipe, 1, n))
            /\ buffered' = buffered + n
            /\ draining' = TRUE
    /\ UNCHANGED <<frames, unwritten, stopped, poisoned, received, errors>>

Poison ==
    /\ poisoned' = TRUE /\ draining' = FALSE
    /\ chunks' = <<>> /\ buffered' = 0
    /\ errors' = errors + 1
    /\ UNCHANGED received

\* One turn of the loop of drain().
Drain ==
    /\ draining
    /\ IF buffered < HeadSize
       THEN draining' = FALSE /\ UNCHANGED <<chunks, buffered, poisoned, received, errors>>
       ELSE LET head == Peek(chunks, HeadSize)
                len == Declared(head)
                rest == Consume(chunks, HeadSize)
                body == Peek(rest, len)
                f == head[1][1]
            IN IF len > MaxBytes THEN Poison
               ELSE IF buffered < HeadSize + len
               THEN draining' = FALSE
                    /\ UNCHANGED <<chunks, buffered, poisoned, received, errors>>
               ELSE IF ~Parses(body, f) THEN Poison
               ELSE /\ chunks' = Consume(rest, len)
                    /\ buffered' = buffered - HeadSize - len
                    /\ received' = Append(received, frames[f].value)
                    /\ UNCHANGED <<poisoned, draining, errors>>
    /\ UNCHANGED <<frames, unwritten, stopped, pipe>>

FrameNext ==
    \/ \E size \in 0..(MaxBytes + 1) : Send(size) \/ SendBad(size)
    \/ WriteFrame
    \/ (\E n \in 1..Len(pipe) : Push(n))
    \/ Drain

FrameSpec == FrameInit /\ [][FrameNext]_frameVars

-----------------------------------------------------------------------------
\* Properties.

\* The values before the first frame that is too large or does not parse.
Sound(f) == frames[f].valid /\ frames[f].size <= MaxBytes

Deliverable ==
    LET bad == {f \in DOMAIN frames : ~Sound(f)}
        last == IF bad = {} THEN Len(frames) ELSE (CHOOSE f \in bad : \A g \in bad : f <= g) - 1
    IN [f \in 1..last |-> frames[f].value]

\* However the stream cuts the bytes, the receiver is given the values of the
\* sender, each once and in order, up to the first bad frame and nothing after
\* it; with the last byte it has them all (packages/ipc/src/index.ts:126).
FramesArriveWhole ==
    /\ IsPrefix(received, Deliverable)
    /\ unwritten = <<>> /\ pipe = <<>> /\ ~draining => received = Deliverable
    /\ errors = (IF poisoned THEN 1 ELSE 0)
=============================================================================
