------------------------------- MODULE Framing -------------------------------
(***************************************************************************)
(* The framed stream of net.rs: write_message by the tasks that share the  *)
(* write half of a connection behind a mutex (the node's main loop and its *)
(* signal task), and read_message by the reader at the other end.  TCP     *)
(* takes and gives the bytes in pieces of any size and can end anywhere.   *)
(*                                                                         *)
(* A byte is known by the message it belongs to and its position in the    *)
(* frame.  Messages are numbered as they are written; only their size      *)
(* matters.                                                                *)
(***************************************************************************)
EXTENDS Naturals, Sequences, Options

CONSTANTS
    FrameWriters,     \* tasks that share the write half
    Sizes,            \* sizes of a payload
    PrefixBytes,      \* bytes of the length prefix
    U32,              \* values that a u32 can have
    MAX_FRAME_BYTES,
    MaxWritten        \* bound: messages written

ASSUME FramingAssumption ==
    /\ PrefixBytes \in Nat \ {0} /\ MAX_FRAME_BYTES \in Nat
    /\ U32 \in Nat \ {0}
    /\ Sizes \subseteq 0 .. U32 - 1   \* no message has 4 GiB
    /\ NONE \notin [msg : Nat, put : Nat]

VARIABLES
    writing,   \* the message that each task is in the middle of
    written,   \* the size of each message whose writing began
    complete,  \* messages whose last byte was written
    wire,      \* bytes written and not read
    conn,      \* "open", "fin", "reset"
    frame,     \* the bytes that the current read_message has collected
    received,  \* the messages that read_message returned
    outcome    \* how the last read_message ended, or "reading"

framingVars == <<writing, written, complete, wire, conn, frame, received, outcome>>

FramingInit ==
    /\ writing = [w \in FrameWriters |-> NONE]
    /\ written = <<>> /\ complete = {}
    /\ wire = <<>> /\ conn = "open"
    /\ frame = <<>> /\ received = <<>>
    /\ outcome = "reading"

-----------------------------------------------------------------------------
(* write_message.                                                          *)

\* Mutant: the tasks write without the mutex.
Unlocked(w) == writing[w] = NONE

\* The guard of the write half is held for the whole of write_message.
LockFree(w) == \A v \in FrameWriters : writing[v] = NONE

\* payload.len() as u32
LengthPrefix(size) == size % U32

Begins(w, size) ==
    /\ conn = "open" /\ LockFree(w)
    /\ Len(written) < MaxWritten
    /\ written' = Append(written, size)
    /\ writing' = [writing EXCEPT ![w] = [msg |-> Len(written) + 1, put |-> 0]]
    /\ UNCHANGED <<complete, wire, conn, frame, received, outcome>>

\* write_all, one byte further; the last one releases the mutex.
Puts(w) ==
    LET at == writing[w].put + 1
        m == writing[w].msg
        last == at = PrefixBytes + written[m]
    IN  /\ conn = "open" /\ writing[w] # NONE
        /\ wire' = Append(wire, [msg |-> m, pos |-> at])
        /\ writing' = [writing EXCEPT ![w] = IF last THEN NONE ELSE [@ EXCEPT !.put = at]]
        /\ complete' = IF last THEN complete \cup {m} ELSE complete
        /\ UNCHANGED <<written, conn, frame, received, outcome>>

\* The writer closes the connection or is aborted, perhaps inside a frame.
Closes ==
    /\ conn = "open"
    /\ conn' = "fin"
    /\ writing' = [w \in FrameWriters |-> NONE]
    /\ UNCHANGED <<written, complete, wire, frame, received, outcome>>

\* The connection is reset, and what was on its way is lost.
Resets ==
    /\ conn # "reset"
    /\ conn' = "reset"
    /\ wire' = <<>>
    /\ writing' = [w \in FrameWriters |-> NONE]
    /\ UNCHANGED <<written, complete, frame, received, outcome>>

-----------------------------------------------------------------------------
(* read_message.                                                           *)

\* u32::from_le_bytes of the prefix.
Declared == LengthPrefix(written[frame[1].msg])

\* Mutant: a frame of exactly the limit is refused.
NotBelowLimit(len) == len >= MAX_FRAME_BYTES

TooLarge(len) == len > MAX_FRAME_BYTES

PrefixRead == Len(frame) >= PrefixBytes

\* Mutant: the prefix is counted as part of the payload.
CountsPrefix == Len(frame) < Declared + PrefixBytes + 1

PayloadMissing == Len(frame) < Declared + PrefixBytes

\* One of the two read_exact calls waits for more bytes.
WantsBytes ==
    /\ outcome = "reading"
    /\ PrefixRead => ~TooLarge(Declared) /\ PayloadMissing

ReadsByte ==
    /\ WantsBytes /\ wire # <<>>
    /\ frame' = Append(frame, Head(wire))
    /\ wire' = Tail(wire)
    /\ UNCHANGED <<writing, written, complete, conn, received, outcome>>

\* Mutant: a stream with nothing to read counts as ended.
Drained == wire = <<>> /\ conn # "reset"

AtEnd == wire = <<>> /\ conn = "fin"

\* UnexpectedEof: Ok(None) in the prefix, an error in the payload.
ReadEnds ==
    /\ WantsBytes /\ AtEnd
    /\ outcome' = IF PrefixRead THEN "Io" ELSE "None"
    /\ UNCHANGED <<writing, written, complete, wire, conn, frame, received>>

ReadFails ==
    /\ WantsBytes /\ conn = "reset"
    /\ outcome' = "Io"
    /\ UNCHANGED <<writing, written, complete, wire, conn, frame, received>>

Refuses ==
    /\ outcome = "reading" /\ PrefixRead /\ TooLarge(Declared)
    /\ outcome' = "FrameTooLarge"
    /\ UNCHANGED <<writing, written, complete, wire, conn, frame, received>>

\* The bytes are the JSON that was written, or cannot be parsed.
Intact == \A p \in 1 .. Len(frame) : frame[p] = [msg |-> frame[1].msg, pos |-> p]

\* from_slice; the caller goes on to the next message.
Returns ==
    /\ outcome = "reading" /\ PrefixRead
    /\ ~TooLarge(Declared) /\ ~PayloadMissing
    /\ IF Intact
         THEN /\ received' = Append(received, frame[1].msg)
              /\ frame' = <<>>
              /\ UNCHANGED outcome
         ELSE /\ outcome' = "BadJson"
              /\ UNCHANGED <<received, frame>>
    /\ UNCHANGED <<writing, written, complete, wire, conn>>

ReadStep == ReadsByte \/ ReadEnds \/ ReadFails \/ Refuses \/ Returns

FramingNext ==
    \/ \E w \in FrameWriters : Puts(w) \/ \E size \in Sizes : Begins(w, size)
    \/ Closes \/ Resets
    \/ ReadStep

FramingSpec == FramingInit /\ [][FramingNext]_framingVars

-----------------------------------------------------------------------------
(* Properties.                                                             *)

\* Although two tasks write to the stream, which takes frames piece by piece,
\* read_message returns the messages whole, in the order in which they were
\* written, without gap or repetition, and never meets a frame it cannot parse.
MessagesArriveWhole ==
    /\ outcome # "BadJson"
    /\ Len(received) <= Len(written)
    /\ \A i \in 1 .. Len(received) : received[i] = i

\* A frame is only refused for its own size: the reader never takes bytes of a
\* payload for a prefix, and a frame of exactly MAX_FRAME_BYTES passes.
RefusedFramesAreTooLarge ==
    outcome = "FrameTooLarge" => written[Len(received) + 1] > MAX_FRAME_BYTES

\* Ok(None), after which the caller takes the connection for closed in good
\* order, means that every message written completely was returned.
CleanEndLosesNothing ==
    outcome = "None" => complete = 1 .. Len(received)

\* A message that was written is returned, unless the connection is reset or a
\* frame before it is too large, whether or not anything is written after it.
WrittenMessagesArrive ==
    \A i \in 1 .. MaxWritten :
      i \in complete ~> (Len(received) >= i \/ conn = "reset" \/ outcome = "FrameTooLarge")
=============================================================================
