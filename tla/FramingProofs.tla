--------------------------- MODULE FramingProofs ---------------------------
(***************************************************************************)
(* Proofs about the framed stream, for every number of writers, every set  *)
(* of sizes and every limit.  The bytes on the wire are the ones that      *)
(* follow the bytes read so far, without gap, up to the place where the    *)
(* writer that holds the mutex goes on.                                    *)
(***************************************************************************)
EXTENDS Framing, SequenceTheorems, TLAPS

Byte == [msg : Nat, pos : Nat]

FrameLen(m) == PrefixBytes + written[m]

\* The byte after byte b of the stream.
Following(b) ==
    IF b.pos = FrameLen(b.msg) THEN [msg |-> b.msg + 1, pos |-> 1]
    ELSE [msg |-> b.msg, pos |-> b.pos + 1]

\* The message that is being read.
Current == Len(received) + 1

NextRead ==
    IF Len(frame) > 0 /\ Len(frame) = FrameLen(Current)
      THEN [msg |-> Current + 1, pos |-> 1]
      ELSE [msg |-> Current, pos |-> Len(frame) + 1]

EndOfStream == IF wire = <<>> THEN NextRead ELSE Following(wire[Len(wire)])

FramingTypes ==
    /\ writing \in [FrameWriters -> {NONE} \cup [msg : Nat, put : Nat]]
    /\ written \in Seq(Nat)
    /\ \A i \in 1 .. Len(written) : LengthPrefix(written[i]) = written[i]
    /\ wire \in Seq(Byte) /\ frame \in Seq(Byte)
    /\ received \in Seq(Nat)
    /\ conn \in {"open", "fin", "reset"}

WireInv ==
    /\ \A i \in 1 .. Len(wire) :
         /\ wire[i].msg \in 1 .. Len(written)
         /\ wire[i].pos \in 1 .. FrameLen(wire[i].msg)
    /\ \A i \in 1 .. (Len(wire) - 1) : wire[i + 1] = Following(wire[i])
    /\ wire # <<>> => wire[1] = NextRead

FrameInv ==
    /\ \A i \in 1 .. Len(frame) : frame[i] = [msg |-> Current, pos |-> i]
    /\ Len(frame) > 0 => Current <= Len(written) /\ Len(frame) <= FrameLen(Current)

WriterInv ==
    /\ conn # "open" => \A w \in FrameWriters : writing[w] = NONE
    /\ \A v, w \in FrameWriters : writing[v] # NONE /\ writing[w] # NONE => v = w
    /\ \A w \in FrameWriters : writing[w] # NONE =>
         /\ writing[w].msg = Len(written) /\ Len(written) > 0
         /\ writing[w].put < FrameLen(Len(written))
         /\ EndOfStream = [msg |-> Len(written), pos |-> writing[w].put + 1]
    /\ conn = "open" /\ (\A w \in FrameWriters : writing[w] = NONE) =>
         EndOfStream = [msg |-> Len(written) + 1, pos |-> 1]

CompleteInv ==
    /\ conn # "reset" => complete = 1 .. (EndOfStream.msg - 1)
    /\ outcome = "None" => conn # "open" /\ complete = 1 .. Len(received)

ReceivedInv ==
    /\ Len(received) <= Len(written)
    /\ \A i \in 1 .. Len(received) : received[i] = i

OutcomeInv ==
    /\ outcome # "BadJson"
    /\ outcome = "FrameTooLarge" =>
         Current <= Len(written) /\ written[Current] > MAX_FRAME_BYTES

FramingInv ==
    /\ FramingTypes /\ WireInv /\ FrameInv /\ WriterInv
    /\ CompleteInv /\ ReceivedInv /\ OutcomeInv

-----------------------------------------------------------------------------

\* The cast to u32 in write_message keeps the length of every message.
LEMMA LengthsFit == ASSUME NEW size \in Sizes PROVE LengthPrefix(size) = size
  BY FramingAssumption DEF LengthPrefix

\* A new message is numbered after all others, and no byte before it changes.
LEMMA BeginsKeepsInv ==
    ASSUME FramingInv, NEW w \in FrameWriters, NEW size \in Sizes, Begins(w, size)
    PROVE  FramingInv'
  <1> USE FramingAssumption
  <1> DEFINE fresh == [msg |-> Len(written) + 1, put |-> 0]
  <1>1. written \in Seq(Nat) /\ wire \in Seq(Byte) /\ frame \in Seq(Byte) /\ received \in Seq(Nat)
    BY DEF FramingInv, FramingTypes
  <1>0. Len(written) \in Nat /\ Len(wire) \in Nat /\ Len(frame) \in Nat /\ Len(received) \in Nat
    BY <1>1
  <1>2. /\ written' \in Seq(Nat) /\ Len(written') = Len(written) + 1
        /\ written'[Len(written) + 1] = size
        /\ \A m \in 1 .. Len(written) : written'[m] = written[m]
    BY <1>1 DEF Begins
  <1>3. /\ wire' = wire /\ frame' = frame /\ received' = received /\ conn' = conn
        /\ outcome' = outcome /\ complete' = complete /\ conn = "open"
        /\ \A v \in FrameWriters : writing[v] = NONE
    BY DEF Begins, LockFree
  <1>4. /\ writing \in [FrameWriters -> {NONE} \cup [msg : Nat, put : Nat]]
        /\ writing' = [writing EXCEPT ![w] = fresh]
    BY DEF FramingInv, FramingTypes, Begins
  <1>5. fresh \in [msg : Nat, put : Nat] /\ fresh # NONE
    BY <1>1
  <1>6. writing' \in [FrameWriters -> {NONE} \cup [msg : Nat, put : Nat]]
    BY <1>4, <1>5
  <1>7. \A m \in 1 .. Len(written) : FrameLen(m)' = FrameLen(m)
    BY <1>2 DEF FrameLen
  <1>8. \A i \in 1 .. Len(wire) : Following(wire[i])' = Following(wire[i])
    BY <1>1, <1>3, <1>7 DEF Following, FramingInv, WireInv
  <1>9. Current' = Current /\ Current \in Nat
    BY <1>1, <1>3 DEF Current
  <1>10. NextRead' = NextRead
    <2>1. CASE Len(frame) > 0
      <3>1. Current \in 1 .. Len(written)
        BY <1>0, <2>1 DEF FramingInv, FrameInv, Current
      <3>2. FrameLen(Current)' = FrameLen(Current)
        BY <1>7, <1>9, <3>1 DEF FrameLen
      <3> QED  BY <1>3, <1>9, <3>2 DEF NextRead
    <2>2. CASE ~(Len(frame) > 0)
      BY <1>3, <1>9, <2>2 DEF NextRead
    <2> QED  BY <2>1, <2>2
  <1>11. EndOfStream' = EndOfStream
    BY <1>1, <1>3, <1>8, <1>10 DEF EndOfStream
  <1>12. EndOfStream = [msg |-> Len(written) + 1, pos |-> 1]
    BY <1>3 DEF FramingInv, WriterInv
  <1>13. FramingTypes'
    <2>1. \A i \in 1 .. Len(written') : LengthPrefix(written'[i]) = written'[i]
      <3>1. \A i \in 1 .. Len(written) : LengthPrefix(written[i]) = written[i]
        BY DEF FramingInv, FramingTypes
      <3>2. LengthPrefix(written'[Len(written) + 1]) = written'[Len(written) + 1]
        BY <1>2, LengthsFit
      <3> TAKE i \in 1 .. Len(written')
      <3>3. CASE i = Len(written) + 1
        BY <3>2, <3>3
      <3>4. CASE i # Len(written) + 1
        <4>1. i \in 1 .. Len(written)
          BY <1>0, <1>2, <3>4
        <4>2. written'[i] = written[i]
          BY <1>2, <4>1
        <4> QED  BY <3>1, <4>1, <4>2
      <3> QED  BY <3>3, <3>4
    <2> QED  BY <1>1, <1>2, <1>3, <1>6, <2>1 DEF FramingInv, FramingTypes
  <1>14. WireInv'
    <2>1. \A i \in 1 .. Len(wire) :
            wire'[i].msg \in 1 .. Len(written') /\ wire'[i].pos \in 1 .. FrameLen(wire[i].msg)'
      <3> SUFFICES ASSUME NEW i \in 1 .. Len(wire)
                   PROVE  /\ wire[i].msg \in 1 .. Len(written')
                          /\ wire[i].pos \in 1 .. FrameLen(wire[i].msg)'
        BY <1>3
      <3>1. wire[i].msg \in 1 .. Len(written) /\ wire[i].pos \in 1 .. FrameLen(wire[i].msg)
        BY DEF FramingInv, WireInv
      <3>2. FrameLen(wire[i].msg)' = FrameLen(wire[i].msg)
        BY <1>3, <1>7, <3>1
      <3> QED  BY <1>0, <1>2, <3>1, <3>2
    <2>2. \A i \in 1 .. (Len(wire) - 1) : wire[i + 1] = Following(wire[i])'
      BY <1>1, <1>8 DEF FramingInv, WireInv
    <2> QED  BY <1>3, <1>10, <2>1, <2>2 DEF FramingInv, WireInv
  <1>15. FrameInv'
    <2>1. Len(frame) > 0 => Current \in 1 .. Len(written)
      BY <1>0 DEF FramingInv, FrameInv, Current
    <2>2. Len(frame) > 0 => FrameLen(Current)' = FrameLen(Current)
      BY <1>7, <1>9, <2>1 DEF FrameLen
    <2>3. Len(frame') > 0 => Current' <= Len(written') /\ Len(frame') <= FrameLen(Current)'
      BY <1>0, <1>2, <1>3, <1>9, <2>1, <2>2 DEF FramingInv, FrameInv
    <2>4. \A i \in 1 .. Len(frame') : frame'[i] = [msg |-> Current', pos |-> i]
      BY <1>3, <1>9 DEF FramingInv, FrameInv
    <2> QED  BY <2>3, <2>4 DEF FrameInv
  <1>16. WriterInv'
    <2>1. \A v \in FrameWriters : writing'[v] # NONE => v = w
      BY <1>3, <1>4
    <2>2. writing'[w] = fresh
      BY <1>4
    <2>3. fresh.msg = Len(written') /\ fresh.put = 0 /\ Len(written') > 0
      BY <1>1, <1>2
    <2>4. 0 < FrameLen(Len(written))'
      BY <1>1, <1>2 DEF FrameLen
    <2>5. EndOfStream' = [msg |-> Len(written'), pos |-> fresh.put + 1]
      BY <1>2, <1>11, <1>12
    <2> QED  BY <1>3, <1>5, <2>1, <2>2, <2>3, <2>4, <2>5 DEF WriterInv
  <1>17. CompleteInv'
    BY <1>3, <1>11 DEF FramingInv, CompleteInv
  <1>18. ReceivedInv'
    <2>1. Len(received') <= Len(written')
      BY <1>0, <1>2, <1>3 DEF FramingInv, ReceivedInv
    <2>2. \A i \in 1 .. Len(received') : received'[i] = i
      BY <1>3 DEF FramingInv, ReceivedInv
    <2> QED  BY <2>1, <2>2 DEF ReceivedInv
  <1>19. OutcomeInv'
    <2>1. ASSUME outcome = "FrameTooLarge"
          PROVE  Current <= Len(written') /\ written'[Current] > MAX_FRAME_BYTES
      <3>1. Current \in 1 .. Len(written) /\ written[Current] > MAX_FRAME_BYTES
        BY <1>0, <2>1 DEF FramingInv, OutcomeInv, Current
      <3> QED  BY <1>0, <1>2, <3>1
    <2> QED  BY <1>3, <1>9, <2>1 DEF FramingInv, OutcomeInv
  <1> QED  BY <1>13, <1>14, <1>15, <1>16, <1>17, <1>18, <1>19 DEF FramingInv

\* The byte that the holder of the mutex writes continues the stream.
LEMMA PutsKeepsInv ==
    ASSUME FramingInv, NEW w \in FrameWriters, Puts(w)
    PROVE  FramingInv'
  <1> USE FramingAssumption
  <1> DEFINE m == writing[w].msg
             at == writing[w].put + 1
             b == [msg |-> m, pos |-> at]
             last == at = PrefixBytes + written[m]
  <1>1. /\ written \in Seq(Nat) /\ wire \in Seq(Byte) /\ frame \in Seq(Byte) /\ received \in Seq(Nat)
        /\ writing \in [FrameWriters -> {NONE} \cup [msg : Nat, put : Nat]]
    BY DEF FramingInv, FramingTypes
  <1>0. Len(written) \in Nat /\ Len(wire) \in Nat /\ Len(frame) \in Nat /\ Len(received) \in Nat
    BY <1>1
  <1>2. /\ conn = "open" /\ writing[w] # NONE
        /\ wire' = Append(wire, b)
        /\ writing' = [writing EXCEPT ![w] = IF last THEN NONE ELSE [@ EXCEPT !.put = at]]
        /\ complete' = IF last THEN complete \cup {m} ELSE complete
    BY DEF Puts
  <1>3. /\ written' = written /\ conn' = conn /\ frame' = frame
        /\ received' = received /\ outcome' = outcome
    BY DEF Puts
  <1>4. writing[w] \in [msg : Nat, put : Nat] /\ m \in Nat /\ at \in Nat /\ at > 0
    <2>1. writing[w] \in {NONE} \cup [msg : Nat, put : Nat] /\ writing[w] # NONE
      BY DEF FramingInv, FramingTypes, Puts
    <2> QED  BY <2>1
  <1>5. /\ m = Len(written) /\ m > 0 /\ at <= FrameLen(m)
        /\ EndOfStream = b
    <2>1. /\ m = Len(written) /\ m > 0 /\ writing[w].put < FrameLen(m)
          /\ EndOfStream = [msg |-> m, pos |-> at]
      BY <1>2 DEF FramingInv, WriterInv
    <2>2. FrameLen(m) \in Nat
      BY <1>0, <1>1, <2>1 DEF FrameLen
    <2> QED  BY <1>4, <2>1, <2>2
  <1>6. b \in Byte /\ b.msg = m /\ b.pos = at
    BY <1>4 DEF Byte
  <1>7. /\ wire' \in Seq(Byte) /\ Len(wire') = Len(wire) + 1 /\ wire' # <<>>
        /\ wire'[Len(wire) + 1] = b
        /\ \A i \in 1 .. Len(wire) : wire'[i] = wire[i]
    <2>1. wire \in Seq(Byte) /\ wire' = Append(wire, b) /\ b \in Byte
      BY <1>1, <1>2, <1>6
    <2> HIDE DEF b
    <2> QED  BY <2>1
  <1>8. /\ \A k : FrameLen(k)' = FrameLen(k)
        /\ \A k : Following(k)' = Following(k)
        /\ Current' = Current /\ NextRead' = NextRead
    BY <1>3 DEF FrameLen, Following, Current, NextRead
  <1>9. EndOfStream' = Following(b)
    BY <1>1, <1>7, <1>8 DEF EndOfStream
  <1>10. Following(b) = IF last THEN [msg |-> m + 1, pos |-> 1] ELSE [msg |-> m, pos |-> at + 1]
    BY <1>6 DEF Following, FrameLen
  <1>11. /\ \A v \in FrameWriters : v # w => writing'[v] = NONE
         /\ writing'[w] = IF last THEN NONE ELSE [msg |-> m, put |-> at]
    BY <1>1, <1>2, <1>4 DEF FramingInv, WriterInv
  <1>12. FramingTypes'
    <2>1. writing' \in [FrameWriters -> {NONE} \cup [msg : Nat, put : Nat]]
      BY <1>1, <1>2, <1>4
    <2> QED  BY <1>1, <1>2, <1>3, <1>7, <2>1 DEF FramingTypes, FramingInv
  <1>13. WireInv'
    <2>1. \A i \in 1 .. Len(wire') :
            wire'[i].msg \in 1 .. Len(written) /\ wire'[i].pos \in 1 .. FrameLen(wire'[i].msg)
      <3>1. b.msg \in 1 .. Len(written) /\ b.pos \in 1 .. FrameLen(b.msg)
        BY <1>1, <1>4, <1>5, <1>6 DEF FrameLen
      <3> SUFFICES ASSUME NEW i \in 1 .. Len(wire')
                   PROVE  wire'[i].msg \in 1 .. Len(written) /\ wire'[i].pos \in 1 .. FrameLen(wire'[i].msg)
        OBVIOUS
      <3>2. CASE i = Len(wire) + 1
        BY <1>7, <3>1, <3>2
      <3>3. CASE i \in 1 .. Len(wire)
        BY <1>7, <3>3 DEF FramingInv, WireInv
      <3> QED  BY <1>0, <1>7, <3>2, <3>3
    <2>2. \A i \in 1 .. (Len(wire') - 1) : wire'[i + 1] = Following(wire'[i])
      <3> SUFFICES ASSUME NEW i \in 1 .. Len(wire) PROVE wire'[i + 1] = Following(wire'[i])
        BY <1>1, <1>7
      <3>1. CASE i = Len(wire)
        <4>1. b = Following(wire[Len(wire)])
          BY <1>1, <1>5, <3>1 DEF EndOfStream
        <4> QED  BY <1>7, <3>1, <4>1
      <3>2. CASE i # Len(wire)
        <4>1. i \in 1 .. (Len(wire) - 1) /\ i + 1 \in 1 .. Len(wire)
          BY <1>1, <3>2
        <4>2. wire[i + 1] = Following(wire[i])
          BY <4>1 DEF FramingInv, WireInv
        <4> QED  BY <1>7, <4>1, <4>2
      <3> QED  BY <3>1, <3>2
    <2>3. wire'[1] = NextRead
      <3>1. CASE wire = <<>>
        BY <1>5, <1>7, <3>1 DEF EndOfStream
      <3>2. CASE wire # <<>>
        <4>1. 1 \in 1 .. Len(wire)
          BY <1>1, <3>2
        <4> QED  BY <1>7, <3>2, <4>1 DEF FramingInv, WireInv
      <3> QED  BY <3>1, <3>2
    <2> QED  BY <1>3, <1>8, <2>1, <2>2, <2>3 DEF WireInv
  <1>14. FrameInv'
    BY <1>3, <1>8 DEF FramingInv, FrameInv
  <1>15. WriterInv'
    <2>1. CASE last
      <3>1. \A v \in FrameWriters : writing'[v] = NONE
        BY <1>11, <2>1
      <3>2. EndOfStream' = [msg |-> Len(written) + 1, pos |-> 1]
        BY <1>5, <1>9, <1>10, <2>1
      <3> QED  BY <1>3, <3>1, <3>2 DEF WriterInv
    <2>2. CASE ~last
      <3>1. at < FrameLen(m)
        BY <1>1, <1>4, <1>5, <2>2 DEF FrameLen
      <3>2. writing'[w] = [msg |-> m, put |-> at]
        BY <1>11, <2>2
      <3>3. writing'[w].msg = m /\ writing'[w].put = at /\ writing'[w] # NONE
        BY <1>4, <3>2
      <3>4. EndOfStream' = [msg |-> m, pos |-> at + 1]
        BY <1>9, <1>10, <2>2
      <3> QED  BY <1>2, <1>3, <1>5, <1>8, <1>11, <3>1, <3>3, <3>4 DEF WriterInv
    <2> QED  BY <2>1, <2>2
  <1>16. CompleteInv'
    <2>1. EndOfStream.msg = m
      BY <1>5, <1>6
    <2>2. complete = 1 .. (m - 1)
      BY <1>2, <2>1 DEF FramingInv, CompleteInv
    <2>3. CASE last
      <3>1. EndOfStream'.msg = m + 1
        BY <1>9, <1>10, <2>3
      <3>2. complete' = 1 .. m
        BY <1>2, <1>4, <1>5, <2>2, <2>3
      <3>3. complete' = 1 .. (EndOfStream'.msg - 1)
        BY <1>4, <3>1, <3>2
      <3> QED  BY <1>2, <1>3, <3>3 DEF FramingInv, CompleteInv
    <2>4. CASE ~last
      <3>1. EndOfStream'.msg = m
        BY <1>9, <1>10, <2>4
      <3> QED  BY <1>2, <1>3, <2>2, <2>4, <3>1 DEF FramingInv, CompleteInv
    <2> QED  BY <2>3, <2>4
  <1>17. ReceivedInv' /\ OutcomeInv'
    BY <1>3, <1>8 DEF FramingInv, ReceivedInv, OutcomeInv
  <1> QED  BY <1>12, <1>13, <1>14, <1>15, <1>16, <1>17 DEF FramingInv

\* The end of the connection takes the writers along, and a reset the wire.
LEMMA EndKeepsInv ==
    ASSUME FramingInv, Closes \/ Resets
    PROVE  FramingInv'
  <1>1. /\ written' = written /\ complete' = complete /\ frame' = frame
        /\ received' = received /\ outcome' = outcome
        /\ writing' = [w \in FrameWriters |-> NONE]
    BY DEF Closes, Resets
  <1>2. /\ \A k : FrameLen(k)' = FrameLen(k)
        /\ \A k : Following(k)' = Following(k)
        /\ Current' = Current /\ NextRead' = NextRead
    BY <1>1 DEF FrameLen, Following, Current, NextRead
  <1>3. FrameInv' /\ ReceivedInv' /\ OutcomeInv'
    BY <1>1, <1>2 DEF FramingInv, FrameInv, ReceivedInv, OutcomeInv
  <1>4. CASE Closes
    <2>1. wire' = wire /\ conn' = "fin" /\ conn = "open"
      BY <1>4 DEF Closes
    <2>2. EndOfStream' = EndOfStream
      BY <1>2, <2>1 DEF EndOfStream
    <2>3. FramingTypes'
      BY <1>1, <2>1 DEF FramingInv, FramingTypes
    <2>4. WireInv'
      BY <1>1, <1>2, <2>1 DEF FramingInv, WireInv
    <2>5. WriterInv' /\ CompleteInv'
      BY <1>1, <2>1, <2>2 DEF FramingInv, WriterInv, CompleteInv
    <2> QED  BY <1>3, <2>3, <2>4, <2>5 DEF FramingInv
  <1>5. CASE Resets
    <2>1. wire' = <<>> /\ conn' = "reset"
      BY <1>5 DEF Resets
    <2>2. FramingTypes'
      BY <1>1, <2>1 DEF FramingInv, FramingTypes
    <2>3. WireInv'
      BY <2>1 DEF WireInv
    <2>4. WriterInv' /\ CompleteInv'
      BY <1>1, <2>1 DEF FramingInv, WriterInv, CompleteInv
    <2> QED  BY <1>3, <2>2, <2>3, <2>4 DEF FramingInv
  <1> QED  BY <1>4, <1>5

\* What read_message waits for is the next byte of the current frame.
LEMMA WantsCurrent ==
    ASSUME FramingInv, WantsBytes
    PROVE  NextRead = [msg |-> Current, pos |-> Len(frame) + 1]
  <1> USE FramingAssumption
  <1>1. /\ written \in Seq(Nat) /\ frame \in Seq(Byte) /\ received \in Seq(Nat)
        /\ Len(frame) \in Nat /\ Len(received) \in Nat /\ Len(written) \in Nat
    BY DEF FramingInv, FramingTypes
  <1>2. CASE Len(frame) > 0
    <2>1. Current \in 1 .. Len(written) /\ frame[1] = [msg |-> Current, pos |-> 1]
      BY <1>1, <1>2 DEF FramingInv, FrameInv, Current
    <2>2. Declared = written[Current] /\ Declared \in Nat
      BY <1>1, <2>1 DEF Declared, FramingInv, FramingTypes
    <2>3. Len(frame) # FrameLen(Current)
      BY <1>1, <2>2 DEF WantsBytes, PrefixRead, PayloadMissing, FrameLen
    <2> QED  BY <2>3 DEF NextRead
  <1>3. CASE ~(Len(frame) > 0)
    BY <1>3 DEF NextRead
  <1> QED  BY <1>2, <1>3

\* read_message takes the next byte of the stream into the current frame.
LEMMA ReadsByteKeepsInv ==
    ASSUME FramingInv, ReadsByte
    PROVE  FramingInv'
  <1> USE FramingAssumption
  <1> DEFINE b == wire[1]
  <1>1. /\ written \in Seq(Nat) /\ wire \in Seq(Byte) /\ frame \in Seq(Byte) /\ received \in Seq(Nat)
    BY DEF FramingInv, FramingTypes
  <1>2. /\ Len(written) \in Nat /\ Len(wire) \in Nat /\ Len(frame) \in Nat /\ Len(received) \in Nat
        /\ Current \in Nat
    BY <1>1 DEF Current
  <1>3. /\ wire # <<>> /\ outcome = "reading" /\ outcome' = outcome
        /\ writing' = writing /\ written' = written /\ complete' = complete
        /\ conn' = conn /\ received' = received
    BY DEF ReadsByte, WantsBytes
  <1>4. Len(wire) > 0 /\ b \in Byte
    BY <1>1, <1>3
  <1>5. /\ frame' \in Seq(Byte) /\ Len(frame') = Len(frame) + 1
        /\ frame'[Len(frame) + 1] = b
        /\ \A i \in 1 .. Len(frame) : frame'[i] = frame[i]
    BY <1>1, <1>3, <1>4 DEF ReadsByte
  <1>6. /\ wire' \in Seq(Byte) /\ Len(wire') = Len(wire) - 1
        /\ \A i \in 1 .. Len(wire') : wire'[i] = wire[i + 1]
    BY <1>1, <1>3 DEF ReadsByte
  <1>7. /\ \A k : FrameLen(k)' = FrameLen(k)
        /\ \A k : Following(k)' = Following(k)
        /\ Current' = Current
    BY <1>3 DEF FrameLen, Following, Current
  <1>8. b = [msg |-> Current, pos |-> Len(frame) + 1]
    BY <1>3, WantsCurrent DEF ReadsByte, FramingInv, WireInv
  <1>9. b.msg = Current /\ b.pos = Len(frame) + 1
    BY <1>8
  <1>10. Current \in 1 .. Len(written) /\ Len(frame) + 1 <= FrameLen(Current)
    <2>1. b.msg \in 1 .. Len(written) /\ b.pos \in 1 .. FrameLen(b.msg)
      BY <1>2, <1>4 DEF FramingInv, WireInv
    <2>2. FrameLen(Current) \in Nat
      <3>1. Current \in 1 .. Len(written)
        BY <1>9, <2>1
      <3>2. written[Current] \in Nat
        BY <1>1, <3>1
      <3> QED  BY <3>2 DEF FrameLen
    <2> QED  BY <1>2, <1>9, <2>1, <2>2
  <1>11. NextRead' = Following(b)
    <2>1. NextRead' = IF Len(frame) + 1 = FrameLen(Current)
                        THEN [msg |-> Current + 1, pos |-> 1]
                        ELSE [msg |-> Current, pos |-> Len(frame) + 2]
      BY <1>2, <1>5, <1>7 DEF NextRead
    <2> QED  BY <1>2, <1>9, <2>1 DEF Following
  <1>12. EndOfStream' = EndOfStream
    <2>1. CASE Len(wire) = 1
      <3>1. wire' = <<>>
        BY <1>6, <2>1
      <3> QED  BY <1>3, <1>11, <2>1, <3>1 DEF EndOfStream
    <2>2. CASE Len(wire) # 1
      <3>1. Len(wire') \in 1 .. Len(wire') /\ Len(wire') + 1 = Len(wire) /\ wire' # <<>>
        BY <1>2, <1>4, <1>6, <2>2
      <3>2. wire'[Len(wire')] = wire[Len(wire)]
        BY <1>6, <3>1
      <3> QED  BY <1>3, <1>7, <3>1, <3>2 DEF EndOfStream
    <2> QED  BY <2>1, <2>2
  <1>13. FramingTypes'
    BY <1>3, <1>5, <1>6 DEF FramingInv, FramingTypes
  <1>14. WireInv'
    <2>1. \A i \in 1 .. Len(wire') :
            wire'[i].msg \in 1 .. Len(written) /\ wire'[i].pos \in 1 .. FrameLen(wire'[i].msg)
      <3> SUFFICES ASSUME NEW i \in 1 .. Len(wire')
                   PROVE  wire'[i].msg \in 1 .. Len(written) /\ wire'[i].pos \in 1 .. FrameLen(wire'[i].msg)
        OBVIOUS
      <3>1. i + 1 \in 1 .. Len(wire) /\ wire'[i] = wire[i + 1]
        BY <1>2, <1>6
      <3> QED  BY <3>1 DEF FramingInv, WireInv
    <2>2. \A i \in 1 .. (Len(wire') - 1) : wire'[i + 1] = Following(wire'[i])
      <3> SUFFICES ASSUME NEW i \in 1 .. (Len(wire') - 1) PROVE wire'[i + 1] = Following(wire'[i])
        OBVIOUS
      <3>1. /\ i \in 1 .. Len(wire') /\ i + 1 \in 1 .. Len(wire')
            /\ i + 1 \in 1 .. (Len(wire) - 1)
        BY <1>2, <1>6
      <3>2. wire'[i] = wire[i + 1] /\ wire'[i + 1] = wire[(i + 1) + 1]
        BY <1>6, <3>1
      <3> QED  BY <3>1, <3>2 DEF FramingInv, WireInv
    <2>3. wire' # <<>> => wire'[1] = Following(b)
      <3> SUFFICES ASSUME wire' # <<>> PROVE wire'[1] = Following(b)
        OBVIOUS
      <3>1. 1 \in 1 .. Len(wire')
        BY <1>6
      <3>2. 1 \in 1 .. (Len(wire) - 1) /\ wire'[1] = wire[1 + 1]
        BY <1>2, <1>6, <3>1
      <3> QED  BY <3>2 DEF FramingInv, WireInv
    <2> QED  BY <1>3, <1>7, <1>11, <2>1, <2>2, <2>3 DEF WireInv
  <1>15. FrameInv'
    <2>1. \A i \in 1 .. Len(frame') : frame'[i] = [msg |-> Current, pos |-> i]
      <3> SUFFICES ASSUME NEW i \in 1 .. Len(frame') PROVE frame'[i] = [msg |-> Current, pos |-> i]
        OBVIOUS
      <3>1. CASE i = Len(frame) + 1
        BY <1>5, <1>8, <3>1
      <3>2. CASE i \in 1 .. Len(frame)
        BY <1>5, <3>2 DEF FramingInv, FrameInv
      <3> QED  BY <1>2, <1>5, <3>1, <3>2
    <2>2. Current <= Len(written) /\ Len(frame') <= FrameLen(Current)
      BY <1>2, <1>5, <1>10
    <2> QED  BY <1>3, <1>7, <2>1, <2>2 DEF FrameInv
  <1>16. WriterInv' /\ CompleteInv'
    BY <1>3, <1>7, <1>12 DEF FramingInv, WriterInv, CompleteInv
  <1>17. ReceivedInv' /\ OutcomeInv'
    BY <1>3, <1>7 DEF FramingInv, ReceivedInv, OutcomeInv
  <1> QED  BY <1>13, <1>14, <1>15, <1>16, <1>17 DEF FramingInv

\* read_message ends without a message.
LEMMA EndingKeepsInv ==
    ASSUME FramingInv, ReadEnds \/ ReadFails \/ Refuses
    PROVE  FramingInv'
  <1> USE FramingAssumption
  <1>1. /\ writing' = writing /\ written' = written /\ complete' = complete /\ wire' = wire
        /\ conn' = conn /\ frame' = frame /\ received' = received
    BY DEF ReadEnds, ReadFails, Refuses
  <1>2. /\ \A k : FrameLen(k)' = FrameLen(k)
        /\ \A k : Following(k)' = Following(k)
        /\ Current' = Current /\ NextRead' = NextRead /\ EndOfStream' = EndOfStream
    BY <1>1 DEF FrameLen, Following, Current, NextRead, EndOfStream
  <1>3. FramingTypes' /\ WireInv' /\ FrameInv' /\ WriterInv' /\ ReceivedInv'
    BY <1>1, <1>2 DEF FramingInv, FramingTypes, WireInv, FrameInv, WriterInv, ReceivedInv
  <1>4. /\ Len(frame) \in Nat /\ Len(received) \in Nat /\ Len(written) \in Nat
    BY DEF FramingInv, FramingTypes
  <1>5. CompleteInv'
    <2>1. ASSUME outcome' = "None" PROVE conn # "open" /\ complete = 1 .. Len(received)
      <3>1. ReadEnds /\ WantsBytes /\ AtEnd
        BY <2>1 DEF ReadEnds, ReadFails, Refuses
      <3>2. wire = <<>> /\ conn = "fin"
        BY <3>1 DEF AtEnd
      <3>3. EndOfStream = [msg |-> Current, pos |-> Len(frame) + 1]
        BY <3>1, <3>2, WantsCurrent DEF EndOfStream
      <3>4. complete = 1 .. (Current - 1)
        BY <3>2, <3>3 DEF FramingInv, CompleteInv
      <3> QED  BY <1>4, <3>2, <3>4 DEF Current
    <2> QED  BY <1>1, <1>2, <2>1 DEF FramingInv, CompleteInv
  <1>6. OutcomeInv'
    <2>1. outcome' # "BadJson"
      BY DEF ReadEnds, ReadFails, Refuses
    <2>2. ASSUME outcome' = "FrameTooLarge"
          PROVE  Current <= Len(written) /\ written[Current] > MAX_FRAME_BYTES
      <3>1. PrefixRead /\ TooLarge(Declared)
        BY <2>2 DEF ReadEnds, ReadFails, Refuses
      <3>2. Len(frame) > 0
        BY <1>4, <3>1 DEF PrefixRead
      <3>3. Current <= Len(written) /\ frame[1] = [msg |-> Current, pos |-> 1]
        BY <1>4, <3>2 DEF FramingInv, FrameInv
      <3>4. Declared = written[Current]
        BY <1>4, <3>3 DEF Declared, Current, FramingInv, FramingTypes
      <3> QED  BY <3>1, <3>3, <3>4 DEF TooLarge
    <2> QED  BY <1>1, <1>2, <2>1, <2>2 DEF OutcomeInv
  <1> QED  BY <1>3, <1>5, <1>6 DEF FramingInv

\* A frame that is complete is the current message, and nothing else.
LEMMA ReturnsKeepsInv ==
    ASSUME FramingInv, Returns
    PROVE  FramingInv'
  <1> USE FramingAssumption
  <1>1. /\ written \in Seq(Nat) /\ frame \in Seq(Byte) /\ received \in Seq(Nat)
        /\ Len(frame) \in Nat /\ Len(received) \in Nat /\ Len(written) \in Nat
    BY DEF FramingInv, FramingTypes
  <1>2. Len(frame) > 0
    BY <1>1 DEF Returns, PrefixRead
  <1>3. /\ Current \in 1 .. Len(written) /\ Len(frame) <= FrameLen(Current)
        /\ \A i \in 1 .. Len(frame) : frame[i] = [msg |-> Current, pos |-> i]
    BY <1>1, <1>2 DEF FramingInv, FrameInv, Current
  <1>4. frame[1] = [msg |-> Current, pos |-> 1] /\ frame[1].msg = Current
    BY <1>1, <1>2, <1>3
  <1>5. Len(frame) = FrameLen(Current)
    <2>1. Declared = written[Current] /\ Declared \in Nat
      BY <1>1, <1>3, <1>4 DEF Declared, FramingInv, FramingTypes
    <2>2. ~(Len(frame) < written[Current] + PrefixBytes)
      BY <2>1 DEF Returns, PayloadMissing
    <2>3. Len(frame) <= PrefixBytes + written[Current]
      BY <1>3 DEF FrameLen
    <2> QED  BY <1>1, <2>1, <2>2, <2>3 DEF FrameLen
  <1>6. Intact
    BY <1>3, <1>4 DEF Intact
  <1>7. /\ received' = Append(received, Current) /\ frame' = <<>> /\ outcome' = outcome
        /\ outcome = "reading"
        /\ writing' = writing /\ written' = written /\ complete' = complete
        /\ wire' = wire /\ conn' = conn
    BY <1>4, <1>6 DEF Returns
  <1>8. /\ received' \in Seq(Nat) /\ Len(received') = Current
        /\ received'[Current] = Current
        /\ \A i \in 1 .. Len(received) : received'[i] = received[i]
    BY <1>1, <1>3, <1>7 DEF Current
  <1>9. NextRead' = NextRead
    <2>1. NextRead = [msg |-> Current + 1, pos |-> 1]
      BY <1>2, <1>5 DEF NextRead
    <2>2. Current' = Current + 1 /\ Len(frame') = 0
      BY <1>7, <1>8 DEF Current
    <2> QED  BY <2>1, <2>2 DEF NextRead
  <1>10. /\ \A k : FrameLen(k)' = FrameLen(k)
         /\ \A k : Following(k)' = Following(k)
         /\ EndOfStream' = EndOfStream
    BY <1>7, <1>9 DEF FrameLen, Following, EndOfStream
  <1>11. FramingTypes'
    BY <1>7, <1>8 DEF FramingInv, FramingTypes
  <1>12. WireInv' /\ WriterInv' /\ CompleteInv'
    BY <1>7, <1>9, <1>10 DEF FramingInv, WireInv, WriterInv, CompleteInv
  <1>13. FrameInv'
    BY <1>7 DEF FrameInv
  <1>14. ReceivedInv'
    <2>1. Len(received') <= Len(written')
      BY <1>1, <1>3, <1>7, <1>8
    <2>2. \A i \in 1 .. Len(received') : received'[i] = i
      <3> SUFFICES ASSUME NEW i \in 1 .. Current PROVE received'[i] = i
        BY <1>8
      <3>1. CASE i = Current
        BY <1>8, <3>1
      <3>2. CASE i \in 1 .. Len(received)
        BY <1>8, <3>2 DEF FramingInv, ReceivedInv
      <3> QED  BY <1>1, <3>1, <3>2 DEF Current
    <2> QED  BY <2>1, <2>2 DEF ReceivedInv
  <1>15. OutcomeInv'
    BY <1>7 DEF OutcomeInv
  <1> QED  BY <1>11, <1>12, <1>13, <1>14, <1>15 DEF FramingInv

\* The inductive invariant of write_message and read_message.
LEMMA FramingCorrect == FramingSpec => []FramingInv
  <1> USE FramingAssumption
  <1>1. FramingInit => FramingInv
    <2> SUFFICES ASSUME FramingInit PROVE FramingInv
      OBVIOUS
    <2>1. /\ writing = [w \in FrameWriters |-> NONE] /\ written = <<>> /\ complete = {}
          /\ wire = <<>> /\ conn = "open" /\ frame = <<>> /\ received = <<>>
          /\ outcome = "reading"
      BY DEF FramingInit
    <2>2. Current = 1 /\ NextRead = [msg |-> 1, pos |-> 1] /\ EndOfStream = NextRead
      BY <2>1 DEF Current, NextRead, EndOfStream
    <2>3. FramingTypes
      BY <2>1 DEF FramingTypes
    <2>4. WireInv /\ FrameInv /\ ReceivedInv /\ OutcomeInv
      BY <2>1 DEF WireInv, FrameInv, ReceivedInv, OutcomeInv
    <2>5. WriterInv
      BY <2>1, <2>2 DEF WriterInv
    <2>6. CompleteInv
      BY <2>1, <2>2 DEF CompleteInv
    <2> QED  BY <2>3, <2>4, <2>5, <2>6 DEF FramingInv
  <1>2. FramingInv /\ [FramingNext]_framingVars => FramingInv'
    <2> SUFFICES ASSUME FramingInv, [FramingNext]_framingVars PROVE FramingInv'
      OBVIOUS
    <2>1. CASE \E w \in FrameWriters : Puts(w) \/ \E size \in Sizes : Begins(w, size)
      BY <2>1, PutsKeepsInv, BeginsKeepsInv
    <2>2. CASE Closes \/ Resets
      BY <2>2, EndKeepsInv
    <2>3. CASE ReadStep
      BY <2>3, ReadsByteKeepsInv, EndingKeepsInv, ReturnsKeepsInv DEF ReadStep
    <2>4. CASE UNCHANGED framingVars
      BY <2>4 DEF framingVars, FramingInv, FramingTypes, WireInv, FrameInv, WriterInv,
        CompleteInv, ReceivedInv, OutcomeInv, Current, NextRead, EndOfStream, FrameLen, Following
    <2> QED  BY <2>1, <2>2, <2>3, <2>4 DEF FramingNext
  <1> QED  BY <1>1, <1>2, PTL DEF FramingSpec

\* Frames written by any number of tasks, in pieces, are returned whole and in
\* order by read_message.
THEOREM MessagesWhole == FramingSpec => []MessagesArriveWhole
  <1>1. FramingInv => MessagesArriveWhole
    BY DEF FramingInv, ReceivedInv, OutcomeInv, MessagesArriveWhole
  <1> QED  BY <1>1, FramingCorrect, PTL

\* read_message refuses no frame but one whose own payload is too large.
THEOREM RefusedTooLarge == FramingSpec => []RefusedFramesAreTooLarge
  <1>1. FramingInv => RefusedFramesAreTooLarge
    BY DEF FramingInv, OutcomeInv, Current, RefusedFramesAreTooLarge
  <1> QED  BY <1>1, FramingCorrect, PTL

\* After the Ok(None) of read_message no complete message is missing.
THEOREM CleanEnd == FramingSpec => []CleanEndLosesNothing
  <1>1. FramingInv => CleanEndLosesNothing
    BY DEF FramingInv, CompleteInv, CleanEndLosesNothing
  <1> QED  BY <1>1, FramingCorrect, PTL
=============================================================================
