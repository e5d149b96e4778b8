--------------------------- MODULE NdjsonDecoder ---------------------------
(***************************************************************************)
(* The daemon's side of one connection as bytes: the peer writes a stream, *)
(* read() returns it in pieces of any size, and NDJSONDecoder.feed cuts    *)
(* it into frames of limited length.  One step is one turn of feed's loop. *)
(*                                                                         *)
(* A byte is the newline or another one; the decoding of a whole frame is  *)
(* in module Exchange, so a decoded frame is represented by its bytes.     *)
(***************************************************************************)
EXTENDS SequencesExt, Integers

CONSTANTS
  Bytes,       \* the bytes that are not a newline
  NL,          \* the newline
  TooLarge,    \* "Request frame is too large"
  MaxFrame,    \* _MAX_REQUEST_FRAME_BYTES
  MaxRead,     \* the most bytes one read() returns
  MaxStream    \* bound on the length of the stream

ASSUME DecoderAssumption ==
  /\ NL \notin Bytes
  /\ MaxFrame \in Nat /\ MaxRead \in Nat \ {0} /\ MaxStream \in Nat

VARIABLES
  stream,       \* what the peer has written so far
  read,         \* how much of it read() has returned
  remaining,    \* the part of the current piece that feed has not looked at
  buffer,       \* _buffer
  discarding,   \* _discarding_oversized_frame
  decoded       \* everything feed has returned, a frame or TooLarge

decoderVars == <<stream, read, remaining, buffer, discarding, decoded>>

DecoderInit ==
  /\ stream = <<>> /\ read = 0 /\ remaining = <<>>
  /\ buffer = <<>> /\ discarding = FALSE /\ decoded = <<>>

Write(byte) ==
  /\ Len(stream) < MaxStream
  /\ stream' = Append(stream, byte)
  /\ UNCHANGED <<read, remaining, buffer, discarding, decoded>>

\* reader.read: the next piece, when the last one has been dealt with.
Read(n) ==
  /\ remaining = <<>> /\ n \in 1 .. MaxRead /\ read + n <= Len(stream)
  /\ remaining' = SubSeq(stream, read + 1, read + n)
  /\ read' = read + n
  /\ UNCHANGED <<stream, buffer, discarding, decoded>>

-----------------------------------------------------------------------------
(* feed *)

\* The number of bytes before the first newline of remaining.
Boundary == SelectInSeq(remaining, LAMBDA b : b = NL) - 1
HasBoundary == NL \in ToSet(remaining)
Rest == SubSeq(remaining, Boundary + 2, Len(remaining))

SkipPiece ==
  /\ remaining # <<>> /\ discarding /\ ~HasBoundary
  /\ remaining' = <<>>
  /\ UNCHANGED <<stream, read, buffer, discarding, decoded>>

\* Mutant of SkipToBoundary: the rest of the piece is thrown away as well.
SkipTooMuch ==
  /\ remaining # <<>> /\ discarding /\ HasBoundary
  /\ discarding' = FALSE /\ remaining' = <<>>
  /\ UNCHANGED <<stream, read, buffer, decoded>>

SkipToBoundary ==
  /\ remaining # <<>> /\ discarding /\ HasBoundary
  /\ discarding' = FALSE /\ remaining' = Rest
  /\ UNCHANGED <<stream, read, buffer, decoded>>

\* The frame does not end in this piece: kept, or given up when it is too long.
Keep ==
  /\ remaining # <<>> /\ ~discarding /\ ~HasBoundary
  /\ IF Len(remaining) > MaxFrame - Len(buffer)
     THEN buffer' = <<>> /\ discarding' = TRUE /\ decoded' = Append(decoded, TooLarge)
     ELSE buffer' = buffer \o remaining /\ UNCHANGED <<discarding, decoded>>
  /\ remaining' = <<>>
  /\ UNCHANGED <<stream, read>>

\* The frame ends in this piece.
Cut ==
  /\ remaining # <<>> /\ ~discarding /\ HasBoundary
  /\ decoded' = Append(decoded, IF Len(buffer) + Boundary > MaxFrame THEN TooLarge
                                ELSE buffer \o SubSeq(remaining, 1, Boundary))
  /\ buffer' = <<>> /\ remaining' = Rest
  /\ UNCHANGED <<stream, read, discarding>>

Feed == SkipPiece \/ SkipToBoundary \/ Keep \/ Cut

DecoderNext ==
  \/ \E byte \in Bytes \cup {NL} : Write(byte)
  \/ \E n \in 1 .. MaxRead : Read(n)
  \/ Feed

DecoderSpec == DecoderInit /\ [][DecoderNext]_decoderVars

-----------------------------------------------------------------------------
\* The reference sees the whole stream.
Newlines(s) == {i \in 1 .. Len(s) : s[i] = NL}

LastBefore(s, i) ==
  LET before == {j \in Newlines(s) : j < i}
  IN IF before = {} THEN 0 ELSE Max(before)

\* What is between a position and the last newline before it.
FrameBefore(s, i) == SubSeq(s, LastBefore(s, i) + 1, i - 1)

\* The number of newlines up to a position, and the newline with a number.
Place(s, i) == Cardinality({j \in Newlines(s) : j <= i})

EndOf(s, k) == CHOOSE i \in Newlines(s) : Place(s, i) = k

Frames(s) == [k \in 1 .. Cardinality(Newlines(s)) |-> FrameBefore(s, EndOf(s, k))]

Unfinished(s) == FrameBefore(s, Len(s) + 1)

Reported(frame) == IF Len(frame) > MaxFrame THEN TooLarge ELSE frame

Reference(s) ==
  LET whole == [k \in DOMAIN Frames(s) |-> Reported(Frames(s)[k])]
  IN IF Len(Unfinished(s)) > MaxFrame THEN Append(whole, TooLarge) ELSE whole

\* However the stream was cut into pieces, and wherever a frame that is too long
\* began and ended, feed has returned one answer for each frame, in their order:
\* the frame itself, or that it is too large, and the next frame is read afresh.
\* What it keeps of an unfinished frame is all of it within the limit, and
\* nothing beyond.
FragmentationIrrelevant ==
  remaining = <<>> =>
    LET s == SubSeq(stream, 1, read) IN
    /\ decoded = Reference(s)
    /\ buffer = IF Len(Unfinished(s)) > MaxFrame THEN <<>> ELSE Unfinished(s)
=============================================================================
