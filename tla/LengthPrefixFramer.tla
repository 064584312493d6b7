------------------------- MODULE LengthPrefixFramer -------------------------
(***************************************************************************)
(* LengthPrefixFramer<true, MaxPayload> on a file: FileSource hands the    *)
(* file out in slices, which end anywhere, and the framer cuts messages    *)
(* out of the slices, keeping the bytes of a message that is not complete. *)
(*                                                                         *)
(* The length of a message is its first two bytes, high byte first; bytes  *)
(* are digits to a small base.  Bytes are named by their offset in the     *)
(* file, so that a message delivered is the offsets of its payload.        *)
(***************************************************************************)
EXTENDS Integers, Sequences, SequencesExt

CONSTANTS ByteValues,   (* the values of a byte: 2^8                        *)
          MaxPayload,
          MaxFile       (* bound: bytes in the file                         *)

ASSUME FramerAssumption ==
  ByteValues \in Nat \ {0} /\ MaxPayload \in Nat /\ MaxFile \in Nat

VARIABLES file,       (* the bytes of the file                              *)
          taken,      (* how many of them next() has handed out             *)
          reasm,      (* reasm_: the offsets of the bytes in buf            *)
          delivered,  (* the messages handed to the sink                    *)
          status      (* "open", "malformed" or "eof"                       *)

vars == <<file, taken, reasm, delivered, status>>

Init ==
  /\ file \in UNION {[1..n -> 0..(ByteValues - 1)] : n \in 0..MaxFile}
  /\ taken = 0 /\ reasm = <<>> /\ delivered = <<>> /\ status = "open"

(* read_num<uint16_t> of the first two bytes. *)
MsgLength(bytes) == file[bytes[1]] * ByteValues + file[bytes[2]]

Offsets(from, to) == [i \in 1..(to - from + 1) |-> from + i - 1]

(* A state of feed(): what is left of its data, the buffer, the messages   *)
(* handed out, and whether it has returned an error.                       *)
Feeding(data, buf, out, bad) ==
  [data |-> data, buf |-> buf, out |-> out, bad |-> bad]

Drop(s, n) == SubSeq(s, n + 1, Len(s))
Take(s, n) == SubSeq(s, 1, n)

-----------------------------------------------------------------------------
(* handle_leftover_bytes_: complete the length, then the message.          *)
CompleteLength(f) ==
  IF Len(f.buf) < 2 /\ f.data # <<>>
    THEN Feeding(Tail(f.data), Append(f.buf, Head(f.data)), f.out, FALSE)
    ELSE f

CompleteMessage(f) ==
  LET needed == 2 + MsgLength(f.buf) - Len(f.buf)
      frame == f.buf \o Take(f.data, needed)
  IN  CASE MsgLength(f.buf) > MaxPayload ->
             Feeding(f.data, <<>>, f.out, TRUE)
        [] MsgLength(f.buf) <= MaxPayload /\ Len(f.data) >= needed ->
             Feeding(Drop(f.data, needed), <<>>,
                     Append(f.out, Drop(frame, 2)), FALSE)
        [] OTHER -> Feeding(<<>>, f.buf \o f.data, f.out, FALSE)

HandleLeftover(f) ==
  LET g == CompleteLength(f)
  IN  CASE f.buf = <<>> -> f
        [] f.buf # <<>> /\ Len(g.buf) < 2 -> g
        [] OTHER -> CompleteMessage(g)

(* Mutant of Messages: an incomplete message is kept without its length. *)
RECURSIVE Messages_KeepsPayload(_)
Messages_KeepsPayload(f) ==
  CASE Len(f.data) < 2 -> Feeding(<<>>, f.data, f.out, FALSE)
    [] Len(f.data) >= 2 /\ MsgLength(f.data) > MaxPayload ->
         Feeding(f.data, <<>>, f.out, TRUE)
    [] /\ Len(f.data) >= 2 /\ MsgLength(f.data) <= MaxPayload
       /\ Len(f.data) - 2 < MsgLength(f.data) ->
         Feeding(<<>>, Drop(f.data, 2), f.out, FALSE)
    [] OTHER ->
         LET n == 2 + MsgLength(f.data)
         IN  Messages_KeepsPayload(
               Feeding(Drop(f.data, n), <<>>,
                       Append(f.out, Drop(Take(f.data, n), 2)), FALSE))

(* feed()'s loop over the data that follows. *)
RECURSIVE Messages(_)
Messages(f) ==
  CASE Len(f.data) < 2 -> Feeding(<<>>, f.data, f.out, FALSE)
    [] Len(f.data) >= 2 /\ MsgLength(f.data) > MaxPayload ->
         Feeding(f.data, <<>>, f.out, TRUE)
    [] /\ Len(f.data) >= 2 /\ MsgLength(f.data) <= MaxPayload
       /\ Len(f.data) - 2 < MsgLength(f.data) ->
         Feeding(<<>>, f.data, f.out, FALSE)
    [] OTHER ->
         LET n == 2 + MsgLength(f.data)
         IN  Messages(Feeding(Drop(f.data, n), <<>>,
                              Append(f.out, Drop(Take(f.data, n), 2)), FALSE))

(* feed(): a message that is still incomplete, or an error, ends it. *)
Feed(data) ==
  LET f == HandleLeftover(Feeding(data, reasm, <<>>, FALSE))
  IN  IF f.bad \/ f.buf # <<>> THEN f ELSE Messages(f)

-----------------------------------------------------------------------------
(* A turn of VenueFeed::run's loop: a slice of n bytes; a malformed stream *)
(* stops the feed.                                                         *)
Slice(n) ==
  LET f == Feed(Offsets(taken + 1, taken + n))
  IN  /\ status = "open"
      /\ taken + n <= Len(file)
      /\ taken' = taken + n
      /\ reasm' = f.buf
      /\ delivered' = delivered \o f.out
      /\ status' = IF f.bad THEN "malformed" ELSE "open"
      /\ UNCHANGED file

Eof ==
  /\ status = "open" /\ taken = Len(file)
  /\ status' = "eof"
  /\ UNCHANGED <<file, taken, reasm, delivered>>

Next ==
  \/ \E n \in 1..MaxFile : Slice(n)
  \/ Eof

Spec == Init /\ [][Next]_vars

-----------------------------------------------------------------------------
(* The file's format, stated without slices: where its messages begin.     *)

(* Offsets at which a frame begins, following the lengths from offset s.   *)
RECURSIVE Starts(_)
Starts(s) ==
  IF s + 1 > Len(file) \/ MsgLength(<<s, s + 1>>) > MaxPayload THEN <<s>>
  ELSE <<s>> \o Starts(s + 2 + MsgLength(<<s, s + 1>>))

(* The frames of the file that lie within its first n bytes; the last of   *)
(* Starts begins no message.                                               *)
Whole(n) ==
  LET starts == Starts(1)
      frames == [i \in 1..(Len(starts) - 1) |->
                   Offsets(starts[i], starts[i + 1] - 1)]
  IN  SelectSeq(frames, LAMBDA fr : fr[Len(fr)] <= n)

(* A length that is too large has been taken, even if its two bytes came   *)
(* in different slices.                                                    *)
TooLargeTaken ==
  LET last == Starts(1)[Len(Starts(1))]
  IN  last + 1 <= taken /\ MsgLength(<<last, last + 1>>) > MaxPayload

(* However the slices fall, the sink has got exactly the messages that lie *)
(* completely in the bytes taken so far, with their own bytes and none     *)
(* held back; the buffer holds the bytes after them, which are less than   *)
(* the frame it has room for; and the stream is reported malformed exactly *)
(* when a length that is too large has been taken.                         *)
SlicesDontMatter ==
  /\ Len(reasm) < MaxPayload + 2
  /\ delivered = [i \in 1..Len(Whole(taken)) |-> Drop(Whole(taken)[i], 2)]
  /\ status # "malformed" =>
       LET used == FoldLeft(LAMBDA n, fr : n + Len(fr), 0, Whole(taken))
       IN  reasm = Offsets(used + 1, taken)
  /\ status = "malformed" <=> TooLargeTaken

=============================================================================
