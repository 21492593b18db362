---------------------------- MODULE DeviceStream ----------------------------
(***************************************************************************)
(* What a driver writes to an open device (papplDeviceWrite, -Puts and     *)
(* -Printf) is kept in a buffer and reaches the device's write callback in *)
(* larger pieces. The callback may fail when it has written some of them.  *)
(*                                                                         *)
(* The bytes that the driver writes are numbered in the order in which it  *)
(* writes them.                                                            *)
(***************************************************************************)
EXTENDS Naturals, Sequences

CONSTANTS
  BufSize,   \* sizeof(device->buffer)
  MaxWrite,  \* the most that the driver writes at once
  MaxBytes,  \* the most that it writes in all, and
  MaxFailures  \* how often the device fails (bounds of the check)

VARIABLES
  is_open,   \* the device is open
  buffer,    \* device->buffer, as long as device->bufused
  written,   \* what has reached the device
  accepted,  \* how many bytes were written without an error
  refused,   \* how many writes have returned an error (history)
  dropped    \* how many pieces have failed that nobody was told of (history)

streamVars == <<is_open, buffer, written, accepted, refused, dropped>>

Bytes(first, last) == [i \in 1..(last - first + 1) |-> first + i - 1]

Init ==
  /\ is_open = TRUE
  /\ buffer = << >> /\ written = << >>
  /\ accepted = 0
  /\ refused = 0 /\ dropped = 0

\* The callback writes the piece to the device, or fails after the first k
\* bytes, when before has been written.
Fails(before, piece) ==
  /\ refused + dropped < MaxFailures
  /\ \E k \in 0..Len(piece) : written' = before \o SubSeq(piece, 1, k)

\* The driver goes on after an error, or closes the device. It does not write
\* the bytes again that were not accepted: what follows has their numbers.
MayWrite(n) == is_open /\ n <= MaxWrite /\ accepted + n <= MaxBytes

Piece(n) == Bytes(accepted + 1, accepted + n)

\* What follows in papplDeviceWrite when kept is what the buffer has left.
\* A piece that is as large as the buffer goes to the device directly.
Take(n, kept, before) ==
  \/ /\ n < BufSize
     /\ buffer' = kept \o Piece(n)
     /\ written' = before
     /\ accepted' = accepted + n
     /\ UNCHANGED refused
  \/ /\ n >= BufSize
     /\ buffer' = kept
     /\ \/ /\ written' = before \o Piece(n)
           /\ accepted' = accepted + n
           /\ UNCHANGED refused
        \/ /\ Fails(before, Piece(n))
           /\ refused' = refused + 1
           /\ UNCHANGED accepted

\* The buffer is written when the bytes do not fit. (Mutant: when it is full.)
FitsUntilFull(n) == Len(buffer) < BufSize
Fits(n) == Len(buffer) + n <= BufSize

\* papplDeviceWrite, of bytes that fit into the buffer ...
WriteFits(n) ==
  /\ MayWrite(n) /\ Fits(n)
  /\ Take(n, buffer, written)
  /\ UNCHANGED <<is_open, dropped>>

\* ... and of bytes that do not, which first writes what is there. When that
\* fails the buffer is kept as it was.
WriteFlushes(n) ==
  /\ MayWrite(n) /\ ~Fits(n)
  /\ \/ Take(n, << >>, written \o buffer)
     \/ /\ Fails(written, buffer)
        /\ refused' = refused + 1
        /\ UNCHANGED <<buffer, accepted>>
  /\ UNCHANGED <<is_open, dropped>>

\* Mutant: what was written stays in the buffer.
FlushKeeps ==
  /\ is_open /\ Len(buffer) > 0
  /\ written' = written \o buffer
  /\ UNCHANGED <<is_open, accepted, refused, buffer, dropped>>
\* papplDeviceFlush, which papplDeviceRead does first, empties the buffer
\* whether it could be written or not.
Flush ==
  /\ is_open /\ Len(buffer) > 0
  /\ \/ written' = written \o buffer /\ UNCHANGED dropped
     \/ Fails(written, buffer) /\ dropped' = dropped + 1
  /\ buffer' = << >>
  /\ UNCHANGED <<is_open, accepted, refused>>

\* papplDeviceClose, which frees the buffer as well.
Close ==
  /\ is_open
  /\ \/ written' = written \o buffer /\ UNCHANGED dropped
     \/ Len(buffer) > 0 /\ Fails(written, buffer) /\ dropped' = dropped + 1
  /\ buffer' = << >>
  /\ is_open' = FALSE
  /\ UNCHANGED <<accepted, refused>>

Next ==
  \/ \E n \in 1..MaxWrite : WriteFits(n) \/ WriteFlushes(n)
  \/ Flush \/ Close

Spec == Init /\ [][Next]_streamVars

-----------------------------------------------------------------------------
(* Properties.                                                             *)

\* Every variable has its type: the buffer never runs over.
TypeOK ==
  /\ is_open \in BOOLEAN
  /\ buffer \in Seq(Nat) /\ Len(buffer) <= BufSize
  /\ written \in Seq(Nat)
  /\ accepted \in 0..MaxBytes
  /\ refused \in 0..MaxFailures /\ dropped \in 0..MaxFailures

\* As long as no piece has failed, the device has got all that was accepted, in
\* order and once, but for what is in the buffer; when the device is closed
\* nothing is.
StreamKept ==
  refused = 0 /\ dropped = 0 =>
    /\ written \o buffer = Bytes(1, accepted)
    /\ ~is_open => written = Bytes(1, accepted)
=============================================================================
