------------------------------ MODULE Receive ------------------------------
(***************************************************************************)
(* The receiving half of an IOCPConn with its Buffer: go_reading_() hands  *)
(* the free end of read_buffer_ to WSARecv, on_completion_read_() counts   *)
(* what has arrived and shows the buffer to on_message_func_, whose user   *)
(* takes out as much as he likes.  One read is outstanding at a time       *)
(* (OneReadOneWrite of IOCPConn), so the threads that handle it follow one *)
(* another and need not be told apart.                                     *)
(*                                                                         *)
(* The stream is the bytes 1, 2, 3, ...  The kernel is external: it stores *)
(* bytes where WSARecv was told to, and only then is the packet handled.   *)
(***************************************************************************)
EXTENDS Buffer

CONSTANTS
  MaxBytes,   \* bound on the bytes that arrive
  MaxPending  \* bound on the bytes the user leaves unread

ASSUME ReceiveAssumption == {MaxBytes, MaxPending} \subseteq Nat

VARIABLES
  buffer,    \* *read_buffer_
  recv,      \* where the outstanding WSARecv stores, and how much at most
  pc,        \* what the connection is about to do
  stored,    \* bytes of the current completion
  received,  \* bytes that have arrived
  consumed   \* bytes the user has taken out

vars == <<buffer, recv, pc, stored, received, consumed>>

NoRecv == [block |-> 0, at |-> 0, len |-> 0]

TypeOK ==
  /\ IsBuffer(buffer)
  /\ recv \in [block : Nat, at : Nat, len : Nat]
  /\ pc \in {"goReading", "pending", "onRead", "message", "ended", "corrupt"}
  /\ {stored, received, consumed} \subseteq Nat

\* start() makes the buffer.
Init ==
  /\ buffer = NewBuffer /\ recv = NoRecv /\ pc = "goReading"
  /\ stored = 0 /\ received = 0 /\ consumed = 0

-----------------------------------------------------------------------------
\* What go_reading_() asks WSARecv to fill.
FreeEnd(b) == [block |-> b.block, at |-> b.write, len |-> WritableSize(b)]

\* Broken variant: WSARecv is told where to store before there is room.
GoReadingTooEarly ==
  /\ pc = "goReading"
  /\ buffer' = EnsureWritableSize(buffer, 1)
  /\ recv' = FreeEnd(buffer)
  /\ pc' = "pending"
  /\ UNCHANGED <<stored, received, consumed>>

\* go_reading_(): make room and issue WSARecv.
GoReading ==
  /\ pc = "goReading"
  /\ buffer' = EnsureWritableSize(buffer, 1)
  /\ recv' = FreeEnd(buffer')
  /\ pc' = "pending"
  /\ UNCHANGED <<stored, received, consumed>>

\* The kernel stores bytes; in memory that was freed or is not free for it this is the
\* end of all certainty.
Arrive(n) ==
  /\ pc = "pending" /\ n \in 1..recv.len
  /\ received + n <= MaxBytes
  /\ ReadableSize(buffer) + n <= MaxPending
  /\ IF recv = FreeEnd(buffer)
       THEN buffer' = Store(buffer, recv.at, n, received + 1) /\ pc' = "onRead"
       ELSE UNCHANGED buffer /\ pc' = "corrupt"
  /\ received' = received + n
  /\ stored' = n /\ recv' = NoRecv
  /\ UNCHANGED consumed

\* The read ends with no bytes or with an error: the connection begins its cleanup.
EndOfStream ==
  /\ pc = "pending"
  /\ pc' = "ended" /\ recv' = NoRecv
  /\ UNCHANGED <<buffer, stored, received, consumed>>

\* on_completion_read_(), up to the call of on_message_func_.
OnRead ==
  /\ pc = "onRead"
  /\ buffer' = BeenWritten(buffer, stored)
  /\ pc' = "message" /\ stored' = 0
  /\ UNCHANGED <<recv, received, consumed>>

\* In on_message_func_ the user takes some bytes, or all.
Take(n) ==
  /\ pc = "message" /\ n \in 1..ReadableSize(buffer)
  /\ buffer' = IF n = ReadableSize(buffer) THEN BeenReadAll(buffer) ELSE BeenRead(buffer, n)
  /\ consumed' = consumed + n
  /\ UNCHANGED <<recv, pc, stored, received>>

\* In on_message_func_ the user drops what is there, by clear() or by moving the buffer
\* out, which leaves the connection one without any memory.
Drop ==
  /\ pc = "message" /\ ReadableSize(buffer) > 0
  /\ buffer' \in {Clear(buffer), MovedFrom(buffer)}
  /\ consumed' = received
  /\ UNCHANGED <<recv, pc, stored, received>>

\* In on_message_func_ the user puts bytes of his own at the end of the stream.
Put(n) ==
  /\ pc = "message" /\ received + n <= MaxBytes
  /\ ReadableSize(buffer) + n <= MaxPending
  /\ buffer' = Appended(buffer, n, received + 1)
  /\ received' = received + n
  /\ UNCHANGED <<recv, pc, stored, consumed>>

\* on_completion_read_(): on_message_func_ has returned; the next read is issued unless
\* shutdown() was called meanwhile.
EndMessage ==
  /\ pc = "message"
  /\ pc' \in {"goReading", "ended"}
  /\ UNCHANGED <<buffer, recv, stored, received, consumed>>

Next ==
  \/ GoReading \/ EndOfStream \/ OnRead \/ Drop \/ EndMessage
  \/ \E n \in 1..MaxBytes : Arrive(n) \/ Take(n) \/ Put(n)

Spec == Init /\ [][Next]_vars

-----------------------------------------------------------------------------
\* However the buffer was moved, grown or shrunk, the user sees the bytes that have
\* arrived and that he has not taken yet, in their order.
StreamKept ==
  pc # "corrupt" =>
    Content(buffer) =
      [i \in 1..received - stored - consumed |-> consumed + i]

\* While WSARecv is outstanding its target stays the free end of the living block, and
\* it is never asked for zero bytes, whose completion would look like the end.
RecvTargetsFreeEnd ==
  /\ pc = "pending" => recv = FreeEnd(buffer) /\ recv.len > 0
  /\ pc # "corrupt"

\* Memory follows use: reading grows the buffer only when every byte of it is unread, and
\* one shrink is enough, as what is left is never idle enough to be shrunk again.
CapacityFollowsUse ==
  [][/\ pc = "goReading" /\ buffer'.capacity > buffer.capacity
          => ReadableSize(buffer) = buffer.capacity
     /\ buffer'.capacity \in 1..buffer.capacity - 1 => ~TooIdle(buffer')]_vars
=============================================================================
