------------------------------ MODULE Buffer ------------------------------
(***************************************************************************)
(* Buffer: bytes in a block of memory between a read index and a write     *)
(* index.  The operators are the member functions, from the buffer before  *)
(* to the buffer after.  `block' stands for the pointer data_: it changes  *)
(* whenever the bytes go to newly allocated memory.                        *)
(***************************************************************************)
EXTENDS Naturals, Sequences

CONSTANTS
  InitialCapacity,  \* kInitialCapacity, 8192
  ShrinkIdle        \* unused bytes below which a buffer never shrinks, 16384

ASSUME BufferAssumption ==
  /\ InitialCapacity \in Nat \ {0} /\ ShrinkIdle \in Nat
  /\ 2 * ShrinkIdle > 3 * InitialCapacity

\* What a byte of fresh memory holds; bytes of the stream are numbered from 1.
Junk == 0

IsBuffer(b) ==
  /\ DOMAIN b = {"data", "read", "write", "capacity", "block"}
  /\ {b.capacity, b.block} \subseteq Nat
  /\ b.write \in 0..b.capacity /\ b.read \in 0..b.write
  /\ b.data \in [0..b.capacity - 1 -> Nat]

NewBuffer ==
  [data |-> [i \in 0..InitialCapacity - 1 |-> Junk], read |-> 0, write |-> 0,
   capacity |-> InitialCapacity, block |-> 0]

ReadableSize(b) == b.write - b.read
WritableSize(b) == b.capacity - b.write

\* The bytes to_read() points to.
Content(b) == [i \in 1..ReadableSize(b) |-> b.data[b.read + i - 1]]

\* memcpy of what is readable to the front of a new block.
Reallocate(b, capacity) ==
  [data |-> [i \in 0..capacity - 1 |->
               IF i < ReadableSize(b) THEN b.data[b.read + i] ELSE Junk],
   read |-> 0, write |-> ReadableSize(b), capacity |-> capacity, block |-> b.block + 1]

\* Broken variant: the bytes are moved as if they began at the start of the block.
MoveFromStart(b) ==
  [b EXCEPT !.read = 0, !.write = ReadableSize(b)]

\* memmove of what is readable to the front.
MoveToFront(b) ==
  [b EXCEPT !.data = [i \in 0..b.capacity - 1 |->
                        IF i < ReadableSize(b) THEN b.data[b.read + i] ELSE b.data[i]],
            !.read = 0, !.write = ReadableSize(b)]

\* Broken variant: the buffer grows although there is room in front.
EnsureByGrowing(b, len) ==
  IF WritableSize(b) >= len THEN b ELSE Reallocate(b, b.capacity * 2 + len)

EnsureWritableSize(b, len) ==
  IF WritableSize(b) >= len THEN b
  ELSE IF b.read + WritableSize(b) >= len THEN MoveToFront(b)
  ELSE Reallocate(b, b.capacity * 2 + len)

\* More than three quarters are unused, and enough to be worth it.
TooIdle(b) ==
  LET idle == b.capacity - ReadableSize(b)
  IN  idle * 4 > b.capacity * 3 /\ idle >= ShrinkIdle

\* One and a half times what is needed.
ShrunkCapacity(b) ==
  LET target == IF ReadableSize(b) > InitialCapacity THEN ReadableSize(b) ELSE InitialCapacity
  IN  target + target \div 2

ShrinkIfNeeded(b) == IF TooIdle(b) THEN Reallocate(b, ShrunkCapacity(b)) ELSE b

BeenRead(b, len) == ShrinkIfNeeded([b EXCEPT !.read = b.read + len])

BeenReadAll(b) == BeenRead(b, ReadableSize(b))

\* Broken variant: only the end of what is readable is reset.
ClearEnd(b) == [b EXCEPT !.write = 0]

Clear(b) == [b EXCEPT !.read = 0, !.write = 0]

\* What a move constructor or a move assignment leaves behind: no block at all.
MovedFrom(b) ==
  [data |-> [i \in {} |-> Junk], read |-> 0, write |-> 0, capacity |-> 0, block |-> b.block + 1]

BeenWritten(b, len) == [b EXCEPT !.write = b.write + len]

\* len bytes are stored from an index on.
Store(b, at, len, first) ==
  [b EXCEPT !.data = [i \in 0..b.capacity - 1 |->
                        IF i \in at..at + len - 1 THEN first + i - at ELSE b.data[i]]]

Appended(b, len, first) ==
  LET room == EnsureWritableSize(b, len)
  IN  BeenWritten(Store(room, room.write, len, first), len)
=============================================================================
