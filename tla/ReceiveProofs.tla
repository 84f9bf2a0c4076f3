--------------------------- MODULE ReceiveProofs ---------------------------
(***************************************************************************)
(* Proofs about Receive, for a Buffer of any initial capacity and any      *)
(* number of bytes: whatever the user takes, drops or puts, the bytes he   *)
(* sees are those that arrived, in order, and WSARecv stores where there   *)
(* is room.  The lemmas say what each member function of Buffer keeps.     *)
(***************************************************************************)
EXTENDS Receive, TLAPS

\* The readable bytes of a buffer are the numbers after c, in order.
Numbered(b, c) == \A i \in b.read..b.write - 1 : b.data[i] = c + 1 + (i - b.read)

\* A buffer is good when it is well formed and shows the n bytes after c.
Shows(b, c, n) == IsBuffer(b) /\ ReadableSize(b) = n /\ Numbered(b, c)

-----------------------------------------------------------------------------
\* Copying to a new block keeps what is readable.
LEMMA ReallocateKeeps ==
  ASSUME NEW b, NEW c \in Nat, NEW n \in Nat, NEW capacity \in Nat,
         Shows(b, c, n), n <= capacity
  PROVE  /\ Shows(Reallocate(b, capacity), c, n)
         /\ Reallocate(b, capacity).capacity = capacity
         /\ Reallocate(b, capacity).write = n
         /\ Reallocate(b, capacity).read = 0
<1> DEFINE r == Reallocate(b, capacity)
<1>1. /\ r.read = 0 /\ r.write = ReadableSize(b) /\ r.capacity = capacity
      /\ r.block = b.block + 1
      /\ DOMAIN r = {"data", "read", "write", "capacity", "block"}
  BY DEF Reallocate
<1>2. r.data = [i \in 0..capacity - 1 |->
                  IF i < ReadableSize(b) THEN b.data[b.read + i] ELSE Junk]
  BY DEF Reallocate
<1>3. ReadableSize(b) = n /\ b.read \in Nat /\ b.write \in Nat /\ b.capacity \in Nat
      /\ b.write <= b.capacity /\ b.write = b.read + n /\ b.block \in Nat
  BY DEF Shows, IsBuffer, ReadableSize
<1>4. r.data \in [0..capacity - 1 -> Nat]
  <2> SUFFICES ASSUME NEW i \in 0..capacity - 1
               PROVE  (IF i < ReadableSize(b) THEN b.data[b.read + i] ELSE Junk) \in Nat
    BY <1>2
  <2>1. CASE i < n
    <3>1. b.read + i \in 0..b.capacity - 1
      BY <1>3, <2>1
    <3>2. b.data[b.read + i] \in Nat
      BY <3>1 DEF Shows, IsBuffer
    <3> QED
      BY <1>3, <2>1, <3>2
  <2>2. CASE ~(i < n)
    BY <1>3, <2>2 DEF Junk
  <2> QED
    BY <2>1, <2>2
<1>5. IsBuffer(r)
  BY <1>1, <1>3, <1>4 DEF IsBuffer
<1>6. Numbered(r, c)
  <2> SUFFICES ASSUME NEW i \in 0..n - 1
               PROVE  r.data[i] = c + 1 + (i - 0)
    BY <1>1, <1>3 DEF Numbered
  <2>1. i \in 0..capacity - 1 /\ i < n
    BY <1>3
  <2>2. r.data[i] = b.data[b.read + i]
    BY <1>2, <1>3, <2>1
  <2>3. b.read + i \in b.read..b.write - 1
    BY <1>3
  <2>4. b.data[b.read + i] = c + 1 + ((b.read + i) - b.read)
    BY <2>3 DEF Shows, Numbered
  <2> QED
    BY <1>3, <2>2, <2>4
<1> QED
  BY <1>1, <1>3, <1>5, <1>6 DEF Shows, ReadableSize

\* So does moving it to the front.
LEMMA MoveKeeps ==
  ASSUME NEW b, NEW c \in Nat, NEW n \in Nat, Shows(b, c, n)
  PROVE  /\ Shows(MoveToFront(b), c, n)
         /\ MoveToFront(b).capacity = b.capacity
         /\ MoveToFront(b).write = n
<1> DEFINE m == MoveToFront(b)
<1>1. ReadableSize(b) = n /\ b.read \in Nat /\ b.write \in Nat /\ b.capacity \in Nat
      /\ b.write <= b.capacity /\ b.write = b.read + n /\ b.block \in Nat
      /\ DOMAIN b = {"data", "read", "write", "capacity", "block"}
      /\ b.data \in [0..b.capacity - 1 -> Nat]
  BY DEF Shows, IsBuffer, ReadableSize
<1>2. m.read = 0 /\ m.write = n /\ m.capacity = b.capacity /\ m.block = b.block
      /\ DOMAIN m = {"data", "read", "write", "capacity", "block"}
  BY <1>1 DEF MoveToFront
<1>3. m.data = [i \in 0..b.capacity - 1 |->
                  IF i < n THEN b.data[b.read + i] ELSE b.data[i]]
  BY <1>1 DEF MoveToFront
<1>4. m.data \in [0..b.capacity - 1 -> Nat]
  <2> SUFFICES ASSUME NEW i \in 0..b.capacity - 1
               PROVE  (IF i < n THEN b.data[b.read + i] ELSE b.data[i]) \in Nat
    BY <1>3
  <2>1. i < n => b.read + i \in 0..b.capacity - 1
    BY <1>1
  <2> QED
    BY <1>1, <2>1
<1>5. IsBuffer(m)
  BY <1>1, <1>2, <1>4 DEF IsBuffer
<1>6. Numbered(m, c)
  <2> SUFFICES ASSUME NEW i \in 0..n - 1
               PROVE  m.data[i] = c + 1 + (i - 0)
    BY <1>1, <1>2 DEF Numbered
  <2>1. i \in 0..b.capacity - 1 /\ i < n /\ b.read + i \in b.read..b.write - 1
    BY <1>1
  <2>2. b.data[b.read + i] = c + 1 + ((b.read + i) - b.read)
    BY <2>1 DEF Shows, Numbered
  <2> QED
    BY <1>1, <1>3, <2>1, <2>2
<1> QED
  BY <1>1, <1>2, <1>5, <1>6 DEF Shows, ReadableSize

\* Making room keeps what is readable and makes the room.
LEMMA EnsureKeeps ==
  ASSUME NEW b, NEW c \in Nat, NEW n \in Nat, NEW len \in Nat, Shows(b, c, n)
  PROVE  /\ Shows(EnsureWritableSize(b, len), c, n)
         /\ WritableSize(EnsureWritableSize(b, len)) >= len
         /\ EnsureWritableSize(b, len).capacity >= b.capacity
         /\ EnsureWritableSize(b, len).capacity > b.capacity => b.read + WritableSize(b) < len
<1>1. ReadableSize(b) = n /\ b.read \in Nat /\ b.write \in Nat /\ b.capacity \in Nat
      /\ b.write <= b.capacity /\ b.write = b.read + n
  BY DEF Shows, IsBuffer, ReadableSize
<1>2. CASE WritableSize(b) >= len
  BY <1>1, <1>2 DEF EnsureWritableSize
<1>3. CASE ~(WritableSize(b) >= len) /\ b.read + WritableSize(b) >= len
  <2>1. EnsureWritableSize(b, len) = MoveToFront(b)
    BY <1>3 DEF EnsureWritableSize
  <2> QED
    BY <1>1, <1>3, <2>1, MoveKeeps DEF WritableSize
<1>4. CASE ~(WritableSize(b) >= len) /\ ~(b.read + WritableSize(b) >= len)
  <2>1. EnsureWritableSize(b, len) = Reallocate(b, b.capacity * 2 + len)
    BY <1>4 DEF EnsureWritableSize
  <2>2. b.capacity * 2 + len \in Nat /\ n <= b.capacity * 2 + len
    BY <1>1
  <2>3. /\ Shows(Reallocate(b, b.capacity * 2 + len), c, n)
        /\ Reallocate(b, b.capacity * 2 + len).capacity = b.capacity * 2 + len
        /\ Reallocate(b, b.capacity * 2 + len).write = n
    BY <2>2, ReallocateKeeps
  <2> QED
    BY <1>1, <1>4, <2>1, <2>3 DEF WritableSize
<1> QED
  BY <1>2, <1>3, <1>4

LEMMA Half ==
  ASSUME NEW m \in Nat
  PROVE  m \div 2 \in Nat /\ 2 * (m \div 2) <= m
OBVIOUS

\* Taking bytes leaves the later ones; if the buffer shrinks it does not need to again.
LEMMA BeenReadKeeps ==
  ASSUME NEW b, NEW c \in Nat, NEW n \in Nat, NEW len \in 0..n, Shows(b, c, n)
  PROVE  /\ Shows(BeenRead(b, len), c + len, n - len)
         /\ BeenRead(b, len).capacity # b.capacity => ~TooIdle(BeenRead(b, len))
<1> DEFINE a == [b EXCEPT !.read = b.read + len]
           target == IF n - len > InitialCapacity THEN n - len ELSE InitialCapacity
<1>1. ReadableSize(b) = n /\ b.read \in Nat /\ b.write \in Nat /\ b.capacity \in Nat
      /\ b.write <= b.capacity /\ b.write = b.read + n /\ b.block \in Nat
      /\ DOMAIN b = {"data", "read", "write", "capacity", "block"}
      /\ b.data \in [0..b.capacity - 1 -> Nat]
  BY DEF Shows, IsBuffer, ReadableSize
<1>2. /\ a.read = b.read + len /\ a.write = b.write /\ a.capacity = b.capacity
      /\ a.block = b.block /\ a.data = b.data
      /\ DOMAIN a = {"data", "read", "write", "capacity", "block"}
  BY <1>1
<1>3. IsBuffer(a) /\ ReadableSize(a) = n - len
  BY <1>1, <1>2 DEF IsBuffer, ReadableSize
<1>4. Numbered(a, c + len)
  <2> SUFFICES ASSUME NEW i \in (b.read + len)..b.write - 1
               PROVE  b.data[i] = (c + len) + 1 + (i - (b.read + len))
    BY <1>2 DEF Numbered
  <2>1. b.data[i] = c + 1 + (i - b.read)
    BY <1>1 DEF Shows, Numbered
  <2> QED
    BY <1>1, <2>1
<1>5. Shows(a, c + len, n - len)
  BY <1>3, <1>4 DEF Shows
<1>6. BeenRead(b, len) = IF TooIdle(a) THEN Reallocate(a, ShrunkCapacity(a)) ELSE a
  BY DEF BeenRead, ShrinkIfNeeded
<1> HIDE DEF a
<1>7. CASE ~TooIdle(a)
  BY <1>2, <1>5, <1>6, <1>7
<1>8. CASE TooIdle(a)
  <2>1. ShrunkCapacity(a) = target + target \div 2
    BY <1>3 DEF ShrunkCapacity
  <2>2. target \in Nat /\ target >= n - len /\ target >= InitialCapacity
        /\ (target = n - len \/ target = InitialCapacity)
    BY BufferAssumption
  <2> HIDE DEF target
  <2>3. target \div 2 \in Nat /\ 2 * (target \div 2) <= target
    BY <2>2, Half
  <2> DEFINE r == Reallocate(a, ShrunkCapacity(a))
  <2>4. ShrunkCapacity(a) \in Nat /\ n - len <= ShrunkCapacity(a)
    BY <2>1, <2>2, <2>3
  <2>5. c + len \in Nat /\ n - len \in Nat
    OBVIOUS
  <2>6. Shows(r, c + len, n - len) /\ r.capacity = ShrunkCapacity(a)
    BY <1>5, <2>4, <2>5, ReallocateKeeps
  <2> HIDE DEF r
  <2>7. r.capacity - ReadableSize(r) = target + target \div 2 - (n - len)
    BY <2>1, <2>2, <2>3, <2>4, <2>5, <2>6 DEF Shows
  <2>8. ~TooIdle(r)
    <3>1. CASE target = n - len
      BY <2>1, <2>2, <2>3, <2>5, <2>6, <2>7, <3>1 DEF TooIdle
    <3>2. CASE target = InitialCapacity
      <4>1. target + target \div 2 - (n - len) < ShrinkIdle
        BY <2>2, <2>3, <2>5, <3>2, BufferAssumption
      <4> QED
        BY <2>2, <2>3, <2>5, <2>7, <4>1, BufferAssumption DEF TooIdle
    <3> QED
      BY <2>2, <3>1, <3>2
  <2> QED
    BY <1>6, <1>8, <2>6, <2>8 DEF r
<1> QED
  BY <1>7, <1>8

\* The len bytes behind the readable ones are the numbers from first on.
Behind(b, len, first) ==
  \A i \in b.write..b.write + len - 1 : b.data[i] = first + i - b.write

\* Storing where the free end begins leaves what is readable alone.
LEMMA StoreKeeps ==
  ASSUME NEW b, NEW c \in Nat, NEW n \in Nat, NEW len \in Nat, NEW first \in Nat,
         Shows(b, c, n), len <= WritableSize(b)
  PROVE  /\ Shows(Store(b, b.write, len, first), c, n)
         /\ Behind(Store(b, b.write, len, first), len, first)
         /\ WritableSize(Store(b, b.write, len, first)) = WritableSize(b)
         /\ Store(b, b.write, len, first).capacity = b.capacity
<1> DEFINE s == Store(b, b.write, len, first)
<1>1. ReadableSize(b) = n /\ b.read \in Nat /\ b.write \in Nat /\ b.capacity \in Nat
      /\ b.write + len <= b.capacity /\ b.write = b.read + n /\ b.block \in Nat
  BY DEF Shows, IsBuffer, ReadableSize, WritableSize
<1>2. /\ DOMAIN b = {"data", "read", "write", "capacity", "block"}
      /\ b.data \in [0..b.capacity - 1 -> Nat]
  BY DEF Shows, IsBuffer
<1>3. /\ s.read = b.read /\ s.write = b.write /\ s.capacity = b.capacity
      /\ s.block = b.block
      /\ DOMAIN s = {"data", "read", "write", "capacity", "block"}
      /\ s.data = [i \in 0..b.capacity - 1 |->
                     IF i \in b.write..b.write + len - 1 THEN first + i - b.write
                                                         ELSE b.data[i]]
  BY <1>2 DEF Store
<1> HIDE DEF s
<1>4. ASSUME NEW i \in b.write..b.write + len - 1
      PROVE  first + i - b.write \in Nat /\ i \in 0..b.capacity - 1
  BY <1>1
<1>5. s.data \in [0..b.capacity - 1 -> Nat]
  <2> SUFFICES ASSUME NEW i \in 0..b.capacity - 1
               PROVE  (IF i \in b.write..b.write + len - 1 THEN first + i - b.write
                                                           ELSE b.data[i]) \in Nat
    BY <1>3
  <2> QED
    BY <1>2, <1>4
<1>6. IsBuffer(s)
  BY <1>1, <1>3, <1>5 DEF IsBuffer
<1>7. Numbered(s, c)
  <2> SUFFICES ASSUME NEW i \in b.read..b.write - 1
               PROVE  s.data[i] = c + 1 + (i - b.read)
    BY <1>3 DEF Numbered
  <2>1. i \in 0..b.capacity - 1 /\ i \notin b.write..b.write + len - 1
    BY <1>1
  <2>2. b.data[i] = c + 1 + (i - b.read)
    BY DEF Shows, Numbered
  <2> QED
    BY <1>3, <2>1, <2>2
<1>8. Behind(s, len, first)
  BY <1>3, <1>4 DEF Behind
<1>9. ReadableSize(s) = n /\ WritableSize(s) = WritableSize(b)
  BY <1>1, <1>3 DEF ReadableSize, WritableSize
<1> QED
  BY <1>3, <1>6, <1>7, <1>8, <1>9 DEF Shows, s

\* Counting them makes them readable.
LEMMA WrittenKeeps ==
  ASSUME NEW b, NEW c \in Nat, NEW n \in Nat, NEW len \in Nat,
         Shows(b, c, n), len <= WritableSize(b), Behind(b, len, c + n + 1)
  PROVE  /\ Shows(BeenWritten(b, len), c, n + len)
         /\ BeenWritten(b, len).capacity = b.capacity
<1> DEFINE w == BeenWritten(b, len)
<1>1. ReadableSize(b) = n /\ b.read \in Nat /\ b.write \in Nat /\ b.capacity \in Nat
      /\ b.write + len <= b.capacity /\ b.write = b.read + n /\ b.block \in Nat
  BY DEF Shows, IsBuffer, ReadableSize, WritableSize
<1>2. /\ DOMAIN b = {"data", "read", "write", "capacity", "block"}
      /\ b.data \in [0..b.capacity - 1 -> Nat]
  BY DEF Shows, IsBuffer
<1>3. /\ w.read = b.read /\ w.write = b.write + len /\ w.capacity = b.capacity
      /\ w.block = b.block /\ w.data = b.data
      /\ DOMAIN w = {"data", "read", "write", "capacity", "block"}
  BY <1>2 DEF BeenWritten
<1> HIDE DEF w
<1>4. IsBuffer(w) /\ ReadableSize(w) = n + len
  BY <1>1, <1>2, <1>3 DEF IsBuffer, ReadableSize
<1>5. Numbered(w, c)
  <2> SUFFICES ASSUME NEW i \in b.read..b.write + len - 1
               PROVE  b.data[i] = c + 1 + (i - b.read)
    BY <1>1, <1>3 DEF Numbered
  <2>1. CASE i < b.write
    <3>1. i \in b.read..b.write - 1
      BY <1>1, <2>1
    <3> QED
      BY <3>1 DEF Shows, Numbered
  <2>2. CASE ~(i < b.write)
    <3>1. i \in b.write..b.write + len - 1
      BY <1>1, <2>2
    <3>2. b.data[i] = (c + n + 1) + i - b.write
      BY <3>1 DEF Behind
    <3> QED
      BY <1>1, <3>2
  <2> QED
    BY <2>1, <2>2
<1> QED
  BY <1>3, <1>4, <1>5 DEF Shows, w

\* append() does both where there is room.
LEMMA AppendedKeeps ==
  ASSUME NEW b, NEW c \in Nat, NEW n \in Nat, NEW len \in Nat, Shows(b, c, n)
  PROVE  /\ Shows(Appended(b, len, c + n + 1), c, n + len)
         /\ Appended(b, len, c + n + 1).capacity >= b.capacity
<1> DEFINE room == EnsureWritableSize(b, len)
           s == Store(room, room.write, len, c + n + 1)
<1>1. Shows(room, c, n) /\ WritableSize(room) >= len /\ room.capacity >= b.capacity
  BY EnsureKeeps
<1>2. Appended(b, len, c + n + 1) = BeenWritten(s, len)
  BY DEF Appended
<1>3. c + n + 1 \in Nat
  OBVIOUS
<1>4. room.capacity \in Nat /\ room.write \in Nat /\ b.capacity \in Nat
  BY <1>1 DEF Shows, IsBuffer
<1> HIDE DEF room
<1>5. len <= WritableSize(room)
  BY <1>1, <1>4 DEF WritableSize
<1>6. /\ Shows(s, c, n) /\ Behind(s, len, c + n + 1)
      /\ WritableSize(s) = WritableSize(room) /\ s.capacity = room.capacity
  BY <1>1, <1>3, <1>5, StoreKeeps
<1> HIDE DEF s
<1>7. Shows(BeenWritten(s, len), c, n + len) /\ BeenWritten(s, len).capacity = s.capacity
  BY <1>5, <1>6, WrittenKeeps
<1> QED
  BY <1>1, <1>2, <1>6, <1>7

-----------------------------------------------------------------------------
\* How many bytes the user has still to see, or to be told of.
Waiting == received - stored - consumed

\* The inductive invariant.  While a completion is on its way to the handler its bytes
\* are behind the readable ones.
Inv ==
  /\ TypeOK
  /\ pc # "corrupt"
  /\ Waiting \in Nat /\ Shows(buffer, consumed, Waiting)
  /\ pc = "pending" => recv = FreeEnd(buffer) /\ recv.len > 0
  /\ stored <= WritableSize(buffer) /\ Behind(buffer, stored, consumed + Waiting + 1)
  /\ pc # "onRead" => stored = 0

LEMMA NewShowsNothing == Shows(NewBuffer, 0, 0)
BY BufferAssumption DEF NewBuffer, Shows, IsBuffer, Numbered, ReadableSize, Junk

\* Nothing is behind what is readable when no completion is on its way.
LEMMA NothingBehind ==
  ASSUME NEW b, NEW c, NEW n, NEW first, Shows(b, c, n)
  PROVE  WritableSize(b) \in Nat /\ Behind(b, 0, first)
BY DEF Shows, IsBuffer, Behind, WritableSize

LEMMA InitInv == Init => Inv
<1> SUFFICES ASSUME Init PROVE Inv
  OBVIOUS
<1>1. Waiting = 0 /\ stored = 0 /\ consumed = 0
  BY DEF Init, Waiting
<1>2. Shows(buffer, 0, 0)
  BY NewShowsNothing DEF Init
<1>3. WritableSize(buffer) \in Nat /\ Behind(buffer, 0, 0 + 0 + 1)
  BY <1>2, NothingBehind
<1>4. TypeOK
  BY <1>2 DEF Init, TypeOK, NoRecv, Shows
<1> QED
  BY <1>1, <1>2, <1>3, <1>4 DEF Init, Inv

LEMMA GoReadingKeeps ==
  ASSUME Inv, GoReading
  PROVE  Inv'
<1>1. consumed \in Nat /\ Waiting \in Nat /\ Shows(buffer, consumed, Waiting) /\ stored = 0
  BY DEF Inv, GoReading, TypeOK
<1>2. Waiting' = Waiting /\ consumed' = consumed /\ stored' = 0 /\ pc' = "pending"
  BY <1>1 DEF GoReading, Waiting
<1>3. Shows(buffer', consumed, Waiting) /\ WritableSize(buffer') >= 1
  BY <1>1, EnsureKeeps DEF GoReading
<1>4. WritableSize(buffer') \in Nat /\ Behind(buffer', 0, consumed + Waiting + 1)
  BY <1>3, NothingBehind
<1>5. recv' = FreeEnd(buffer') /\ recv'.len = WritableSize(buffer')
  BY DEF GoReading, FreeEnd
<1>6. TypeOK'
  BY <1>2, <1>3, <1>4, <1>5 DEF Inv, GoReading, TypeOK, FreeEnd, Shows, IsBuffer
<1> QED
  BY <1>1, <1>2, <1>3, <1>4, <1>5, <1>6 DEF Inv

\* The kernel stores where the buffer has its free end, so nothing is corrupted.
LEMMA ArriveKeeps ==
  ASSUME Inv, NEW n \in 1..MaxBytes, Arrive(n)
  PROVE  Inv'
<1> DEFINE first == received + 1
<1>1. /\ consumed \in Nat /\ Waiting \in Nat /\ Shows(buffer, consumed, Waiting)
      /\ stored = 0 /\ received \in Nat /\ n \in Nat /\ first \in Nat
      /\ WritableSize(buffer) \in Nat
  BY NothingBehind, ReceiveAssumption DEF Inv, Arrive, TypeOK
<1>2. recv = FreeEnd(buffer) /\ n <= WritableSize(buffer) /\ recv.at = buffer.write
  BY <1>1 DEF Inv, Arrive, FreeEnd
<1>3. buffer' = Store(buffer, buffer.write, n, first) /\ pc' = "onRead"
  BY <1>2 DEF Arrive
<1>4. received' = received + n /\ stored' = n /\ consumed' = consumed /\ recv' = NoRecv
  BY DEF Arrive
<1>5. Waiting' = Waiting /\ first = consumed + Waiting + 1
  BY <1>1, <1>4 DEF Waiting, Inv, TypeOK
<1> HIDE DEF first
<1> DEFINE s == Store(buffer, buffer.write, n, first)
<1>6. /\ Shows(buffer', consumed, Waiting) /\ Behind(buffer', n, first)
      /\ WritableSize(buffer') = WritableSize(buffer)
  <2>1. /\ Shows(s, consumed, Waiting) /\ Behind(s, n, first)
        /\ WritableSize(s) = WritableSize(buffer)
    <3> n \in Nat /\ first \in Nat /\ n <= WritableSize(buffer)
      BY <1>1, <1>2
    <3> QED
      BY <1>1, StoreKeeps
  <2> QED
    BY <2>1, <1>3
<1>7. TypeOK'
  BY <1>1, <1>3, <1>4, <1>6 DEF TypeOK, NoRecv, Shows, Inv
<1> QED
  BY <1>1, <1>2, <1>3, <1>4, <1>5, <1>6, <1>7 DEF Inv

LEMMA EndOfStreamKeeps ==
  ASSUME Inv, EndOfStream
  PROVE  Inv'
BY DEF Inv, EndOfStream, TypeOK, NoRecv, Waiting

LEMMA OnReadKeeps ==
  ASSUME Inv, OnRead
  PROVE  Inv'
<1>1. /\ consumed \in Nat /\ Waiting \in Nat /\ Shows(buffer, consumed, Waiting)
      /\ stored \in Nat /\ received \in Nat /\ stored <= WritableSize(buffer)
      /\ Behind(buffer, stored, consumed + Waiting + 1)
  BY DEF Inv, TypeOK
<1>2. /\ buffer' = BeenWritten(buffer, stored) /\ pc' = "message" /\ stored' = 0
      /\ recv' = recv /\ received' = received /\ consumed' = consumed
  BY DEF OnRead
<1>3. Waiting' = Waiting + stored /\ Waiting' \in Nat
  BY <1>1, <1>2 DEF Waiting
<1>4. Shows(buffer', consumed, Waiting')
  BY <1>1, <1>2, <1>3, WrittenKeeps
<1>5. WritableSize(buffer') \in Nat /\ Behind(buffer', 0, consumed + Waiting' + 1)
  BY <1>4, NothingBehind
<1>6. TypeOK'
  BY <1>1, <1>2, <1>4 DEF TypeOK, Shows, Inv
<1> QED
  BY <1>2, <1>3, <1>4, <1>5, <1>6 DEF Inv

\* What the callbacks do to the buffer: any step to a buffer that shows what is left.
LEMMA UserKeeps ==
  ASSUME Inv, pc = "message", UNCHANGED <<recv, pc, stored>>, received' \in Nat,
         consumed' \in Nat, Waiting' \in Nat, Shows(buffer', consumed', Waiting')
  PROVE  Inv'
<1>1. WritableSize(buffer') \in Nat /\ Behind(buffer', 0, consumed' + Waiting' + 1)
  BY NothingBehind
<1>2. TypeOK' /\ stored' = 0
  BY DEF Inv, TypeOK, Shows
<1> QED
  BY <1>1, <1>2 DEF Inv

\* been_read() and been_read_all().
LEMMA TakeShows ==
  ASSUME Inv, NEW n \in 1..MaxBytes, Take(n)
  PROVE  /\ consumed' = consumed + n /\ Waiting' = Waiting - n /\ n \in 0..Waiting
         /\ Shows(buffer', consumed + n, Waiting - n)
         /\ buffer'.capacity # buffer.capacity => ~TooIdle(buffer')
<1>1. /\ consumed \in Nat /\ Waiting \in Nat /\ Shows(buffer, consumed, Waiting)
      /\ ReadableSize(buffer) = Waiting
  BY DEF Inv, TypeOK, Shows
<1>2. n \in 0..Waiting
  BY <1>1 DEF Take
<1>3. buffer' = BeenRead(buffer, n)
  BY DEF Take, BeenReadAll
<1>4. consumed' = consumed + n /\ Waiting' = Waiting - n
  BY <1>1, <1>2 DEF Take, Waiting, Inv, TypeOK
<1> QED
  BY <1>1, <1>2, <1>3, <1>4, BeenReadKeeps

LEMMA TakeKeeps ==
  ASSUME Inv, NEW n \in 1..MaxBytes, Take(n)
  PROVE  Inv'
<1>1. consumed \in Nat /\ Waiting \in Nat
  BY DEF Inv, TypeOK
<1>2. /\ consumed' = consumed + n /\ Waiting' = Waiting - n /\ n \in 0..Waiting
      /\ Shows(buffer', consumed + n, Waiting - n)
  BY TakeShows
<1>3. consumed' \in Nat /\ Waiting' \in Nat
  BY <1>1, <1>2
<1>4. received' \in Nat
  BY DEF Inv, TypeOK, Take
<1> QED
  BY <1>2, <1>3, <1>4, UserKeeps DEF Take

LEMMA DropKeeps ==
  ASSUME Inv, Drop
  PROVE  Inv'
<1>1. /\ consumed' = received /\ received' = received /\ stored' = 0 /\ received \in Nat
      /\ IsBuffer(buffer)
  BY DEF Inv, TypeOK, Drop
<1>2. Waiting' = 0
  BY <1>1 DEF Waiting
<1>3. Shows(Clear(buffer), received, 0)
  BY <1>1 DEF Clear, Shows, IsBuffer, Numbered, ReadableSize
<1>4. Shows(MovedFrom(buffer), received, 0)
  BY <1>1 DEF MovedFrom, Shows, IsBuffer, Numbered, ReadableSize
<1> QED
  BY <1>1, <1>2, <1>3, <1>4, UserKeeps DEF Drop

LEMMA PutKeeps ==
  ASSUME Inv, NEW n \in 1..MaxBytes, Put(n)
  PROVE  Inv' /\ buffer'.capacity >= buffer.capacity
<1>1. /\ consumed \in Nat /\ Waiting \in Nat /\ Shows(buffer, consumed, Waiting)
      /\ received \in Nat /\ n \in Nat /\ stored = 0
  BY DEF Inv, TypeOK, Put
<1>2. received + 1 = consumed + Waiting + 1 /\ Waiting' = Waiting + n
  BY <1>1 DEF Waiting, Put
<1>3. buffer' = Appended(buffer, n, consumed + Waiting + 1)
  BY <1>2 DEF Put
<1>4. Shows(buffer', consumed, Waiting + n) /\ buffer'.capacity >= buffer.capacity
  BY <1>1, <1>3, AppendedKeeps
<1>5. received' \in Nat /\ consumed' = consumed /\ Waiting' \in Nat
  BY <1>1, <1>2 DEF Put
<1> QED
  BY <1>1, <1>2, <1>4, <1>5, UserKeeps DEF Put

LEMMA EndMessageKeeps ==
  ASSUME Inv, EndMessage
  PROVE  Inv'
BY DEF Inv, EndMessage, TypeOK, Waiting

LEMMA StutterKeeps ==
  ASSUME Inv, UNCHANGED vars
  PROVE  Inv'
BY DEF Inv, vars, TypeOK, Waiting

\* Every step keeps the invariant.
LEMMA NextInv ==
  ASSUME Inv, [Next]_vars
  PROVE  Inv'
<1>1. CASE GoReading
  BY <1>1, GoReadingKeeps
<1>2. CASE EndOfStream
  BY <1>2, EndOfStreamKeeps
<1>3. CASE OnRead
  BY <1>3, OnReadKeeps
<1>4. CASE Drop
  BY <1>4, DropKeeps
<1>5. CASE EndMessage
  BY <1>5, EndMessageKeeps
<1>6. ASSUME NEW n \in 1..MaxBytes, Arrive(n) \/ Take(n) \/ Put(n)
      PROVE  Inv'
  BY <1>6, ArriveKeeps, TakeKeeps, PutKeeps
<1>7. CASE UNCHANGED vars
  BY <1>7, StutterKeeps
<1> QED
  BY <1>1, <1>2, <1>3, <1>4, <1>5, <1>6, <1>7 DEF Next

\* The invariant holds all along.
THEOREM Invariance == Spec => []Inv
<1>1. Init => Inv
  BY InitInv
<1>2. Inv /\ [Next]_vars => Inv'
  BY NextInv
<1> QED
  BY <1>1, <1>2, PTL DEF Spec

-----------------------------------------------------------------------------
\* The buffer stays well formed: 0 <= read_index_ <= write_index_ <= capacity_.
THEOREM TypeCorrect == Spec => []TypeOK
<1>1. Inv => TypeOK
  BY DEF Inv
<1> QED
  BY <1>1, Invariance, PTL

\* What the user sees is what has arrived and was not taken, in order.
THEOREM StreamIntact == Spec => []StreamKept
<1>1. Inv => StreamKept
  <2> SUFFICES ASSUME Inv PROVE StreamKept
    OBVIOUS
  <2>1. /\ ReadableSize(buffer) = Waiting /\ Numbered(buffer, consumed) /\ IsBuffer(buffer)
        /\ consumed \in Nat /\ Waiting \in Nat
    BY DEF Inv, Shows, TypeOK
  <2>2. ASSUME NEW i \in 1..Waiting
        PROVE  buffer.data[buffer.read + i - 1] = consumed + i
    <3>1. buffer.read \in Nat /\ buffer.write = buffer.read + Waiting
      BY <2>1 DEF IsBuffer, ReadableSize
    <3>2. buffer.read + i - 1 \in buffer.read..buffer.write - 1
      BY <2>1, <3>1
    <3> QED
      BY <2>1, <3>1, <3>2 DEF Numbered
  <2>3. Content(buffer) = [i \in 1..Waiting |-> buffer.data[buffer.read + i - 1]]
    BY <2>1 DEF Content
  <2> QED
    BY <2>2, <2>3 DEF StreamKept, Waiting
<1> QED
  BY <1>1, Invariance, PTL

\* WSARecv always has room to store into, in the block that is alive.
THEOREM RecvSafe == Spec => []RecvTargetsFreeEnd
<1>1. Inv => RecvTargetsFreeEnd
  BY DEF Inv, RecvTargetsFreeEnd
<1> QED
  BY <1>1, Invariance, PTL

\* What CapacityFollowsUse says of one step.
MemoryStep ==
  /\ pc = "goReading" /\ buffer'.capacity > buffer.capacity
       => ReadableSize(buffer) = buffer.capacity
  /\ buffer'.capacity \in 1..buffer.capacity - 1 => ~TooIdle(buffer')

LEMMA NextMemory ==
  ASSUME Inv, [Next]_vars
  PROVE  MemoryStep
<1>1. /\ consumed \in Nat /\ Waiting \in Nat /\ Shows(buffer, consumed, Waiting)
      /\ buffer.capacity \in Nat /\ buffer.write \in 0..buffer.capacity
      /\ buffer.read \in 0..buffer.write
      /\ DOMAIN buffer = {"data", "read", "write", "capacity", "block"}
  BY DEF Inv, TypeOK, IsBuffer
<1>2. CASE GoReading
  <2>1. buffer' = EnsureWritableSize(buffer, 1)
    BY <1>2 DEF GoReading
  <2>2. /\ buffer'.capacity >= buffer.capacity
        /\ buffer'.capacity > buffer.capacity => buffer.read + WritableSize(buffer) < 1
        /\ Shows(buffer', consumed, Waiting)
    BY <1>1, <2>1, EnsureKeeps
  <2>3. buffer'.capacity \in Nat
    BY <2>2 DEF Shows, IsBuffer
  <2> QED
    BY <1>1, <2>2, <2>3 DEF MemoryStep, WritableSize, ReadableSize
<1>3. ASSUME NEW n \in 1..MaxBytes, Take(n) PROVE MemoryStep
  <2>1. buffer'.capacity # buffer.capacity => ~TooIdle(buffer')
    BY <1>3, TakeShows
  <2> QED
    BY <1>1, <1>3, <2>1 DEF MemoryStep, Take
<1>4. ASSUME NEW n \in 1..MaxBytes, Put(n) PROVE MemoryStep
  <2>1. buffer'.capacity >= buffer.capacity /\ IsBuffer(buffer')
    BY <1>4, PutKeeps DEF Inv, TypeOK
  <2>2. buffer'.capacity \in Nat
    BY <2>1 DEF IsBuffer
  <2> QED
    BY <1>1, <1>4, <2>1, <2>2 DEF MemoryStep, Put
<1>5. CASE Drop
  <2>1. Clear(buffer).capacity = buffer.capacity
    BY <1>1 DEF Clear
  <2>2. MovedFrom(buffer).capacity = 0
    BY DEF MovedFrom
  <2>3. buffer'.capacity = buffer.capacity \/ buffer'.capacity = 0
    BY <1>5, <2>1, <2>2 DEF Drop
  <2> QED
    BY <1>1, <1>5, <2>3 DEF MemoryStep, Drop
<1>6. ASSUME NEW n \in 1..MaxBytes, Arrive(n) PROVE MemoryStep
  <2>1. buffer'.capacity = buffer.capacity
    BY <1>1, <1>6 DEF Arrive, Store
  <2> QED
    BY <1>1, <2>1 DEF MemoryStep
<1>7. ASSUME EndOfStream \/ OnRead \/ EndMessage \/ UNCHANGED vars PROVE MemoryStep
  <2>1. buffer'.capacity = buffer.capacity
    BY <1>1, <1>7 DEF EndOfStream, OnRead, EndMessage, vars, BeenWritten
  <2> QED
    BY <1>1, <2>1 DEF MemoryStep
<1> QED
  BY <1>2, <1>3, <1>4, <1>5, <1>6, <1>7 DEF Next

\* Reading grows the buffer only when it is full of unread bytes, and one shrink is enough.
THEOREM MemoryBounded == Spec => CapacityFollowsUse
<1>1. Inv /\ [Next]_vars => [MemoryStep]_vars
  BY NextMemory
<1> QED
  BY <1>1, Invariance, PTL DEF Spec, CapacityFollowsUse, MemoryStep
=============================================================================
