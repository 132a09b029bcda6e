------------------------- MODULE CPUInterrupts_proofs -------------------------
(***************************************************************************)
(* Proofs about CPUInterrupts, for stacks of any size and programs of any  *)
(* shape: whatever interrupts and calls are nested, the bytes of each      *)
(* survive on the stack until they are pulled, and returning restores what *)
(* was left.  All of it rests on a | b evaluating a first (LEFT_FIRST),    *)
(* which the language leaves open.                                         *)
(***************************************************************************)
EXTENDS CPUInterrupts, SequenceTheorems, TLAPS

-----------------------------------------------------------------------------
(* The stack page as a circle.                                             *)

LEMMA Wraps ==
    /\ \A x \in 0..(STACK_SIZE - 1) : x % STACK_SIZE = x
    /\ \A x \in -STACK_SIZE..-1 : x % STACK_SIZE = x + STACK_SIZE
    /\ \A x \in STACK_SIZE..(2 * STACK_SIZE - 1) : x % STACK_SIZE = x - STACK_SIZE
    /\ \A x \in Int : x % STACK_SIZE \in Offsets
<1>1. \A x \in 0..(STACK_SIZE - 1) : x % STACK_SIZE = x
  BY InterruptAssumption
<1>2. \A x \in -STACK_SIZE..-1 : x % STACK_SIZE = x + STACK_SIZE
  BY InterruptAssumption
<1>3. \A x \in STACK_SIZE..(2 * STACK_SIZE - 1) : x % STACK_SIZE = x - STACK_SIZE
  BY InterruptAssumption
<1>4. \A x \in Int : x % STACK_SIZE \in Offsets
  BY InterruptAssumption DEF Offsets
<1> QED
  BY <1>1, <1>2, <1>3, <1>4

LEMMA Slots ==
    ASSUME NEW n \in 0..STACK_SIZE
    PROVE  /\ Slot(n) = IF n <= STACK_SIZE - 3 THEN STACK_SIZE - 3 - n
                                               ELSE 2 * STACK_SIZE - 3 - n
           /\ Slot(n) \in Offsets
<1>1. CASE n <= STACK_SIZE - 3
  BY <1>1, Wraps, InterruptAssumption DEF Slot, Offsets
<1>2. CASE n > STACK_SIZE - 3
  BY <1>2, Wraps, InterruptAssumption DEF Slot, Offsets
<1> QED
  BY <1>1, <1>2, InterruptAssumption

(* How far below the stack pointer the byte on top of m others lies, when  *)
(* d bytes are in use.                                                     *)
LEMMA SlotDistance ==
    ASSUME NEW d \in 0..STACK_SIZE, NEW m \in 0..(STACK_SIZE - 1)
    PROVE  (Slot(d) - Slot(m)) % STACK_SIZE = IF m >= d THEN m - d ELSE m - d + STACK_SIZE
<1> DEFINE x == Slot(d) - Slot(m)
<1>1. x \in {m - d, m - d + STACK_SIZE, m - d - STACK_SIZE}
  BY Slots, InterruptAssumption
<1>2. x \in (1 - STACK_SIZE)..(STACK_SIZE - 1)
  BY Slots, InterruptAssumption DEF Offsets
<1> HIDE DEF x
<1>3. x % STACK_SIZE = IF x >= 0 THEN x ELSE x + STACK_SIZE
  BY <1>2, Wraps, InterruptAssumption
<1>4. x % STACK_SIZE = IF m >= d THEN m - d ELSE m - d + STACK_SIZE
  BY <1>1, <1>2, <1>3, InterruptAssumption
<1> QED
  BY <1>4 DEF x

LEMMA SlotMoves ==
    ASSUME NEW d \in 0..STACK_SIZE, NEW n \in 0..3
    PROVE  /\ d + n <= STACK_SIZE => (Slot(d) - n) % STACK_SIZE = Slot(d + n)
           /\ n <= d => (Slot(d) + n) % STACK_SIZE = Slot(d - n)
<1>1. ASSUME d + n <= STACK_SIZE
      PROVE  (Slot(d) - n) % STACK_SIZE = Slot(d + n)
  <2> DEFINE x == Slot(d) - n
  <2>1. /\ x \in -STACK_SIZE..(STACK_SIZE - 1)
        /\ Slot(d + n) = IF x >= 0 THEN x ELSE x + STACK_SIZE
    BY <1>1, Slots, InterruptAssumption DEF Offsets
  <2> HIDE DEF x
  <2>2. x % STACK_SIZE = Slot(d + n)
    BY <2>1, Wraps, InterruptAssumption
  <2> QED
    BY <2>2 DEF x
<1>2. ASSUME n <= d
      PROVE  (Slot(d) + n) % STACK_SIZE = Slot(d - n)
  <2> DEFINE x == Slot(d) + n
  <2>1. /\ x \in 0..(2 * STACK_SIZE - 1)
        /\ Slot(d - n) = IF x < STACK_SIZE THEN x ELSE x - STACK_SIZE
    BY <1>2, Slots, InterruptAssumption DEF Offsets
  <2> HIDE DEF x
  <2>2. x % STACK_SIZE = Slot(d - n)
    BY <2>1, Wraps, InterruptAssumption
  <2> QED
    BY <2>2 DEF x
<1> QED
  BY <1>1, <1>2

-----------------------------------------------------------------------------
(* Bytes.                                                                  *)

(* An address survives its split into two bytes.                           *)
LEMMA Addressing ==
    ASSUME NEW a \in Addresses
    PROVE  /\ High(a) \in Bytes /\ Low(a) \in Bytes
           /\ 256 * High(a) + Low(a) = a
           /\ Low(a) + 256 * High(a) = a
<1>1. LastAddress = 65535
  BY DEF LastAddress
<1>2. a \in Nat /\ a <= 65535
  BY <1>1 DEF Addresses
<1>3. a = 256 * (a \div 256) + (a % 256) /\ a % 256 \in 0..255 /\ a \div 256 \in 0..255
  BY <1>2
<1> QED
  BY <1>2, <1>3 DEF Bytes, High, Low

LEMMA NextAddresses ==
    ASSUME NEW a \in Addresses
    PROVE  /\ Plus(a, 2) \in Addresses
           /\ Plus(Plus(a, 2), 1) = Plus(a, 3)
<1>1. LastAddress \in Nat
  BY DEF LastAddress
<1>2. a \in Nat
  BY <1>1 DEF Addresses
<1>3. Plus(a, 2) \in Addresses
  BY <1>1, <1>2 DEF Addresses, Plus
<1>4. Plus(Plus(a, 2), 1) = Plus(a, 3)
  BY <1>2 DEF Plus, LastAddress
<1> QED
  BY <1>3, <1>4

(* The flags survive being packed into a byte, but for B.                  *)
LEMMA FlagsRoundTrip ==
    ASSUME NEW set \in SUBSET Flags
    PROVE  getFlags(set) \in Bytes /\ setFlags(getFlags(set)) = set \ {"B"}
<1> DEFINE bit(flag) == IF flag \in set THEN 1 ELSE 0
           c == bit("C")
           z == bit("Z")
           i == bit("I")
           d == bit("D")
           b == bit("B")
           o == bit("O")
           n == bit("N")
           byte == c + 2 * z + 4 * i + 8 * d + 16 * b + 32 + 64 * o + 128 * n
<1>1. getFlags(set) = byte
  BY DEF getFlags, Bit
<1>2. c \in 0..1 /\ z \in 0..1 /\ i \in 0..1 /\ d \in 0..1 /\ b \in 0..1 /\ o \in 0..1 /\ n \in 0..1
  OBVIOUS
<1>3. /\ byte \in Bytes
      /\ byte % 2 = c
      /\ (byte \div 1) % 2 = c
      /\ (byte \div 2) % 2 = z
      /\ (byte \div 4) % 2 = i
      /\ (byte \div 8) % 2 = d
      /\ (byte \div 64) % 2 = o
      /\ (byte \div 128) % 2 = n
  <2> HIDE DEF c, z, i, d, b, o, n
  <2> QED
    BY <1>2 DEF Bytes
<1> HIDE DEF byte
<1>4. \A flag \in Flags \ {"B"} : HasBit(byte, Bit(flag)) <=> flag \in set
  BY <1>3 DEF Flags, HasBit, Bit
<1> QED
  BY <1>1, <1>3, <1>4 DEF setFlags

LEMMA SetFlagsAreFlags == \A byte : setFlags(byte) \subseteq Flags \ {"B"}
BY DEF setFlags

-----------------------------------------------------------------------------
(* The invariant: the outstanding pushes lie one on top of the other from  *)
(* the bottom of the stack to the stack pointer, and memory holds each.    *)

(* The bytes in use when a frame was on top. *)
End(frame) == frame.at + Size(frame.kind)

(* The i-th byte a page holds of a frame. *)
ByteOf(page, frame, i) == page[Slot(frame.at + i - 1)]

Holds(page, frame) ==
    LET address == 256 * ByteOf(page, frame, 1) + ByteOf(page, frame, 2)
    IN  /\ frame.kind \in {"nmi", "irq", "brk"} => address = frame.pc
        /\ frame.kind \in {"nmi", "irq"} => setFlags(ByteOf(page, frame, 3)) = frame.flags
        /\ frame.kind = "jsr" => Plus(address, 1) = frame.pc
        /\ frame.kind = "php" => setFlags(ByteOf(page, frame, 1)) = frame.flags
        /\ frame.kind = "pha" => ByteOf(page, frame, 1) = frame.A

(* The pushes that hold an address to resume at. *)
Resumed == {"nmi", "irq", "brk", "jsr"}

FramesNest ==
    /\ Depth \in 0..STACK_SIZE
    /\ sp = Slot(Depth)
    /\ \A k \in 1..Len(frames) :
          /\ frames[k].at = IF k = 1 THEN 0 ELSE End(frames[k - 1])
          /\ End(frames[k]) <= Depth
          /\ \A j \in 1..(k - 1) : End(frames[j]) <= frames[k].at
          /\ frames[k].kind \in Resumed => frames[k].pc \in POINTS

Inv == TypeOK /\ FramesNest /\ StackHoldsFrames

LEMMA FrameSizes ==
    ASSUME NEW frame \in Frame
    PROVE  /\ Size(frame.kind) \in 1..3 /\ End(frame) \in Nat /\ frame.at \in 0..STACK_SIZE
           /\ frame.kind \in {"nmi", "irq", "brk"} => Size(frame.kind) = 3
           /\ frame.kind = "jsr" => Size(frame.kind) = 2
           /\ frame.kind \in {"php", "pha"} => Size(frame.kind) = 1
BY InterruptAssumption DEF Frame, Kinds, Size, End

LEMMA StackHoldsEach ==
    ASSUME frames \in Seq(Frame)
    PROVE  StackHoldsFrames <=> \A k \in 1..Len(frames) : Holds(stack, frames[k])
<1>1. DOMAIN frames = 1..Len(frames)
  OBVIOUS
<1> QED
  BY <1>1 DEF StackHoldsFrames, Holds, Saved, ByteOf

(* A frame only depends on its own bytes. *)
LEMMA HoldsElsewhere ==
    ASSUME NEW frame \in Frame, NEW page, NEW other, Holds(page, frame),
           \A i \in 1..Size(frame.kind) : ByteOf(page, frame, i) = ByteOf(other, frame, i)
    PROVE  Holds(other, frame)
<1>1. CASE frame.kind \in {"nmi", "irq", "brk"}
  <2>1. \A i \in 1..3 : ByteOf(page, frame, i) = ByteOf(other, frame, i)
    BY <1>1, FrameSizes
  <2> QED
    BY <1>1, <2>1 DEF Holds
<1>2. CASE frame.kind = "jsr"
  <2>1. \A i \in 1..2 : ByteOf(page, frame, i) = ByteOf(other, frame, i)
    BY <1>2, FrameSizes
  <2> QED
    BY <1>2, <2>1 DEF Holds
<1>3. CASE frame.kind \in {"php", "pha"}
  <2>1. ByteOf(page, frame, 1) = ByteOf(other, frame, 1)
    BY <1>3, FrameSizes
  <2> QED
    BY <1>3, <2>1 DEF Holds
<1> QED
  BY <1>1, <1>2, <1>3 DEF Frame, Kinds

(* What a push leaves as it was, and what it writes.                       *)
LEMMA PushedBytes ==
    ASSUME NEW d \in 0..STACK_SIZE, sp = Slot(d), stack \in [Offsets -> Bytes],
           NEW bytes \in Seq(Bytes), d + Len(bytes) <= STACK_SIZE
    PROVE  /\ Pushed(bytes) \in [Offsets -> Bytes]
           /\ \A m \in 0..(d - 1) : Pushed(bytes)[Slot(m)] = stack[Slot(m)]
           /\ \A i \in 1..Len(bytes) : Pushed(bytes)[Slot(d + i - 1)] = bytes[i]
<1>1. Len(bytes) \in Nat /\ DOMAIN bytes = 1..Len(bytes) /\ \A i \in 1..Len(bytes) : bytes[i] \in Bytes
  BY LenProperties, ElementOfSeq
<1>2. Pushed(bytes) \in [Offsets -> Bytes]
  BY <1>1 DEF Pushed
<1>3. \A a \in Offsets :
          Pushed(bytes)[a] = IF ((sp - a) % STACK_SIZE) + 1 \in 1..Len(bytes)
                             THEN bytes[((sp - a) % STACK_SIZE) + 1] ELSE stack[a]
  BY <1>1 DEF Pushed
<1>4. ASSUME NEW m \in 0..(d - 1)
      PROVE  Pushed(bytes)[Slot(m)] = stack[Slot(m)]
  <2>1. m \in 0..STACK_SIZE /\ m \in 0..(STACK_SIZE - 1)
    BY InterruptAssumption
  <2>2. Slot(m) \in Offsets
    BY <2>1, Slots
  <2>3. (Slot(d) - Slot(m)) % STACK_SIZE = m - d + STACK_SIZE
    BY <2>1, SlotDistance
  <2>4. ((sp - Slot(m)) % STACK_SIZE) + 1 \notin 1..Len(bytes)
    BY <1>1, <2>3, InterruptAssumption
  <2> QED
    BY <1>3, <2>2, <2>4
<1>5. ASSUME NEW i \in 1..Len(bytes)
      PROVE  Pushed(bytes)[Slot(d + i - 1)] = bytes[i]
  <2> DEFINE m == d + i - 1
  <2>1. m \in 0..STACK_SIZE /\ m \in 0..(STACK_SIZE - 1) /\ m >= d /\ m - d + 1 = i
    BY <1>1, InterruptAssumption
  <2> HIDE DEF m
  <2>2. Slot(m) \in Offsets
    BY <2>1, Slots
  <2>3. (Slot(d) - Slot(m)) % STACK_SIZE = m - d
    BY <2>1, SlotDistance
  <2>4. ((sp - Slot(m)) % STACK_SIZE) + 1 = i
    BY <2>1, <2>3
  <2>5. Pushed(bytes)[Slot(m)] = bytes[i]
    BY <1>3, <2>2, <2>4
  <2> QED
    BY <2>5 DEF m
<1> QED
  BY <1>2, <1>4, <1>5

-----------------------------------------------------------------------------

(* What the actions may do to the stack without breaking the invariant.    *)
StackIsSound ==
    /\ stack \in [Offsets -> Bytes]
    /\ sp \in Offsets
    /\ frames \in Seq(Frame)
    /\ FramesNest
    /\ StackHoldsFrames

LEMMA DepthOfTop ==
    ASSUME frames \in Seq(Frame), FramesNest
    PROVE  /\ Len(frames) \in Nat
           /\ Depth = IF Len(frames) = 0 THEN 0 ELSE End(frames[Len(frames)])
           /\ \A k \in 1..Len(frames) : frames[k] \in Frame
BY ElementOfSeq, EmptySeq DEF Depth, Top, End

(* A push that has room, and writes what its frame says, keeps the others. *)
LEMMA PushKeepsStack ==
    ASSUME StackIsSound, NEW kind \in Kinds,
           NEW resume \in Addresses, kind \in Resumed => resume \in POINTS,
           NEW kept \in SUBSET Flags, NEW byte \in Bytes,
           NEW bytes \in Seq(Bytes), Len(bytes) = Size(kind), HasRoom(Size(kind)),
           kind \in {"nmi", "irq", "brk"} => 256 * bytes[1] + bytes[2] = resume,
           kind \in {"nmi", "irq"} => setFlags(bytes[3]) = kept,
           kind = "jsr" => Plus(256 * bytes[1] + bytes[2], 1) = resume,
           kind = "php" => setFlags(bytes[1]) = kept,
           kind = "pha" => bytes[1] = byte,
           pushStack(bytes), Push(kind, resume, kept, byte)
    PROVE  StackIsSound'
<1> DEFINE new == [kind |-> kind, at |-> Depth, pc |-> resume, flags |-> kept, A |-> byte]
           n == Len(frames)
<1>0. /\ frames \in Seq(Frame) /\ FramesNest /\ StackHoldsFrames
      /\ stack \in [Offsets -> Bytes] /\ Depth \in 0..STACK_SIZE /\ sp = Slot(Depth)
      /\ n \in Nat /\ Depth = (IF n = 0 THEN 0 ELSE End(frames[n]))
      /\ \A k \in 1..n : frames[k] \in Frame
  BY DepthOfTop DEF StackIsSound, FramesNest
<1>1. /\ new \in Frame /\ new.at = Depth /\ new.kind = kind /\ new.pc = resume
      /\ new.flags = kept /\ new.A = byte
  BY <1>0 DEF Frame
<1>2. /\ Size(kind) \in 1..3 /\ Depth + Size(kind) <= STACK_SIZE
      /\ End(new) = Depth + Size(kind)
  BY <1>1, FrameSizes DEF HasRoom, End
<1>3. frames' = Append(frames, new)
  BY DEF Push
<1> HIDE DEF new
<1>4. /\ frames' \in Seq(Frame) /\ Len(frames') = n + 1 /\ frames'[n + 1] = new
      /\ \A k \in 1..n : frames'[k] = frames[k]
  BY <1>0, <1>1, <1>3, AppendProperties
<1>5. Depth' = Depth + Size(kind)
  BY <1>0, <1>2, <1>4, EmptySeq DEF Depth, Top, End
<1>6. /\ stack' \in [Offsets -> Bytes]
      /\ \A m \in 0..(Depth - 1) : stack'[Slot(m)] = stack[Slot(m)]
      /\ \A i \in 1..Size(kind) : stack'[Slot(Depth + i - 1)] = bytes[i]
  BY <1>0, <1>2, PushedBytes DEF pushStack
<1>7. sp' = Slot(Depth') /\ Depth' \in 0..STACK_SIZE /\ sp' \in Offsets
  <2>1. (Slot(Depth) - Size(kind)) % STACK_SIZE = Slot(Depth + Size(kind))
    BY <1>0, <1>2, SlotMoves
  <2>2. sp' = Slot(Depth')
    BY <1>0, <1>5, <2>1 DEF pushStack
  <2>3. Depth' \in 0..STACK_SIZE
    BY <1>0, <1>2, <1>5, InterruptAssumption
  <2> QED
    BY <2>2, <2>3, Slots
<1>8. FramesNest'
  <2>1. ASSUME NEW k \in 1..Len(frames')
        PROVE  /\ frames'[k].at = IF k = 1 THEN 0 ELSE End(frames'[k - 1])
               /\ End(frames'[k]) <= Depth'
               /\ \A j \in 1..(k - 1) : End(frames'[j]) <= frames'[k].at
               /\ frames'[k].kind \in Resumed => frames'[k].pc \in POINTS
    <3>1. CASE k \in 1..n
      <4>1. /\ frames'[k] = frames[k] /\ \A j \in 1..(k - 1) : frames'[j] = frames[j]
            /\ k # 1 => frames'[k - 1] = frames[k - 1]
        <5>1. \A j \in 1..(k - 1) : j \in 1..n
          BY <1>0, <3>1
        <5>2. k # 1 => k - 1 \in 1..n
          BY <1>0, <3>1
        <5> QED
          BY <1>4, <3>1, <5>1, <5>2
      <4>2. End(frames[k]) <= Depth + Size(kind)
        <5>1. End(frames[k]) \in Nat
          BY <1>0, <3>1, FrameSizes
        <5>2. End(frames[k]) <= Depth
          BY <1>0, <3>1 DEF FramesNest
        <5> QED
          BY <1>0, <1>2, <5>1, <5>2
      <4> QED
        BY <1>0, <1>5, <3>1, <4>1, <4>2 DEF FramesNest
    <3>2. CASE k = n + 1
      <4>1. /\ frames'[k] = new /\ \A j \in 1..(k - 1) : frames'[j] = frames[j]
            /\ k # 1 => frames'[k - 1] = frames[n]
        BY <1>0, <1>4, <3>2
      <4>2. Depth = IF k = 1 THEN 0 ELSE End(frames[n])
        BY <1>0, <3>2
      <4>3. \A j \in 1..(k - 1) : End(frames[j]) <= Depth
        BY <1>0, <3>2 DEF FramesNest
      <4>4. End(new) <= Depth'
        BY <1>0, <1>2, <1>5
      <4> QED
        BY <1>1, <4>1, <4>2, <4>3, <4>4
    <3> QED
      BY <1>0, <1>4, <3>1, <3>2
  <2> QED
    BY <1>7, <2>1 DEF FramesNest
<1>9. StackHoldsFrames'
  <2>1. ASSUME NEW k \in 1..n
        PROVE  Holds(stack', frames[k])
    <3>1. frames[k] \in Frame /\ Holds(stack, frames[k]) /\ End(frames[k]) <= Depth
      BY <1>0, StackHoldsEach DEF FramesNest
    <3>2. \A i \in 1..Size(frames[k].kind) : frames[k].at + i - 1 \in 0..(Depth - 1)
      <4>1. /\ frames[k].at \in 0..STACK_SIZE /\ Size(frames[k].kind) \in 1..3
            /\ frames[k].at + Size(frames[k].kind) <= Depth
        BY <3>1, FrameSizes DEF End
      <4> QED
        BY <1>0, <4>1
    <3>3. \A i \in 1..Size(frames[k].kind) :
              ByteOf(stack, frames[k], i) = ByteOf(stack', frames[k], i)
      BY <1>6, <3>2 DEF ByteOf
    <3> QED
      BY <3>1, <3>3, HoldsElsewhere
  <2>2. Holds(stack', new)
    <3>1. \A i \in 1..Size(kind) : ByteOf(stack', new, i) = bytes[i]
      BY <1>1, <1>6 DEF ByteOf
    <3>2. CASE kind \in {"nmi", "irq", "brk"}
      <4>1. \A i \in 1..3 : ByteOf(stack', new, i) = bytes[i]
        BY <3>1, <3>2 DEF Size
      <4> QED
        BY <1>1, <3>2, <4>1 DEF Holds
    <3>3. CASE kind = "jsr"
      <4>1. \A i \in 1..2 : ByteOf(stack', new, i) = bytes[i]
        BY <3>1, <3>3 DEF Size
      <4> QED
        BY <1>1, <3>3, <4>1 DEF Holds
    <3>4. CASE kind \in {"php", "pha"}
      <4>1. ByteOf(stack', new, 1) = bytes[1]
        BY <3>1, <3>4 DEF Size
      <4> QED
        BY <1>1, <3>4, <4>1 DEF Holds
    <3> QED
      BY <3>2, <3>3, <3>4 DEF Kinds
  <2>3. \A k \in 1..Len(frames') : Holds(stack', frames'[k])
    BY <1>0, <1>4, <2>1, <2>2
  <2>4. DOMAIN frames' = 1..Len(frames')
    BY <1>4
  <2> QED
    BY <2>3, <2>4 DEF StackHoldsFrames, Holds, Saved, ByteOf
<1> QED
  BY <1>4, <1>6, <1>7, <1>8, <1>9 DEF StackIsSound

(* Pulling the newest frame finds its bytes, the last one pushed first,    *)
(* and leaves the others.                                                  *)
LEMMA PullKeepsStack ==
    ASSUME StackIsSound, frames # <<>>, pullStack(Size(Top.kind)), Pop
    PROVE  StackIsSound'
<1> DEFINE n == Len(frames)
<1>0. /\ frames \in Seq(Frame) /\ FramesNest /\ StackHoldsFrames
      /\ stack \in [Offsets -> Bytes] /\ Depth \in 0..STACK_SIZE /\ sp = Slot(Depth)
      /\ n \in Nat \ {0} /\ Depth = End(Top) /\ Top = frames[n]
      /\ \A k \in 1..n : frames[k] \in Frame
  BY DepthOfTop, EmptySeq DEF StackIsSound, FramesNest, Top
<1>1. /\ Size(Top.kind) \in 1..3 /\ Top.at \in 0..STACK_SIZE
      /\ Depth = Top.at + Size(Top.kind)
  BY <1>0, FrameSizes DEF End
<1>2. /\ frames' \in Seq(Frame) /\ Len(frames') = n - 1
      /\ \A k \in 1..(n - 1) : frames'[k] = frames[k]
  <2>1. \A k \in 1..(n - 1) : frames[k] \in Frame
    BY <1>0
  <2>2. frames' = SubSeq(frames, 1, n - 1) /\ n - 1 \in Int /\ 1 \in Int
    BY <1>0 DEF Pop
  <2> HIDE DEF n
  <2> QED
    BY <1>0, <2>1, <2>2, SubSeqProperties
<1>3. Depth' = Top.at
  <2>1. CASE n = 1
    <3>1. frames' = <<>>
      BY <1>2, <2>1, EmptySeq
    <3>2. Top.at = 0
      BY <1>0, <2>1 DEF FramesNest
    <3> QED
      BY <3>1, <3>2 DEF Depth
  <2>2. CASE n # 1
    <3>1. n \in 1..n /\ n - 1 \in 1..(n - 1)
      <4>1. n \in Nat \ {0}
        BY <1>0
      <4> HIDE DEF n
      <4> QED
        BY <2>2, <4>1
    <3>2. frames' # <<>> /\ frames'[Len(frames')] = frames[n - 1]
      BY <1>2, <3>1, EmptySeq
    <3>3. Top.at = End(frames[n - 1])
      BY <1>0, <2>2, <3>1 DEF FramesNest
    <3> QED
      BY <3>2, <3>3 DEF Depth, End, Top
  <2> QED
    BY <2>1, <2>2
<1>4. sp' = Slot(Depth') /\ Depth' \in 0..STACK_SIZE /\ sp' \in Offsets
  <2>1. (Slot(Depth) + Size(Top.kind)) % STACK_SIZE = Slot(Depth - Size(Top.kind))
    BY <1>0, <1>1, SlotMoves
  <2>2. Depth - Size(Top.kind) = Top.at
    BY <1>1
  <2>3. sp' = Slot(Depth')
    BY <1>0, <1>3, <2>1, <2>2 DEF pullStack
  <2> QED
    BY <1>1, <1>3, <2>3, Slots
<1>5. FramesNest'
  <2>1. ASSUME NEW k \in 1..(n - 1)
        PROVE  /\ frames[k].at = IF k = 1 THEN 0 ELSE End(frames[k - 1])
               /\ \A j \in 1..(k - 1) : End(frames[j]) <= frames[k].at
               /\ frames[k].kind \in Resumed => frames[k].pc \in POINTS
               /\ End(frames[k]) <= Top.at
               /\ k # 1 => k - 1 \in 1..(n - 1)
               /\ \A j \in 1..(k - 1) : j \in 1..(n - 1)
    <3>1. k \in 1..n /\ n \in 1..n /\ k \in 1..(n - 1)
      BY <1>0
    <3>2. End(frames[k]) <= frames[n].at
      BY <1>0, <3>1 DEF FramesNest
    <3>3. (k # 1 => k - 1 \in 1..(n - 1)) /\ \A j \in 1..(k - 1) : j \in 1..(n - 1)
      BY <1>0
    <3> QED
      BY <1>0, <3>1, <3>2, <3>3 DEF FramesNest
  <2>2. \A k \in 1..Len(frames') :
            /\ frames'[k].at = IF k = 1 THEN 0 ELSE End(frames'[k - 1])
            /\ End(frames'[k]) <= Depth'
            /\ \A j \in 1..(k - 1) : End(frames'[j]) <= frames'[k].at
            /\ frames'[k].kind \in Resumed => frames'[k].pc \in POINTS
    BY <1>2, <1>3, <2>1
  <2> QED
    BY <1>4, <2>2 DEF FramesNest
<1>6. StackHoldsFrames'
  <2>1. \A k \in 1..n : Holds(stack, frames[k])
    BY <1>0, StackHoldsEach
  <2>2. \A k \in 1..Len(frames') : Holds(stack', frames'[k])
    BY <1>0, <1>2, <2>1 DEF pullStack
  <2>3. DOMAIN frames' = 1..Len(frames')
    BY <1>2
  <2> QED
    BY <2>2, <2>3 DEF StackHoldsFrames, Holds, Saved, ByteOf
<1> QED
  BY <1>0, <1>2, <1>4, <1>5, <1>6 DEF StackIsSound, pullStack

LEMMA PulledBytes ==
    ASSUME StackIsSound, frames # <<>>
    PROVE  /\ Holds(stack, Top) /\ Top \in Frame
           /\ Top.kind \in Resumed => Top.pc \in POINTS
           /\ \A i \in 1..Size(Top.kind) :
                  Pulled(i) = ByteOf(stack, Top, Size(Top.kind) + 1 - i)
<1> DEFINE n == Len(frames)
<1>0. /\ frames \in Seq(Frame) /\ FramesNest /\ StackHoldsFrames
      /\ Depth \in 0..STACK_SIZE /\ sp = Slot(Depth)
      /\ n \in 1..n /\ Depth = End(Top) /\ Top = frames[n]
      /\ \A k \in 1..n : frames[k] \in Frame
  BY DepthOfTop, EmptySeq DEF StackIsSound, FramesNest, Top
<1>1. /\ Size(Top.kind) \in 1..3 /\ Top.at \in 0..STACK_SIZE
      /\ Depth = Top.at + Size(Top.kind)
  BY <1>0, FrameSizes DEF End
<1>2. Holds(stack, Top)
  BY <1>0, StackHoldsEach
<1>3. Top.kind \in Resumed => Top.pc \in POINTS
  BY <1>0 DEF FramesNest
<1>4. ASSUME NEW i \in 1..Size(Top.kind)
      PROVE  Pulled(i) = ByteOf(stack, Top, Size(Top.kind) + 1 - i)
  <2>1. i \in 0..3 /\ i <= Depth /\ Depth - i = Top.at + (Size(Top.kind) + 1 - i) - 1
    BY <1>1
  <2>2. (Slot(Depth) + i) % STACK_SIZE = Slot(Depth - i)
    BY <1>0, <2>1, SlotMoves
  <2> QED
    BY <1>0, <2>1, <2>2 DEF Pulled, ByteOf
<1> QED
  BY <1>0, <1>2, <1>3, <1>4

LEMMA PulledAreNumbers ==
    ASSUME StackIsSound
    PROVE  Pulled(1) \in Int /\ Pulled(2) \in Int /\ Pulled(3) \in Int
<1>1. \A i \in Int : (sp + i) % STACK_SIZE \in Offsets
  BY Wraps DEF StackIsSound, Offsets
<1>2. Bytes \subseteq Int
  BY DEF Bytes
<1>3. \A a \in Offsets : stack[a] \in Int
  BY <1>2 DEF StackIsSound
<1> QED
  BY <1>1, <1>3 DEF Pulled

-----------------------------------------------------------------------------
(* Every action keeps the invariant.                                       *)

RegistersOK ==
    /\ pc \in POINTS
    /\ flags \subseteq Flags \ {"B"}
    /\ cyclesToWait \in Nat

LEMMA InvParts == TypeOK /\ FramesNest /\ StackHoldsFrames <=> RegistersOK /\ StackIsSound
BY DEF TypeOK, RegistersOK, StackIsSound

LEMMA InitInv == Init => Inv
<1> SUFFICES ASSUME Init
             PROVE  Inv
  OBVIOUS
<1>1. frames = <<>> /\ frames \in Seq(Frame) /\ Len(frames) = 0
  BY EmptySeq DEF Init
<1>2. Depth = 0 /\ Depth \in 0..STACK_SIZE
  BY <1>1, InterruptAssumption DEF Depth
<1>3. sp = Slot(0) /\ sp \in Offsets
  BY Slots, InterruptAssumption DEF Init, Offsets
<1>4. FramesNest /\ StackHoldsFrames
  BY <1>1, <1>2, <1>3 DEF FramesNest, StackHoldsFrames
<1>5. stack \in [Offsets -> Bytes]
  BY DEF Init, Bytes
<1>6. RegistersOK
  BY InterruptAssumption DEF Init, RegistersOK, Flags
<1> QED
  BY <1>1, <1>3, <1>4, <1>5, <1>6, InvParts DEF StackIsSound, Inv

LEMMA ResetKeepsInv ==
    ASSUME Inv, reset
    PROVE  Inv'
<1>1. frames' = <<>> /\ frames' \in Seq(Frame) /\ Len(frames') = 0
  BY EmptySeq DEF reset
<1>2. Depth' = 0 /\ Depth' \in 0..STACK_SIZE
  BY <1>1, InterruptAssumption DEF Depth
<1>3. sp' = Slot(0) /\ sp' \in Offsets
  BY Slots, InterruptAssumption DEF reset, Offsets
<1>4. FramesNest' /\ StackHoldsFrames'
  BY <1>1, <1>2, <1>3 DEF FramesNest, StackHoldsFrames
<1>5. TypeOK'
  BY <1>1, <1>3, InterruptAssumption DEF Inv, TypeOK, reset, Flags
<1> QED
  BY <1>4, <1>5 DEF Inv

LEMMA UnchangedStack ==
    ASSUME StackIsSound, UNCHANGED <<sp, stack, frames>>
    PROVE  StackIsSound'
BY DEF StackIsSound, FramesNest, StackHoldsFrames, Depth, Top, End, Saved

(* interrupt, for any cause whose copy of the flags says what it should.   *)
LEMMA InterruptKeepsInv ==
    ASSUME Inv, NEW kind \in {"nmi", "irq", "brk"}, NEW from \in POINTS,
           NEW copy \in Bytes, NEW vector \in POINTS,
           kind \in {"nmi", "irq"} => setFlags(copy) = flags,
           interrupt(kind, from, copy, vector)
    PROVE  Inv'
<1> DEFINE bytes == <<High(from), Low(from), copy>>
<1>0. from \in Addresses /\ flags \in SUBSET Flags
  BY InterruptAssumption DEF Inv, TypeOK
<1>1. /\ bytes \in Seq(Bytes) /\ Len(bytes) = 3 /\ 256 * bytes[1] + bytes[2] = from
      /\ bytes[3] = copy
  BY <1>0, Addressing
<1>2. Size(kind) = 3
  BY DEF Size
<1>3. HasRoom(3) /\ pushStack(bytes) /\ Push(kind, from, flags, 0)
  BY DEF interrupt
<1>4. StackIsSound
  BY InvParts DEF Inv
<1> HIDE DEF bytes
<1>5. StackIsSound'
  <2>1. /\ bytes \in Seq(Bytes) /\ Len(bytes) = Size(kind) /\ HasRoom(Size(kind))
        /\ 256 * bytes[1] + bytes[2] = from
        /\ kind \in {"nmi", "irq"} => setFlags(bytes[3]) = flags
    BY <1>1, <1>2, <1>3
  <2>2. /\ from \in Addresses /\ flags \in SUBSET Flags /\ 0 \in Bytes
        /\ kind \in Kinds /\ kind \notin {"jsr", "php", "pha"}
    BY <1>0 DEF Kinds, Bytes
  <2> QED
    BY <1>3, <1>4, <2>1, <2>2, PushKeepsStack
<1>6. RegistersOK'
  <2>1. INTERRUPT_CYCLES \in Nat /\ cyclesToWait \in Nat
    BY InterruptAssumption DEF Inv, TypeOK
  <2>2. flags \subseteq Flags \ {"B"} /\ "I" \in Flags \ {"B"}
    BY DEF Inv, TypeOK, Flags
  <2>3. /\ flags' = flags \cup {"I"} /\ pc' = vector
        /\ cyclesToWait' = cyclesToWait + INTERRUPT_CYCLES
    BY DEF interrupt
  <2>4. cyclesToWait' \in Nat
    BY <2>1, <2>3
  <2>5. flags' \subseteq Flags \ {"B"}
    BY <2>2, <2>3
  <2> QED
    BY <2>3, <2>4, <2>5 DEF RegistersOK
<1> QED
  BY <1>5, <1>6 DEF Inv, TypeOK, RegistersOK, StackIsSound

(* The copy of the flags that NMI, IRQ and PHP push brings them back.      *)
LEMMA FlagsAreKept ==
    ASSUME Inv
    PROVE  /\ flags \in SUBSET Flags
           /\ getFlags(flags) \in Bytes /\ setFlags(getFlags(flags)) = flags
           /\ getFlags(flags \cup {"B"}) \in Bytes
           /\ setFlags(getFlags(flags \cup {"B"})) = flags
<1>1. flags \in SUBSET Flags /\ flags \cup {"B"} \in SUBSET Flags
  BY DEF Inv, TypeOK, Flags
<1>2. flags \ {"B"} = flags /\ (flags \cup {"B"}) \ {"B"} = flags
  BY DEF Inv, TypeOK
<1> QED
  BY <1>1, <1>2, FlagsRoundTrip

LEMMA TriggersKeepInv ==
    ASSUME Inv, triggerNmi \/ triggerIrq
    PROVE  Inv'
<1>1. pc \in POINTS /\ NMI_VECTOR \in POINTS /\ IRQ_VECTOR \in POINTS
  BY InterruptAssumption DEF Inv, TypeOK
<1>2. CASE triggerNmi
  BY <1>1, <1>2, FlagsAreKept, InterruptKeepsInv DEF triggerNmi
<1>3. CASE triggerIrq
  BY <1>1, <1>3, FlagsAreKept, InterruptKeepsInv DEF triggerIrq
<1> QED
  BY <1>2, <1>3

LEMMA BrkKeepsInv ==
    ASSUME Inv, brk
    PROVE  Inv'
<1>1. Plus(pc, 1) \in POINTS /\ IRQ_VECTOR \in POINTS /\ BrkCopy \in Bytes
  BY InterruptAssumption DEF brk, BrkCopy, Bytes
<1> QED
  BY <1>1, InterruptKeepsInv DEF brk

(* Waiting and instructions that leave the stack alone.                    *)
LEMMA OthersKeepInv ==
    ASSUME Inv, Wait \/ Ordinary
    PROVE  Inv'
<1>1. RegistersOK'
  <2>1. CASE Wait
    BY <2>1 DEF Inv, TypeOK, RegistersOK, Wait
  <2>2. CASE Ordinary
    BY <2>2, InterruptAssumption DEF Inv, TypeOK, RegistersOK, Ordinary, Flags
  <2> QED
    BY <2>1, <2>2
<1>2. StackIsSound'
  BY InvParts, UnchangedStack DEF Inv, Wait, Ordinary
<1> QED
  BY <1>1, <1>2 DEF Inv, TypeOK, RegistersOK, StackIsSound

LEMMA PhpKeepsInv ==
    ASSUME Inv, php, cyclesToWait = 0
    PROVE  Inv'
<1> DEFINE bytes == <<getFlags(flags \cup {"B"})>>
<1>1. /\ bytes \in Seq(Bytes) /\ Len(bytes) = 1 /\ setFlags(bytes[1]) = flags
      /\ flags \in SUBSET Flags
  BY FlagsAreKept
<1>2. /\ Size("php") = 1 /\ 0 \in Addresses /\ 0 \in Bytes
      /\ "php" \in Kinds /\ "php" \notin Resumed
  BY DEF Size, Addresses, LastAddress, Bytes, Kinds, Resumed
<1>3. HasRoom(1) /\ pushStack(bytes) /\ Push("php", 0, flags, 0)
  BY DEF php
<1>4. StackIsSound
  BY InvParts DEF Inv
<1> HIDE DEF bytes
<1>5. StackIsSound'
  BY <1>1, <1>2, <1>3, <1>4, PushKeepsStack
<1>6. RegistersOK'
  BY DEF Inv, TypeOK, RegistersOK, php, NextInstruction
<1> QED
  BY <1>5, <1>6 DEF Inv, TypeOK, RegistersOK, StackIsSound

LEMMA PhaKeepsInv ==
    ASSUME Inv, pha, cyclesToWait = 0
    PROVE  Inv'
<1>1. PICK A \in ACCUMULATORS : pushStack(<<A>>) /\ Push("pha", 0, {}, A)
  BY DEF pha
<1> DEFINE bytes == <<A>>
<1>2. A \in Bytes /\ bytes \in Seq(Bytes) /\ Len(bytes) = 1 /\ bytes[1] = A
  BY InterruptAssumption
<1>3. /\ Size("pha") = 1 /\ 0 \in Addresses /\ {} \in SUBSET Flags
      /\ "pha" \in Kinds /\ "pha" \notin Resumed
  BY DEF Size, Addresses, LastAddress, Kinds, Resumed
<1>4. HasRoom(1) /\ StackIsSound /\ pushStack(bytes)
  BY <1>1, InvParts DEF Inv, pha
<1> HIDE DEF bytes
<1>5. StackIsSound'
  BY <1>1, <1>2, <1>3, <1>4, PushKeepsStack
<1>6. RegistersOK'
  BY DEF Inv, TypeOK, RegistersOK, pha, NextInstruction
<1> QED
  BY <1>5, <1>6 DEF Inv, TypeOK, RegistersOK, StackIsSound

LEMMA JsrKeepsInv ==
    ASSUME Inv, jsr
    PROVE  Inv'
<1> DEFINE bytes == <<High(Plus(pc, 2)), Low(Plus(pc, 2))>>
<1>1. pc \in Addresses /\ Plus(pc, 3) \in POINTS /\ Plus(pc, 3) \in Addresses
  BY InterruptAssumption DEF Inv, TypeOK, jsr
<1>2. Plus(pc, 2) \in Addresses /\ Plus(Plus(pc, 2), 1) = Plus(pc, 3)
  BY <1>1, NextAddresses
<1>3. /\ bytes \in Seq(Bytes) /\ Len(bytes) = 2
      /\ Plus(256 * bytes[1] + bytes[2], 1) = Plus(pc, 3)
  BY <1>2, Addressing
<1>4. /\ Size("jsr") = 2 /\ {} \in SUBSET Flags /\ 0 \in Bytes
      /\ "jsr" \in Kinds
  BY DEF Size, Bytes, Kinds
<1>5. HasRoom(2) /\ pushStack(bytes) /\ Push("jsr", Plus(pc, 3), {}, 0)
  BY DEF jsr
<1>6. StackIsSound
  BY InvParts DEF Inv
<1> HIDE DEF bytes
<1>7. StackIsSound'
  BY <1>1, <1>3, <1>4, <1>5, <1>6, PushKeepsStack
<1>8. RegistersOK'
  BY DEF Inv, TypeOK, RegistersOK, jsr
<1> QED
  BY <1>7, <1>8 DEF Inv, TypeOK, RegistersOK, StackIsSound

(* What pulling restores. *)
LEMMA PlpRestores ==
    ASSUME Inv, plp
    PROVE  StackIsSound' /\ flags' = Top.flags
<1>1. /\ StackIsSound /\ frames # <<>> /\ Top.kind = "php" /\ Size(Top.kind) = 1
      /\ pullStack(1) /\ Pop /\ flags' = setFlags(Pulled(1))
  BY InvParts DEF Inv, plp, Size
<1>2. Pulled(1) = ByteOf(stack, Top, 1) /\ Holds(stack, Top)
  BY <1>1, PulledBytes
<1>3. StackIsSound'
  BY <1>1, PullKeepsStack
<1> QED
  BY <1>1, <1>2, <1>3 DEF Holds

LEMMA PlaRestores ==
    ASSUME Inv, pla
    PROVE  StackIsSound' /\ Pulled(1) = Top.A
<1>1. /\ StackIsSound /\ frames # <<>> /\ Top.kind = "pha" /\ Size(Top.kind) = 1
      /\ pullStack(1) /\ Pop
  BY InvParts DEF Inv, pla, Size
<1>2. Pulled(1) = ByteOf(stack, Top, 1) /\ Holds(stack, Top)
  BY <1>1, PulledBytes
<1>3. StackIsSound'
  BY <1>1, PullKeepsStack
<1> QED
  BY <1>1, <1>2, <1>3 DEF Holds

LEMMA RtsRestores ==
    ASSUME LEFT_FIRST, Inv, rts
    PROVE  StackIsSound' /\ pc' = Top.pc /\ pc' \in POINTS
<1>1. /\ StackIsSound /\ frames # <<>> /\ Top.kind = "jsr" /\ Size(Top.kind) = 2
      /\ pullStack(2) /\ Pop /\ pc' = Plus(PulledAddress(1), 1)
  BY InvParts DEF Inv, rts, Size
<1>2. /\ Pulled(1) = ByteOf(stack, Top, 2) /\ Pulled(2) = ByteOf(stack, Top, 1)
      /\ Holds(stack, Top) /\ Top.pc \in POINTS
  BY <1>1, PulledBytes DEF Resumed
<1>3. StackIsSound'
  BY <1>1, PullKeepsStack
<1>4. PulledAddress(1) = 256 * ByteOf(stack, Top, 1) + ByteOf(stack, Top, 2)
  <2>1. PulledAddress(1) = Pulled(1) + 256 * Pulled(2)
    BY DEF PulledAddress, Pulled
  <2>2. Pulled(1) \in Int /\ Pulled(2) \in Int
    BY <1>1, PulledAreNumbers
  <2> HIDE DEF Pulled
  <2> QED
    BY <1>2, <2>1, <2>2
<1> QED
  BY <1>1, <1>2, <1>3, <1>4 DEF Holds

LEMMA RtiRestores ==
    ASSUME LEFT_FIRST, Inv, rti
    PROVE  /\ StackIsSound' /\ pc' = Top.pc /\ pc' \in POINTS
           /\ Top.kind \in {"nmi", "irq"} => flags' = Top.flags
<1>1. /\ StackIsSound /\ frames # <<>> /\ Top.kind \in {"nmi", "irq", "brk"}
      /\ Size(Top.kind) = 3 /\ pullStack(3) /\ Pop
      /\ flags' = setFlags(Pulled(1)) /\ pc' = PulledAddress(2)
  BY InvParts DEF Inv, rti, Size
<1>2. /\ Pulled(1) = ByteOf(stack, Top, 3) /\ Pulled(2) = ByteOf(stack, Top, 2)
      /\ Pulled(3) = ByteOf(stack, Top, 1) /\ Holds(stack, Top) /\ Top.pc \in POINTS
  BY <1>1, PulledBytes DEF Resumed
<1>3. StackIsSound'
  BY <1>1, PullKeepsStack
<1>4. PulledAddress(2) = 256 * ByteOf(stack, Top, 1) + ByteOf(stack, Top, 2)
  <2>1. PulledAddress(2) = Pulled(2) + 256 * Pulled(3)
    BY DEF PulledAddress, Pulled
  <2>2. Pulled(2) \in Int /\ Pulled(3) \in Int
    BY <1>1, PulledAreNumbers
  <2> HIDE DEF Pulled
  <2> QED
    BY <1>2, <2>1, <2>2
<1> QED
  BY <1>1, <1>2, <1>3, <1>4 DEF Holds

LEMMA ReturnsKeepInv ==
    ASSUME LEFT_FIRST, Inv, plp \/ pla \/ rts \/ rti, cyclesToWait = 0
    PROVE  Inv'
<1>1. CASE plp
  <2>1. RegistersOK'
    BY <1>1, SetFlagsAreFlags DEF Inv, TypeOK, RegistersOK, plp, NextInstruction
  <2> QED
    BY <1>1, <2>1, PlpRestores DEF Inv, TypeOK, RegistersOK, StackIsSound
<1>2. CASE rts
  <2>1. RegistersOK'
    BY <1>2, RtsRestores DEF Inv, TypeOK, RegistersOK, rts
  <2> QED
    BY <1>2, <2>1, RtsRestores DEF Inv, TypeOK, RegistersOK, StackIsSound
<1>3. CASE rti
  <2>1. RegistersOK'
    BY <1>3, RtiRestores, SetFlagsAreFlags DEF Inv, TypeOK, RegistersOK, rti
  <2> QED
    BY <1>3, <2>1, RtiRestores DEF Inv, TypeOK, RegistersOK, StackIsSound
<1>4. CASE pla
  <2>1. setZNFlags(flags, Pulled(1)) \subseteq Flags \ {"B"}
    BY DEF Inv, TypeOK, setZNFlags, Flags
  <2>2. RegistersOK'
    BY <1>4, <2>1 DEF Inv, TypeOK, RegistersOK, pla, NextInstruction
  <2> QED
    BY <1>4, <2>2, PlaRestores DEF Inv, TypeOK, RegistersOK, StackIsSound
<1> QED
  BY <1>1, <1>2, <1>3, <1>4

-----------------------------------------------------------------------------

(* The frames nest and the stack holds each of them, in every reachable    *)
(* state.                                                                  *)
THEOREM FramesNestOnStack ==
    ASSUME LEFT_FIRST
    PROVE  Spec => []Inv
<1>1. Inv /\ [Next]_vars => Inv'
  <2> SUFFICES ASSUME Inv, [Next]_vars
               PROVE  Inv'
    OBVIOUS
  <2>1. CASE triggerNmi \/ triggerIrq
    BY <2>1, TriggersKeepInv
  <2>2. CASE reset
    BY <2>2, ResetKeepsInv
  <2>3. CASE Wait
    BY <2>3, OthersKeepInv
  <2>4. CASE Execute
    <3>1. cyclesToWait = 0
      BY <2>4 DEF Execute
    <3>2. CASE Ordinary
      BY <3>2, OthersKeepInv
    <3>3. CASE brk
      BY <3>3, BrkKeepsInv
    <3>4. CASE php
      BY <3>1, <3>4, PhpKeepsInv
    <3>5. CASE jsr
      BY <3>5, JsrKeepsInv
    <3>6. CASE plp \/ pla \/ rts \/ rti
      BY <3>1, <3>6, ReturnsKeepInv
    <3>7. CASE pha
      BY <3>1, <3>7, PhaKeepsInv
    <3> QED
      BY <2>4, <3>2, <3>3, <3>4, <3>5, <3>6, <3>7 DEF Execute
  <2>5. CASE UNCHANGED vars
    <3>1. StackIsSound'
      BY <2>5, InvParts, UnchangedStack DEF Inv, vars
    <3> QED
      BY <2>5, <3>1 DEF Inv, TypeOK, StackIsSound, vars
  <2> QED
    BY <2>1, <2>2, <2>3, <2>4, <2>5 DEF Next
<1> QED
  BY <1>1, InitInv, PTL DEF Spec

(* The registers keep their widths, pc stays at an instruction of the      *)
(* program and B is never set outside the stack.                           *)
THEOREM InterruptsTypeCorrect ==
    ASSUME LEFT_FIRST
    PROVE  Spec => []TypeOK
<1>1. Inv => TypeOK
  BY DEF Inv
<1> QED
  BY <1>1, FramesNestOnStack, PTL

(* What an interrupt or a call pushed is intact until it is pulled.        *)
THEOREM StackKeepsFrames ==
    ASSUME LEFT_FIRST
    PROVE  Spec => []StackHoldsFrames
<1>1. Inv => StackHoldsFrames
  BY DEF Inv
<1> QED
  BY <1>1, FramesNestOnStack, PTL

(* What shortens the history is a pull, or a reset.                        *)
LEMMA PullsAreReturns ==
    ASSUME Inv, Next, NEW kinds, Pulls(kinds)
    PROVE  cyclesToWait = 0 /\ (plp \/ pla \/ rts \/ rti)
<1>1. /\ frames \in Seq(Frame) /\ frames # <<>> /\ ~reset
      /\ frames' = SubSeq(frames, 1, Len(frames) - 1)
  BY DEF Inv, TypeOK, Pulls, Pop
<1>2. Len(frames) \in Nat \ {0} /\ Len(frames') = Len(frames) - 1
  <2> DEFINE n == Len(frames)
  <2>1. n \in Nat \ {0}
    BY <1>1, EmptySeq
  <2>2. \A k \in 1..(n - 1) : frames[k] \in Frame
    BY <1>1, <2>1, ElementOfSeq
  <2>3. frames' = SubSeq(frames, 1, n - 1)
    BY <1>1
  <2> HIDE DEF n
  <2>4. n - 1 \in Int /\ 1 \in Int
    BY <2>1
  <2>5. Len(frames') = n - 1
    BY <2>1, <2>2, <2>3, <2>4, SubSeqProperties
  <2> QED
    BY <2>1, <2>5 DEF n
<1>3. ASSUME NEW kind, NEW resume, NEW kept, NEW byte
      PROVE  ~Push(kind, resume, kept, byte)
  BY <1>2, AppendProperties DEF Push
<1>4. UNCHANGED frames => FALSE
  BY <1>2
<1>5. ~triggerNmi /\ ~triggerIrq /\ ~brk /\ ~php /\ ~pha /\ ~jsr
  BY <1>3 DEF triggerNmi, triggerIrq, brk, php, pha, jsr, interrupt
<1>6. ~Wait /\ ~Ordinary
  BY <1>4 DEF Wait, Ordinary
<1> QED
  BY <1>1, <1>5, <1>6 DEF Next, Execute

(* Returning resumes exactly what was left.                                *)
THEOREM ReturnsRestoreAll ==
    ASSUME LEFT_FIRST
    PROVE  Spec => ReturnsRestore
<1> DEFINE Restores == /\ Pulls({"nmi", "irq", "brk", "jsr"}) => pc' = Top.pc
                       /\ Pulls({"nmi", "irq", "php"}) => flags' = Top.flags
                       /\ Pulls({"pha"}) => Pulled(1) = Top.A
<1>1. ASSUME Inv, Next
      PROVE  Restores
  <2>1. ASSUME Pulls({"nmi", "irq", "php"})
        PROVE  flags' = Top.flags
    <3>1. Top.kind \in {"nmi", "irq", "php"}
      BY <2>1 DEF Pulls
    <3>2. plp \/ (rti /\ Top.kind # "php")
      BY <1>1, <2>1, <3>1, PullsAreReturns DEF plp, pla, rts, rti
    <3> QED
      BY <1>1, <3>1, <3>2, PlpRestores, RtiRestores
  <2>2. Pulls({"nmi", "irq", "brk", "jsr"}) => pc' = Top.pc
    <3> SUFFICES ASSUME Pulls({"nmi", "irq", "brk", "jsr"})
                 PROVE  pc' = Top.pc
      OBVIOUS
    <3>1. Top.kind \notin {"php", "pha"}
      BY DEF Pulls
    <3>2. rts \/ rti
      BY <1>1, <3>1, PullsAreReturns DEF plp, pla
    <3> QED
      BY <1>1, <3>2, RtsRestores, RtiRestores
  <2>3. Pulls({"pha"}) => Pulled(1) = Top.A
    <3> SUFFICES ASSUME Pulls({"pha"})
                 PROVE  Pulled(1) = Top.A
      OBVIOUS
    <3>1. Top.kind = "pha"
      BY DEF Pulls
    <3>2. pla
      BY <1>1, <3>1, PullsAreReturns DEF plp, rts, rti
    <3> QED
      BY <1>1, <3>2, PlaRestores
  <2> QED
    BY <2>1, <2>2, <2>3
<1>2. Inv /\ [Next]_vars => [Restores]_vars
  BY <1>1
<1> QED
  BY <1>2, FramesNestOnStack, PTL DEF Spec, ReturnsRestore
=============================================================================
