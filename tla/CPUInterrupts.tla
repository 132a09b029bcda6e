---------------------------- MODULE CPUInterrupts ----------------------------
(***************************************************************************)
(* Interrupts, subroutines and the stack of the CPU (src/console/cpu.cpp:  *)
(* CPU::interrupt, reset, triggerNmi, triggerIrq, pushStack, pullStack,    *)
(* getFlags, setFlags and the instructions that use them).                 *)
(*                                                                         *)
(* The PPU and the mapper call triggerNmi and triggerIrq between two CPU   *)
(* steps, while the dots of the previous step are drawn.  An interrupt     *)
(* pushes pc and the flags at once and charges its cycles to cyclesToWait, *)
(* which later steps use up before the next instruction runs.              *)
(*                                                                         *)
(* All other instructions are one action: they move pc and change flags in *)
(* any way and leave the stack alone; A, which they compute, is whatever   *)
(* byte of ACCUMULATORS pha finds in it.  The program has its instructions *)
(* at POINTS, pulls what it pushed, in order, and never needs more than    *)
(* the whole stack; so it moves the stack pointer with txs or tas, which   *)
(* are CPUInstructions', only where it sets the stack up.                  *)
(***************************************************************************)
EXTENDS Integers, Sequences

CONSTANTS
    STACK_SIZE,         \* bytes of the stack page (256)
    POINTS,             \* addresses of the program's instructions
    NMI_VECTOR, RESET_VECTOR, IRQ_VECTOR,   \* the cartridge's vectors
    ACCUMULATORS,       \* values of A the program computes
    OTHER_FLAGS,        \* flags, besides I, an ordinary instruction may change
    INTERRUPT_CYCLES,   \* cycles an interrupt makes the CPU wait (7)
    MAX_WAIT,           \* bound: no trigger while more cycles are due
    LEFT_FIRST          \* a | b evaluates a first

Bytes == 0..255
LastAddress == 65535
Addresses == 0..LastAddress
Flags == {"C", "Z", "I", "D", "B", "O", "N"}

ASSUME InterruptAssumption ==
    /\ STACK_SIZE \in Nat /\ STACK_SIZE > 3
    /\ POINTS \subseteq Addresses
    /\ {NMI_VECTOR, RESET_VECTOR, IRQ_VECTOR} \subseteq POINTS
    /\ ACCUMULATORS \subseteq Bytes
    /\ OTHER_FLAGS \subseteq Flags \ {"B", "I"}
    /\ INTERRUPT_CYCLES \in Nat
    /\ MAX_WAIT \in Nat
    /\ LEFT_FIRST \in BOOLEAN

VARIABLES
    pc,             \* program counter
    flags,          \* the processor flags that are set
    sp,             \* stack pointer: the next free byte
    stack,          \* the stack page
    cyclesToWait,   \* cycles to let pass before the next instruction
    frames          \* history: what was pushed and is still to be pulled

vars == <<pc, flags, sp, stack, cyclesToWait, frames>>

Offsets == 0..(STACK_SIZE - 1)

(* What a push leaves to be pulled: the address to resume at (but for php  *)
(* and pha), the flags (but for jsr and pha) or the accumulator (for pha)  *)
(* to bring back, on top of the first at bytes pushed.                     *)
Kinds == {"nmi", "irq", "brk", "jsr", "php", "pha"}

Frame == [kind : Kinds, at : 0..STACK_SIZE,
          pc : Addresses, flags : SUBSET Flags, A : Bytes]

TypeOK ==
    /\ pc \in POINTS
    /\ flags \subseteq Flags \ {"B"}
    /\ sp \in Offsets
    /\ stack \in [Offsets -> Bytes]
    /\ cyclesToWait \in Nat
    /\ frames \in Seq(Frame)

-----------------------------------------------------------------------------
(* Bytes and flags.                                                        *)

High(address) == address \div 256
Low(address) == address % 256

Plus(address, n) == (address + n) % (LastAddress + 1)

(* The bit of each flag in the byte PHP and the interrupts push.  Bit 5 is *)
(* not a flag: getFlags always sets it.                                    *)
Bit(flag) ==
    CASE flag = "C" -> 1  [] flag = "Z" -> 2  [] flag = "I" -> 4
      [] flag = "D" -> 8  [] flag = "B" -> 16 [] flag = "O" -> 64
      [] flag = "N" -> 128

getFlags(set) ==
    LET bit(flag) == IF flag \in set THEN Bit(flag) ELSE 0
    IN  32 + bit("C") + bit("Z") + bit("I") + bit("D")
           + bit("B") + bit("O") + bit("N")

HasBit(byte, bit) == (byte \div bit) % 2 = 1

(* setFlags(byte & 0xcf), as PLP and RTI call it: bit 4 is dropped.        *)
setFlags_KeepsB(byte) == {flag \in Flags : HasBit(byte, Bit(flag))}

setFlags(byte) == {flag \in Flags \ {"B"} : HasBit(byte, Bit(flag))}

setZNFlags(set, byte) ==
    (set \ {"Z", "N"}) \cup (IF byte = 0 THEN {"Z"} ELSE {})
                       \cup (IF byte >= 128 THEN {"N"} ELSE {})

(* The byte BRK pushes: getFlags() & 0x10. *)
BrkCopy == IF HasBit(getFlags(flags), 16) THEN 16 ELSE 0

-----------------------------------------------------------------------------
(* The stack.  pushStack writes where sp points and moves sp down,         *)
(* pullStack moves it up and reads; sp is a byte and wraps.                *)

Pushed(bytes) ==
    [a \in Offsets |->
        LET i == ((sp - a) % STACK_SIZE) + 1
        IN  IF i \in DOMAIN bytes THEN bytes[i] ELSE stack[a]]

pushStack(bytes) ==
    /\ stack' = Pushed(bytes)
    /\ sp' = (sp - Len(bytes)) % STACK_SIZE

(* The i-th byte that pulling returns. *)
Pulled(i) == stack[(sp + i) % STACK_SIZE]

pullStack(n) ==
    /\ sp' = (sp + n) % STACK_SIZE
    /\ UNCHANGED stack

(* pullStack() | (pullStack() << 8): the language leaves it open which of  *)
(* the two calls comes first.                                              *)
PulledAddress_HighFirst(first) ==
    Pulled(first + 1) + 256 * Pulled(first)

PulledAddress(first) ==
    IF LEFT_FIRST THEN Pulled(first) + 256 * Pulled(first + 1)
                  ELSE Pulled(first + 1) + 256 * Pulled(first)

(* Bytes of the page in use, and the assumption on programs.               *)
Size(kind) == IF kind \in {"nmi", "irq", "brk"} THEN 3
              ELSE IF kind = "jsr" THEN 2 ELSE 1

Top == frames[Len(frames)]

Depth == IF frames = <<>> THEN 0 ELSE Top.at + Size(Top.kind)

HasRoom(n) == Depth + n <= STACK_SIZE

Push(kind, resume, kept, byte) ==
    frames' = Append(frames, [kind |-> kind, at |-> Depth, pc |-> resume,
                              flags |-> kept, A |-> byte])

Pop == frames' = SubSeq(frames, 1, Len(frames) - 1)

-----------------------------------------------------------------------------

(* CPU::CPU, then reset: its three assignments and interrupt(RESET).       *)
Init ==
    /\ pc = RESET_VECTOR
    /\ flags = {"I"}
    /\ sp = STACK_SIZE - 3
    /\ stack \in [Offsets -> {0}]
    /\ cyclesToWait = 0
    /\ frames = <<>>

(* interrupt, for the three kinds that push. *)
interrupt_LowFirst(kind, from, copy, vector) ==
    /\ HasRoom(3)
    /\ pushStack(<<Low(from), High(from), copy>>)
    /\ flags' = flags \cup {"I"}
    /\ pc' = vector
    /\ cyclesToWait' = cyclesToWait + INTERRUPT_CYCLES
    /\ Push(kind, from, flags, 0)

interrupt(kind, from, copy, vector) ==
    /\ HasRoom(3)
    /\ pushStack(<<High(from), Low(from), copy>>)
    /\ flags' = flags \cup {"I"}
    /\ pc' = vector
    /\ cyclesToWait' = cyclesToWait + INTERRUPT_CYCLES
    /\ Push(kind, from, flags, 0)

triggerNmi ==
    /\ cyclesToWait <= MAX_WAIT
    /\ interrupt("nmi", pc, getFlags(flags), NMI_VECTOR)

(* triggerIrq: "if (I) interrupt(IRQ)". *)
triggerIrq ==
    /\ cyclesToWait <= MAX_WAIT
    /\ "I" \in flags
    /\ interrupt("irq", pc, getFlags(flags), IRQ_VECTOR)

(* CPU::reset while the program runs: the cycles to wait stay due.         *)
reset ==
    /\ pc' = RESET_VECTOR
    /\ sp' = STACK_SIZE - 3
    /\ flags' = {"I"}
    /\ frames' = <<>>
    /\ UNCHANGED <<stack, cyclesToWait>>

-----------------------------------------------------------------------------
(* CPU::step                                                               *)

Wait ==
    /\ cyclesToWait > 0
    /\ cyclesToWait' = cyclesToWait - 1
    /\ UNCHANGED <<pc, flags, sp, stack, frames>>

(* Any instruction that leaves the stack alone.                            *)
Ordinary ==
    /\ pc' \in POINTS
    /\ \E changed \in SUBSET ({"I"} \cup OTHER_FLAGS) :
           flags' = (flags \ changed) \cup (changed \ flags)
    /\ UNCHANGED <<sp, stack, cyclesToWait, frames>>

(* The program's next instruction follows the current one, of size n.      *)
NextInstruction(n) == pc' = Plus(pc, n) /\ pc' \in POINTS

brk ==
    /\ Plus(pc, 1) \in POINTS
    /\ interrupt("brk", Plus(pc, 1), BrkCopy, IRQ_VECTOR)

php ==
    /\ HasRoom(1)
    /\ pushStack(<<getFlags(flags \cup {"B"})>>)
    /\ NextInstruction(1)
    /\ Push("php", 0, flags, 0)
    /\ UNCHANGED <<flags, cyclesToWait>>

plp ==
    /\ frames # <<>> /\ Top.kind = "php"
    /\ pullStack(1)
    /\ flags' = setFlags(Pulled(1))
    /\ NextInstruction(1)
    /\ Pop
    /\ UNCHANGED cyclesToWait

pha ==
    /\ HasRoom(1)
    /\ \E A \in ACCUMULATORS : pushStack(<<A>>) /\ Push("pha", 0, {}, A)
    /\ NextInstruction(1)
    /\ UNCHANGED <<flags, cyclesToWait>>

pla ==
    /\ frames # <<>> /\ Top.kind = "pha"
    /\ pullStack(1)
    /\ flags' = setZNFlags(flags, Pulled(1))
    /\ NextInstruction(1)
    /\ Pop
    /\ UNCHANGED cyclesToWait

(* jsr pushes the address of its own last byte, rts resumes one further.   *)
jsr ==
    /\ HasRoom(2) /\ Plus(pc, 3) \in POINTS
    /\ pushStack(<<High(Plus(pc, 2)), Low(Plus(pc, 2))>>)
    /\ pc' \in POINTS
    /\ Push("jsr", Plus(pc, 3), {}, 0)
    /\ UNCHANGED <<flags, cyclesToWait>>

rts ==
    /\ frames # <<>> /\ Top.kind = "jsr"
    /\ pullStack(2)
    /\ pc' = Plus(PulledAddress(1), 1)
    /\ Pop
    /\ UNCHANGED <<flags, cyclesToWait>>

rti ==
    /\ frames # <<>> /\ Top.kind \in {"nmi", "irq", "brk"}
    /\ pullStack(3)
    /\ flags' = setFlags(Pulled(1))
    /\ pc' = PulledAddress(2)
    /\ Pop
    /\ UNCHANGED cyclesToWait

Execute ==
    /\ cyclesToWait = 0
    /\ Ordinary \/ brk \/ php \/ plp \/ pha \/ pla \/ jsr \/ rts \/ rti

Next == triggerNmi \/ triggerIrq \/ reset \/ Wait \/ Execute

Spec == Init /\ [][Next]_vars

-----------------------------------------------------------------------------
(* Properties.                                                             *)

(* Where the byte on top of n others is pushed. *)
Slot(n) == (STACK_SIZE - 3 - n) % STACK_SIZE

(* The i-th byte of the k-th outstanding push. *)
Saved(k, i) == stack[Slot(frames[k].at + i - 1)]

(* Every outstanding push is still intact in memory, whatever was pushed   *)
(* and pulled on top of it since, across the wrap of the stack page: the   *)
(* address, flags or A found there are those of the moment of the push.    *)
(* (BRK's copy of the flags is left out: it does not hold them.)           *)
StackHoldsFrames ==
    \A k \in DOMAIN frames :
        LET address == 256 * Saved(k, 1) + Saved(k, 2)
            kind == frames[k].kind
        IN  /\ kind \in {"nmi", "irq", "brk"} => address = frames[k].pc
            /\ kind \in {"nmi", "irq"} => setFlags(Saved(k, 3)) = frames[k].flags
            /\ kind = "jsr" => Plus(address, 1) = frames[k].pc
            /\ kind = "php" => setFlags(Saved(k, 1)) = frames[k].flags
            /\ kind = "pha" => Saved(k, 1) = frames[k].A

Pulls(kinds) ==
    /\ frames # <<>> /\ Top.kind \in kinds
    /\ Pop
    /\ ~reset

(* Returning resumes exactly what was left: pc after RTI and RTS, the      *)
(* flags after RTI and PLP, interrupts disabled or not included, the byte  *)
(* PLA brings back to A, however many interrupts and calls ran in between. *)
ReturnsRestore ==
    [][/\ Pulls({"nmi", "irq", "brk", "jsr"}) => pc' = Top.pc
       /\ Pulls({"nmi", "irq", "php"}) => flags' = Top.flags
       /\ Pulls({"pha"}) => Pulled(1) = Top.A]_vars

Pushes(kind) == Len(frames') > Len(frames) /\ frames'[Len(frames')].kind = kind

(* "set B on the copy": the flags BRK pushes are those of the program and  *)
(* B.  Violated: the code masks them with B, and pushes none of them.      *)
BrkSetsB ==
    [][Pushes("brk") => stack'[(sp - 2) % STACK_SIZE] = getFlags(flags \cup {"B"})]_vars

(* I is the "Interrupt Disable" flag: an IRQ interrupts the program only   *)
(* while it is clear.                                                      *)
IrqOnlyWhenEnabled == [][Pushes("irq") => "I" \notin flags]_vars
=============================================================================
