--------------------------- MODULE CPUInstructions ---------------------------
(***************************************************************************)
(* The instructions of the CPU (src/console/cpu.cpp) other than those that *)
(* CPUInterrupts models: addressing modes, arithmetic, shifts, compares,   *)
(* loads, stores, transfers, branches and jumps, and their cycles.         *)
(*                                                                         *)
(* An instruction is an operator from the machine before it to the machine *)
(* after it, so that the ones the code composes of two others (dcp is dec, *)
(* then cmp) are composed here too.  A byte has BITS bits, 8 in the code:  *)
(* an address is two bytes, a page is one byte's worth of addresses, page  *)
(* 1 holds the stack.                                                      *)
(*                                                                         *)
(* The memory is RAM: it returns what was written.  The bytes of an        *)
(* instruction come from a ROM that may hold anything, so any instruction  *)
(* may follow, with any operand.                                           *)
(***************************************************************************)
EXTENDS Integers

CONSTANTS
    BITS,               \* bits of a byte (8)
    HIGH_BYTES,         \* high bytes of the addresses in the program
    ORIGINS,            \* where the program's instructions are
    FILLS,              \* how the RAM may be filled: steps of a progression
    MAX_INSTRUCTIONS    \* bound: instructions executed

WORD == 2^BITS
HALF == 2^(BITS - 1)
SPACE == WORD * WORD

Bytes == 0..(WORD - 1)
Addresses == 0..(SPACE - 1)

(* The powers of two up to BITS, spelt out: provers know nothing of ^.     *)
ASSUME WordAssumption ==
    /\ BITS \in Nat /\ BITS > 1
    /\ HALF \in Nat /\ HALF > 1 /\ WORD = 2 * HALF
    /\ 2^0 = 1 /\ \A n \in 1..BITS : 2^n \in Nat \ {0} /\ 2^n = 2 * 2^(n - 1)
    /\ HIGH_BYTES \subseteq Bytes
    /\ ORIGINS \subseteq Addresses
    /\ FILLS \subseteq Nat
    /\ MAX_INSTRUCTIONS \in Nat

VARIABLES
    cpu,        \* registers, flags and memory
    pc,         \* program counter
    cycles,     \* cycles the latest step took
    running,    \* no unimplemented instruction was executed
    executed,   \* instructions executed
    latest      \* history: the latest instruction and what it found

vars == <<cpu, pc, cycles, running, executed, latest>>

Machine ==
    [A : Bytes, X : Bytes, Y : Bytes, sp : Bytes,
     C : BOOLEAN, Z : BOOLEAN, I : BOOLEAN, D : BOOLEAN, O : BOOLEAN, N : BOOLEAN,
     mem : [Addresses -> Bytes]]

TypeOK ==
    /\ cpu \in Machine
    /\ pc \in Addresses
    /\ cycles \in 0..8
    /\ running \in BOOLEAN
    /\ executed \in 0..MAX_INSTRUCTIONS

-----------------------------------------------------------------------------
(* Bytes.                                                                  *)

Low(address) == address % WORD
High(address) == address \div WORD
Pointer(low, high) == low + WORD * high

Negative(value) == value >= HALF

Bit(flag) == IF flag THEN 1 ELSE 0

(* a & b, bit by bit. *)
And(a, b) ==
    LET and[n \in 0..BITS] ==
            IF n = 0 THEN 0
            ELSE and[n - 1] + 2^(n - 1) * ((a \div 2^(n - 1)) % 2)
                                        * ((b \div 2^(n - 1)) % 2)
    IN  and[BITS]

Or(a, b) == a + b - And(a, b)
Xor(a, b) == a + b - 2 * And(a, b)

pagesDiffer_LowBytes(a, b) == Low(a) # Low(b)

pagesDiffer(a, b) == High(a) # High(b)

-----------------------------------------------------------------------------
(* Addressing modes (CPU::step).  The operand is one byte or two.          *)

OneByte == {"immediate", "zeroPage", "zeroPageX", "zeroPageY",
            "indexedIndirect", "indirectIndexed", "relative"}
TwoBytes == {"absolute", "absoluteX", "absoluteY", "indirect"}

Size(mode) == IF mode \in TwoBytes THEN 3 ELSE IF mode \in OneByte THEN 2 ELSE 1

(* Two bytes of the zero page, the second one after the first or, past the *)
(* end of the page, at its start.                                          *)
ZeroPagePointer(mem, at) == Pointer(mem[at], mem[(at + 1) % WORD])

(* The address two bytes of the program, low and high, stand for; next is  *)
(* the address of the instruction that follows.                            *)
Effective(mode, low, high, s, next) ==
    LET base == Pointer(low, high)
    IN  CASE mode = "absolute"   -> base
          [] mode = "absoluteX"  -> (base + s.X) % SPACE
          [] mode = "absoluteY"  -> (base + s.Y) % SPACE
          [] mode = "immediate"  -> low
          [] mode = "indexedIndirect" -> ZeroPagePointer(s.mem, (low + s.X) % WORD)
          [] mode = "indirect" ->
                 Pointer(s.mem[base], s.mem[Pointer(Low(base + 1), high)])
          [] mode = "indirectIndexed" -> (ZeroPagePointer(s.mem, low) + s.Y) % SPACE
          [] mode = "relative" ->
                 (next + low - (IF low > HALF THEN WORD ELSE 0)) % SPACE
          [] mode = "zeroPage"   -> low
          [] mode = "zeroPageX"  -> (low + s.X) % WORD
          [] mode = "zeroPageY"  -> (low + s.Y) % WORD
          [] OTHER               -> SPACE - 1

(* pageChanged: the address is on another page than without its index.     *)
PageChanged(mode, address, s) ==
    \/ mode = "absoluteX" /\ pagesDiffer(address, (address - s.X) % SPACE)
    \/ /\ mode \in {"absoluteY", "indirectIndexed"}
       /\ pagesDiffer(address, (address - s.Y) % SPACE)

-----------------------------------------------------------------------------
(* Instructions.  i holds the mode and the address, or the value if it is  *)
(* immediate.                                                              *)

operand(s, i) == IF i.mode = "immediate" THEN i.address ELSE s.mem[i.address]

setZNFlags(s, value) == [s EXCEPT !.Z = value = 0, !.N = Negative(value)]

write(s, address, value) == [s EXCEPT !.mem[address] = value]

load(s, register, value) == setZNFlags([s EXCEPT ![register] = value], value)

(* What asl, lsr, rol and ror work on, and where their result goes.        *)
source(s, i) == IF i.mode = "accumulator" THEN s.A ELSE s.mem[i.address]

store(s, i, value) ==
    setZNFlags(IF i.mode = "accumulator" THEN [s EXCEPT !.A = value]
                                         ELSE write(s, i.address, value), value)

(* An overflow is a change of sign when both operands had the same one.    *)
adc_NoCarryIn(s, i) ==
    LET temp == s.A + operand(s, i)
    IN  load([s EXCEPT !.C = temp >= WORD], "A", temp % WORD)

adc(s, i) ==
    LET value  == operand(s, i)
        temp   == s.A + value + Bit(s.C)
        result == temp % WORD
        overflow == /\ Negative(s.A) = Negative(value)
                    /\ Negative(result) # Negative(s.A)
    IN  load([s EXCEPT !.C = temp >= WORD, !.O = overflow], "A", result)

(* sbc(value) = adc(~value) *)
sbc(s, i) == adc(s, [mode |-> "immediate", address |-> WORD - 1 - operand(s, i)])

_and(s, i) == load(s, "A", And(s.A, operand(s, i)))
ora(s, i)  == load(s, "A", Or(s.A, operand(s, i)))
eor(s, i)  == load(s, "A", Xor(s.A, operand(s, i)))

asl(s, i) ==
    store([s EXCEPT !.C = Negative(source(s, i))], i, (2 * source(s, i)) % WORD)

lsr(s, i) ==
    store([s EXCEPT !.C = source(s, i) % 2 = 1], i, source(s, i) \div 2)

rol(s, i) ==
    store([s EXCEPT !.C = Negative(source(s, i))], i,
          ((2 * source(s, i)) % WORD) + Bit(s.C))

ror(s, i) ==
    store([s EXCEPT !.C = source(s, i) % 2 = 1], i,
          source(s, i) \div 2 + HALF * Bit(s.C))

bit(s, i) ==
    LET tmp == s.mem[i.address]
    IN  [s EXCEPT !.N = Negative(tmp), !.O = (tmp \div (HALF \div 2)) % 2 = 1,
                  !.Z = And(tmp, s.A) = 0]

(* cmp, cpx and cpy. *)
compare(s, register, i) ==
    LET difference == s[register] - operand(s, i)
    IN  setZNFlags([s EXCEPT !.C = difference >= 0], difference % WORD)

(* inc and dec, inx and iny, dex and dey. *)
add(s, i, n) ==
    LET temp == (s.mem[i.address] + n) % WORD
    IN  setZNFlags(write(s, i.address, temp), temp)

inc(s, i) == add(s, i, 1)
dec(s, i) == add(s, i, -1)

count_NoWrap(s, register, n) == load(s, register, s[register] + n)

count(s, register, n) == load(s, register, (s[register] + n) % WORD)

(* shx and shy: "(temp >> 7) + 1", of the byte that is overwritten. *)
shiftedStore(s, register, i) ==
    write(s, i.address, And(s[register], (s.mem[i.address] \div HALF) + 1))

StackTop(s) == WORD + s.sp

pha(s) == [write(s, StackTop(s), s.A) EXCEPT !.sp = (@ - 1) % WORD]

pla(s) ==
    LET up == [s EXCEPT !.sp = (@ + 1) % WORD]
    IN  load(up, "A", up.mem[StackTop(up)])


(* Instructions by what they do.                                           *)
Sums == {"adc", "sbc", "_and", "ora", "eor", "cmp", "lda"}
Shifts == {"asl", "lsr", "rol", "ror"}
Composites == {"slo", "rla", "sre", "rra", "dcp", "isb"}
Modifies == Composites \cup Shifts \cup {"inc", "dec"}

Compares == [cmp |-> "A", cpx |-> "X", cpy |-> "Y"]
Loads == [lda |-> "A", ldx |-> "X", ldy |-> "Y"]
RegisterStores == [sta |-> "A", stx |-> "X", sty |-> "Y"]
ShiftedStores == [shx |-> "X", shy |-> "Y"]
Stores == DOMAIN RegisterStores \cup DOMAIN ShiftedStores \cup {"sax"}

Clears == [clc |-> "C", cld |-> "D", cli |-> "I", clv |-> "O"]
Sets == [sec |-> "C", sed |-> "D", sei |-> "I"]
Increments == [inx |-> "X", iny |-> "Y"]
Decrements == [dex |-> "X", dey |-> "Y"]
Transfers == [tax |-> <<"A", "X">>, tay |-> <<"A", "Y">>, tsx |-> <<"sp", "X">>,
              txa |-> <<"X", "A">>, tya |-> <<"Y", "A">>]
Implied == DOMAIN Clears \cup DOMAIN Sets \cup DOMAIN Increments \cup DOMAIN Decrements
           \cup DOMAIN Transfers \cup {"txs", "pha", "pla"}

BranchesIfSet == [bcs |-> "C", beq |-> "Z", bmi |-> "N", bvs |-> "O"]
BranchesIfClear == [bcc |-> "C", bne |-> "Z", bpl |-> "N", bvc |-> "O"]
Branches == DOMAIN BranchesIfSet \cup DOMAIN BranchesIfClear

Computing == Sums \cup Modifies \cup Stores \cup Implied
             \cup DOMAIN Compares \cup DOMAIN Loads \cup {"lax", "bit", "nop"}

Unimplemented == {"ahx", "alr", "anc", "arr", "axs", "kil", "las", "tas", "xaa"}

(* Instructions made of two: the second one finds what the first one left. *)
Composed(name, s, i) ==
    CASE name = "slo" -> ora(asl(s, i), i)   [] name = "rla" -> _and(rol(s, i), i)
      [] name = "sre" -> eor(lsr(s, i), i)   [] name = "rra" -> adc(ror(s, i), i)
      [] name = "dcp" -> compare(dec(s, i), "A", i)
      [] name = "isb" -> sbc(inc(s, i), i)

(* The instruction table: what the instruction does to the machine.        *)
Instruction(name, s, i) ==
    CASE name = "adc" -> adc(s, i)   [] name = "sbc" -> sbc(s, i)
      [] name = "_and" -> _and(s, i) [] name = "ora" -> ora(s, i)
      [] name = "eor" -> eor(s, i)   [] name = "bit" -> bit(s, i)
      [] name = "asl" -> asl(s, i)   [] name = "lsr" -> lsr(s, i)
      [] name = "rol" -> rol(s, i)   [] name = "ror" -> ror(s, i)
      [] name = "inc" -> inc(s, i)   [] name = "dec" -> dec(s, i)
      [] name \in Composites -> Composed(name, s, i)
      [] name \in DOMAIN Compares -> compare(s, Compares[name], i)
      [] name \in DOMAIN Loads -> load(s, Loads[name], operand(s, i))
      [] name = "lax" -> load(load(s, "A", operand(s, i)), "X", operand(s, i))
      [] name \in DOMAIN RegisterStores -> write(s, i.address, s[RegisterStores[name]])
      [] name \in DOMAIN ShiftedStores -> shiftedStore(s, ShiftedStores[name], i)
      [] name = "sax" -> write(s, i.address, And(s.A, s.X))
      [] name \in DOMAIN Increments -> count(s, Increments[name], 1)
      [] name \in DOMAIN Decrements -> count(s, Decrements[name], -1)
      [] name \in DOMAIN Transfers -> load(s, Transfers[name][2], s[Transfers[name][1]])
      [] name = "txs" -> [s EXCEPT !.sp = s.X]
      [] name = "pha" -> pha(s)
      [] name = "pla" -> pla(s)
      [] name \in DOMAIN Clears -> [s EXCEPT ![Clears[name]] = FALSE]
      [] name \in DOMAIN Sets -> [s EXCEPT ![Sets[name]] = TRUE]
      [] name = "nop" -> s

(* The modes each instruction has an opcode for. *)
Memory == {"zeroPage", "zeroPageX", "absolute", "absoluteX", "absoluteY",
           "indexedIndirect", "indirectIndexed"}

Modes(name) ==
    CASE name \in Sums -> Memory \cup {"immediate"}
      [] name \in Composites \cup {"sta"} -> Memory
      [] name \in Shifts -> {"accumulator", "zeroPage", "zeroPageX", "absolute", "absoluteX"}
      [] name \in {"inc", "dec"} -> {"zeroPage", "zeroPageX", "absolute", "absoluteX"}
      [] name = "lax" -> (Memory \cup {"immediate", "zeroPageY"}) \ {"zeroPageX", "absoluteX"}
      [] name = "ldx" -> {"immediate", "zeroPage", "zeroPageY", "absolute", "absoluteY"}
      [] name = "ldy" -> {"immediate", "zeroPage", "zeroPageX", "absolute", "absoluteX"}
      [] name = "sax" -> {"indexedIndirect", "zeroPage", "zeroPageY", "absolute"}
      [] name = "stx" -> {"zeroPage", "zeroPageY", "absolute"}
      [] name = "sty" -> {"zeroPage", "zeroPageX", "absolute"}
      [] name \in {"cpx", "cpy"} -> {"immediate", "zeroPage", "absolute"}
      [] name = "bit" -> {"zeroPage", "absolute"}
      [] name = "shx" -> {"absoluteY"}
      [] name = "shy" -> {"absoluteX"}
      [] name \in Branches -> {"relative"}
      [] name = "jmp" -> {"absolute", "indirect"}
      [] name = "nop" -> {"implied", "immediate", "zeroPage", "zeroPageX", "absolute", "absoluteX"}
      [] OTHER -> {"implied"}

Indexed == {"absoluteX", "absoluteY", "indirectIndexed"}

instructionCycles(name, mode) ==
    LET reading == CASE mode \in {"indexedIndirect"}    -> 6
                     [] mode \in {"indirectIndexed"}    -> 5
                     [] mode \in {"zeroPage"}           -> 3
                     [] mode \in TwoBytes \cup {"zeroPageX", "zeroPageY"} -> 4
                     [] OTHER                           -> 2
        late == IF mode \in Indexed THEN 1 ELSE 0
    IN  CASE name = "jmp" -> (IF mode = "absolute" THEN 3 ELSE 5)
          [] name = "pha" -> 3
          [] name = "pla" -> 4
          [] name \in Stores -> reading + late
          [] name \in Modifies /\ mode # "accumulator" -> reading + late + 2
          [] OTHER -> reading

(* Instructions that read take one more cycle if a page is crossed. *)
instructionCyclesExtra(name, mode) ==
    IF mode \in Indexed /\ name \notin Stores \cup Modifies THEN 1 ELSE 0

Taken(name, s) ==
    IF name \in DOMAIN BranchesIfSet THEN s[BranchesIfSet[name]]
                                     ELSE ~s[BranchesIfClear[name]]

-----------------------------------------------------------------------------

(* A program can load any registers; the stack pointer is about to wrap.   *)
Init ==
    /\ \E a, x, y \in Bytes, fill \in FILLS, carry, others \in BOOLEAN :
           cpu = [A |-> a, X |-> x, Y |-> y, sp |-> 0,
                  C |-> carry, Z |-> others, I |-> FALSE, D |-> FALSE,
                  O |-> others, N |-> others,
                  mem |-> [at \in Addresses |-> ((at * fill) + High(at) + 1) % WORD]]
    /\ pc \in ORIGINS
    /\ cycles = 0
    /\ running = TRUE
    /\ executed = 0
    /\ latest = [name |-> "none", mode |-> "implied", low |-> 0, high |-> 0,
                 next |-> pc, cpu |-> cpu]

CanExecute == running /\ executed < MAX_INSTRUCTIONS

Fetch(name, mode, low, high) ==
    /\ executed' = executed + 1
    /\ latest' = [name |-> name, mode |-> mode, low |-> low, high |-> high,
                  next |-> (pc + Size(mode)) % SPACE, cpu |-> cpu]

LowBytes(mode) == IF Size(mode) > 1 THEN Bytes ELSE {0}
HighBytes(mode) == IF Size(mode) > 2 THEN HIGH_BYTES ELSE {0}

Target == Effective(latest'.mode, latest'.low, latest'.high, cpu, latest'.next)

(* Instructions that go on to the next one.                                *)
Compute(name) ==
    /\ CanExecute
    /\ \E mode \in Modes(name) :
           /\ \E low \in LowBytes(mode), high \in HighBytes(mode) :
                  Fetch(name, mode, low, high)
           /\ cpu' = Instruction(name, cpu, [mode |-> mode, address |-> Target])
           /\ cycles' = instructionCycles(name, mode)
                        + (IF PageChanged(mode, Target, cpu)
                           THEN instructionCyclesExtra(name, mode) ELSE 0)
    /\ pc' = latest'.next
    /\ UNCHANGED running

(* A branch takes a cycle more if it is taken, and another one if it leads *)
(* to another page.                                                        *)
Branch(name) ==
    /\ CanExecute
    /\ \E low \in Bytes : Fetch(name, "relative", low, 0)
    /\ IF Taken(name, cpu)
       THEN /\ pc' = Target
            /\ cycles' = instructionCycles(name, "relative") + 1
                         + Bit(pagesDiffer(latest'.next, Target))
       ELSE /\ pc' = latest'.next
            /\ cycles' = instructionCycles(name, "relative")
    /\ UNCHANGED <<cpu, running>>

jmp ==
    /\ CanExecute
    /\ \E mode \in Modes("jmp"), low \in Bytes, high \in HIGH_BYTES :
           Fetch("jmp", mode, low, high)
    /\ pc' = Target
    /\ cycles' = instructionCycles("jmp", latest'.mode)
    /\ UNCHANGED <<cpu, running>>

(* The instructions that are not implemented throw: the emulator ends.     *)
Throw(name) ==
    /\ CanExecute
    /\ Fetch(name, "implied", 0, 0)
    /\ running' = FALSE
    /\ UNCHANGED <<cpu, pc, cycles>>

Next ==
    \/ \E name \in Computing : Compute(name)
    \/ \E name \in Branches : Branch(name)
    \/ jmp
    \/ \E name \in Unimplemented : Throw(name)

Spec == Init /\ [][Next]_vars

-----------------------------------------------------------------------------
(* Properties.  They compare the machine with the one the latest           *)
(* instruction found.                                                      *)

Before == latest.cpu

LatestAddress ==
    Effective(latest.mode, latest.low, latest.high, Before, latest.next)

LatestInfo == [mode |-> latest.mode, address |-> LatestAddress]

Signed(value) == IF Negative(value) THEN value - WORD ELSE value

Overflows(n) == n \notin -HALF..(HALF - 1)

(* A and the carry after an addition, A and the borrow (the carry clear)   *)
(* after a subtraction.                                                    *)
IsSum(value, carry) ==
    /\ cpu.A + WORD * Bit(cpu.C) = Before.A + value + Bit(carry)
    /\ cpu.O = Overflows(Signed(Before.A) + Signed(value) + Bit(carry))

IsDifference(value) ==
    /\ cpu.A - WORD * Bit(~cpu.C) = Before.A - value - Bit(~Before.C)
    /\ cpu.O = Overflows(Signed(Before.A) - Signed(value) - Bit(~Before.C))

IsComparison(register, value) ==
    /\ cpu.C = (register >= value)
    /\ cpu.Z = (register = value)
    /\ cpu.N = Negative((register - value) % WORD)

(* A shift moves bits through the carry and loses none. *)
IsShift(name, old, new, in, out) ==
    CASE name = "asl" -> new + WORD * Bit(out) = 2 * old
      [] name = "rol" -> new + WORD * Bit(out) = 2 * old + Bit(in)
      [] name = "lsr" -> 2 * new + Bit(out) = old
      [] name = "ror" -> 2 * new + Bit(out) = old + WORD * Bit(in)

(* Arithmetic on bytes is arithmetic on integers, with the carry as the    *)
(* unsigned overflow (or no borrow) and O as the signed one, although the  *)
(* code subtracts by adding a complement and tells an overflow from signs; *)
(* instructions made of two hand the right byte and the right carry from   *)
(* the first to the second, and the second works on what the first wrote.  *)
ArithmeticIsInteger ==
    LET name  == latest.name
        value == operand(Before, LatestInfo)
        new   == cpu.mem[LatestAddress]
    IN  /\ name = "adc" => IsSum(value, Before.C)
        /\ name = "sbc" => IsDifference(value)
        /\ name = "isb" => new = (value + 1) % WORD /\ IsDifference(new)
        /\ name = "rra" => /\ IsShift("ror", value, new, Before.C, value % 2 = 1)
                           /\ IsSum(new, value % 2 = 1)
        /\ name = "cmp" => IsComparison(Before.A, value)
        /\ name = "cpx" => IsComparison(Before.X, value)
        /\ name = "cpy" => IsComparison(Before.Y, value)
        /\ name = "dcp" => (new + 1) % WORD = value /\ IsComparison(Before.A, new)
        /\ name \in Shifts =>
               LET old == source(Before, LatestInfo)
                   result == source(cpu, LatestInfo)
               IN  /\ IsShift(name, old, result, Before.C, cpu.C)
                   /\ cpu.Z = (result = 0) /\ cpu.N = (Signed(result) < 0)
        /\ name = "slo" => /\ IsShift("asl", value, new, Before.C, cpu.C)
                           /\ cpu.A = Or(Before.A, new)
        /\ name = "rla" => /\ IsShift("rol", value, new, Before.C, cpu.C)
                           /\ cpu.A = And(Before.A, new)
        /\ name = "sre" => /\ IsShift("lsr", value, new, Before.C, cpu.C)
                           /\ cpu.A = Xor(Before.A, new)

(* The byte an index is added to: the low byte of the program's address or *)
(* of the one found in the zero page.                                      *)
IndexedByte == IF latest.mode = "indirectIndexed" THEN Before.mem[latest.low]
                                                  ELSE latest.low

Index == IF latest.mode = "absoluteX" THEN Before.X ELSE Before.Y

(* An instruction that reads takes its extra cycle exactly when adding the *)
(* index carries out of the low byte, at the end of memory too; one that   *)
(* writes never does.                                                      *)
ReadsPayForPage ==
    latest.mode \in Indexed =>
        cycles = instructionCycles(latest.name, latest.mode)
                 + (IF /\ IndexedByte + Index >= WORD
                       /\ latest.name \notin Stores \cup Modifies THEN 1 ELSE 0)

(* A branch that is taken goes as far as its signed offset says, forward or*)
(* back, from the instruction that follows it, and pays for leaving the    *)
(* page of that one; one that is not taken goes on.  This leaves out where *)
(* 0x80 leads, which OffsetsAreSigned is about.                            *)
BranchesAreSigned ==
    LET offset == Signed(latest.low)
    IN  latest.name \in Branches =>
            IF Taken(latest.name, Before)
            THEN latest.low # HALF =>
                     /\ pc = (latest.next + offset) % SPACE
                     /\ cycles = IF Low(latest.next) + offset \in Bytes THEN 3 ELSE 4
            ELSE pc = latest.next /\ cycles = 2

(* "the offset is used as a SIGNED integer!": every branch that is taken   *)
(* leads as far from the next instruction as its offset, a signed byte,    *)
(* says, the smallest one (0x80, or -128) included.                        *)
OffsetsAreSigned ==
    latest.name \in Branches /\ Taken(latest.name, Before) =>
        pc = (latest.next + Signed(latest.low)) % SPACE

(* Instructions addressing the zero page by one byte write nowhere else,   *)
(* and pushes nowhere but to the stack page.                               *)
WritesStayInPage ==
    \A at \in {a \in Addresses : latest.name # "none" /\ cpu.mem[a] # Before.mem[a]} :
        /\ latest.mode \in {"zeroPage", "zeroPageX", "zeroPageY"} => High(at) = 0
        /\ latest.mode = "implied" => High(at) = 1

(* Indexes, branches and pages agree: what a step costs and where it leads *)
(* or writes follow from carries out of a byte.                            *)
CarriesTellPages == ReadsPayForPage /\ BranchesAreSigned /\ WritesStayInPage
=============================================================================
