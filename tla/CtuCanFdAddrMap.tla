-------------------------- MODULE CtuCanFdAddrMap --------------------------
(***************************************************************************)
(* The register file of the CTU CAN FD core as bytes, addressed through   *)
(* enum ctu_can_fd_can_registers of src/driver/ctu_can_fd_regs.h.  A       *)
(* program stores to a register at its offset, with the access width the  *)
(* offsets leave it (up to the next offset, at most to the end of the     *)
(* 32-bit word); stores a whole union word at the offset of the union's   *)
(* first register; or stores data word i of a TXT buffer, which the enum  *)
(* names only for i = 1, 2 and 20 and which the program computes from      *)
(* TXTBn_DATA_1 for the others.  The state is the bytes stored so far.    *)
(***************************************************************************)
EXTENDS Naturals, FiniteSets, FiniteSetsExt, Functions, CtuCanFdRegs

CONSTANTS
    Words,      \* the unions in scope: their registers and their whole words
    Buffers,    \* the TXT buffers in scope, by the name of their DATA_1
    Values,     \* the (nonzero) byte values a store may write
    MaxStores   \* bound on the stores of one behaviour

VARIABLES
    mem,        \* mem[a]: the byte last stored at address a
    nstores,    \* stores made so far
    lastStore   \* the last store's target and value (history)

vars == <<mem, nstores, lastStore>>

\* The TXT buffer words the enum names (lines 90-101), each as
\* <<DATA_1 of its buffer, index of the word in the buffer>>.
TxtbAlias ==
    [ TXTB1_DATA_1 |-> <<"TXTB1_DATA_1", 1>>, TXTB1_DATA_2 |-> <<"TXTB1_DATA_1", 2>>,
      TXTB1_DATA_20 |-> <<"TXTB1_DATA_1", 20>>,
      TXTB2_DATA_1 |-> <<"TXTB2_DATA_1", 1>>, TXTB2_DATA_2 |-> <<"TXTB2_DATA_1", 2>>,
      TXTB2_DATA_20 |-> <<"TXTB2_DATA_1", 20>>,
      TXTB3_DATA_1 |-> <<"TXTB3_DATA_1", 1>>, TXTB3_DATA_2 |-> <<"TXTB3_DATA_1", 2>>,
      TXTB3_DATA_20 |-> <<"TXTB3_DATA_1", 20>>,
      TXTB4_DATA_1 |-> <<"TXTB4_DATA_1", 1>>, TXTB4_DATA_2 |-> <<"TXTB4_DATA_1", 2>>,
      TXTB4_DATA_20 |-> <<"TXTB4_DATA_1", 20>> ]

ASSUME Buffers \subseteq {TxtbAlias[r][1] : r \in DOMAIN TxtbAlias}
ASSUME Words \subseteq DOMAIN Layouts

\* Every register of the enum but the TXT buffer data words is declared by
\* exactly one union.
ASSUME /\ DOMAIN can_registers \ DOMAIN TxtbAlias = UNION {Registers(w) : w \in DOMAIN Layouts}
       /\ \A w1, w2 \in DOMAIN Layouts : w1 /= w2 => Registers(w1) \cap Registers(w2) = {}
ASSUME 0 \notin Values /\ MaxStores \in Nat

\* The data words of a TXT buffer: DATA_1 up to DATA_20, the last one named.
Slots == 1..20

\* The registers of the unions in scope: every register but the TXT
\* buffer data words has a union whose comment group names it.
PlainRegs == UNION {Registers(w) : w \in Words}

\* A faulty variant that counts data words from 0 instead of 1.
TxtbAddrFromZero(d, i) == can_registers[d] + 4 * i

\* The address of data word i of the buffer whose DATA_1 is d: the data
\* words are uint32_t, one every 4 bytes from DATA_1.
TxtbAddr(d, i) == can_registers[d] + 4 * (i - 1)

\* Where the access to the register at offset off ends: at the next
\* offset of the enum, and never past the end of off's 32-bit word.
RegEnd(off) ==
    Min({o \in Range(can_registers) : o > off} \cup {off - (off % 4) + 4})

\* The bytes a store to named register r writes.
Extent(r) == can_registers[r] .. RegEnd(can_registers[r]) - 1

\* The location named register r stands for: its own, or the TXT buffer
\* data word it names.
RegLoc(r) == IF r \in PlainRegs THEN <<r, 0>> ELSE TxtbAlias[r]

\* The registers a behaviour may store by name.
StoreRegs == PlainRegs \cup {r \in DOMAIN TxtbAlias : TxtbAlias[r][1] \in Buffers}

\* Every independently storable location: <<register, 0>> for a register,
\* <<DATA_1 of the buffer, i>> for data word i of a TXT buffer.
Locations == {<<r, 0>> : r \in PlainRegs} \cup (Buffers \X Slots)

\* The union declaring register r, and the place of r's comment group in it.
UnionOf(r) == CHOOSE w \in DOMAIN Layouts : r \in Registers(w)
GroupIndex(w, r) == CHOOSE i \in DOMAIN Layouts[w].le : Layouts[w].le[i][1] = r

\* The bits the i-th comment group of union w declares.
GroupBits(w, i) ==
    LET g == Layouts[w].le[i][2] IN SumFunction([j \in DOMAIN g |-> g[j][2]])

\* The bytes of union w's word that register r's fields occupy, counting
\* the groups before it from bit 0 (byte k is bits 8k..8k+7).
DeclaredBytes(w, r) ==
    LET i == GroupIndex(w, r)
        lo == SumFunction([j \in 1..i - 1 |-> GroupBits(w, j)])
    IN  Base(w) + lo \div 8 .. Base(w) + (lo + GroupBits(w, i) - 1) \div 8

\* The bytes of every location: a register's as its union declares them,
\* a TXT buffer data word's as computed from DATA_1.
LocBytes ==
    [l \in Locations |->
        IF l[2] = 0 THEN DeclaredBytes(UnionOf(l[1]), l[1])
        ELSE TxtbAddr(l[1], l[2]) .. TxtbAddr(l[1], l[2]) + 3]

\* The byte at address a: a register never stored reads as 0.
Peek(a) == IF a \in DOMAIN mem THEN mem[a] ELSE 0

\* A store of byte value v to every address of A.
Poke(A, v) == mem' = [a \in DOMAIN mem \cup A |-> IF a \in A THEN v ELSE mem[a]]

-----------------------------------------------------------------------------

Init ==
    /\ mem = [a \in {} |-> 0]
    /\ nstores = 0
    /\ lastStore = [at |-> {}, val |-> 0]

\* A store of v to named register r at its offset, at the width up to
\* the next register.
StoreReg(r, v) ==
    /\ Poke(Extent(r), v)
    /\ lastStore' = [at |-> {RegLoc(r)}, val |-> v]

\* A store of v to data word i of TXT buffer d, at the computed address.
StoreTxtb(d, i, v) ==
    /\ Poke(TxtbAddr(d, i) .. TxtbAddr(d, i) + 3, v)
    /\ lastStore' = [at |-> {<<d, i>>}, val |-> v]

\* A faulty variant whose inclusive end writes one byte past the word.
StoreUnionFiveBytes(w, v) ==
    /\ Poke(Base(w) .. Base(w) + 4, v)
    /\ lastStore' = [at |-> {<<r, 0>> : r \in Registers(w)}, val |-> v]

\* reg.u32 of union w stored at the offset of its first register.
StoreUnion(w, v) ==
    /\ Poke(Base(w) .. Base(w) + 3, v)
    /\ lastStore' = [at |-> {<<r, 0>> : r \in Registers(w)}, val |-> v]

Next ==
    /\ nstores < MaxStores
    /\ \E v \in Values :
          \/ \E r \in StoreRegs : StoreReg(r, v)
          \/ \E d \in Buffers, i \in Slots : StoreTxtb(d, i, v)
          \/ \E w \in Words : StoreUnion(w, v)
    /\ nstores' = nstores + 1

Spec == Init /\ [][Next]_vars

-----------------------------------------------------------------------------

\* The locations one union word store writes: the registers of the union.
UnionGroups == {{<<r, 0>> : r \in Registers(w)} : w \in Words}

\* Every byte stored so far belongs to a location of the register file and
\* holds a stored value; the last store targets locations of the file.
TypeOK ==
    /\ DOMAIN mem \subseteq UNION {LocBytes[l] : l \in Locations}
    /\ \A a \in DOMAIN mem : mem[a] \in Values
    /\ nstores \in 0..MaxStores
    /\ lastStore.at \subseteq Locations

\* What a location holds: the set of the values of its bytes.
LocVal(l) == {Peek(a) : a \in LocBytes[l]}

Loc == INSTANCE LocationStore
         WITH val <- [l \in Locations |-> LocVal(l)], last <- lastStore,
              Groups <- UnionGroups, Blank <- 0

\* The offsets of the enum and the TXT buffer addresses computed from
\* DATA_1 lay the register file out as independent locations: a store by
\* name, by computed buffer address or of a whole union word changes
\* exactly the locations it targets, each to the stored value alone.
RefinesLocations == Loc!Spec

=============================================================================
