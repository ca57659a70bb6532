# TLA+ models of the CTU CAN FD register map

The repository has one source file, `src/driver/ctu_can_fd_regs.h`. It is the
generated register map of the CTU CAN FD IP core. It defines three things:

* `enum ctu_can_fd_can_registers`: the byte offset of every register (lines 40-109).
* 43 `union ctu_can_fd_<u>` types (lines 113-1119). Each union overlays a raw
  `uint32_t u32` with a bitfield struct `s`. In 37 of them the struct is
  declared twice. The first declaration is for compilers that define
  `__LITTLE_ENDIAN_BITFIELD`, which fill bits from bit 0 upward. The `#else`
  declaration lists the same fields in reverse order, for compilers that fill
  from bit 31 downward. Several registers can be packed into one 32-bit word,
  for example MODE/COMMAND/STATUS/SETTINGS at 0x4-0x7. Each packed register's
  fields follow a `/* REG */` comment.
* 21 enums giving names to the values of single fields: TX buffer states,
  error positions, event types and so on.

The header contains no functions. Its behaviour is what a C program does with
it: it assigns `reg.u32`, it assigns `reg.s.f` under one bitfield order or the
other, it assigns an enum constant to the field that constant names, and it
stores one packed register at that register's own offset. These assignments
are the operations modelled here. The code behind the registers is not in
this repository: the driver that makes the accesses, and the core's TX buffer
and fault-confinement state machines. It is not modelled.

## Inventory

| component | state | operations | what makes it correct |
|---|---|---|---|
| register offset map (`enum ctu_can_fd_can_registers`) | the bytes of the register file | a store to a register at its offset, 1, 2 or 4 bytes up to the next register; a store of TXT buffer data word i, computed from `TXTBn_DATA_1`; a store of a whole union word | every store changes exactly the registers or data words it targets: offsets are distinct, each register's bytes are where its union declares them, the TXT buffer words do not overlap each other or anything else |
| register unions | one 32-bit union object | `u32 = x`; `s.f = v` under either bitfield order; a packed-register store | both declarations place every field at the same bits and cover all 32 bits; assigning a field changes only that field |
| field value enums | constants | `s.f = NAME` | every constant fits the width of its field |

Interactions: the enums feed the unions' fields, and the offsets say which
bytes of a union's word belong to which packed register. Nothing runs
concurrently in this code. What is hard to test is the big-endian-bitfield
branch, which no little-endian test exercises, and the narrow edges of widths
and offsets. `PROJECT.json` lists each of these hazards at its line.

## Modules

* `CtuCanFdRegs`: the header's data, translated table by table. It has
  `can_registers` and one definition per union, named after the union. Each
  union definition has `le`, the first declaration as a sequence of
  `<<REGISTER, <<field, width>>...>>` groups, and `be`, the `#else`
  declaration. It also has one definition per enum, as a set of
  `<<NAME, value>>` pairs, and `FieldEnums`, which ties each enum to its field.
  The enum `ctu_can_fd_<reg>_<field>` names the field it gives values to.
  `tx_status_tx1s` is attached to `tx1s` only, because that is the only field
  it names. This module also holds the faulty variants that the mutants use.
* `CtuCanFdRegAccess`: one union object and the assignments a program makes
  to it.
  * State:
    * `wd`: which union is being accessed.
    * `u32`: its 32 bits.
    * `nwrites`: how many assignments have been made.
    * `lastOp`: the last assignment, a history variable that the properties read.
  * `Layout`: computes each field's bit from the declaration order, the way
    GCC allocates bitfields. Under `__LITTLE_ENDIAN_BITFIELD` a field starts at
    the sum of the widths before it. Otherwise it starts at 32 minus that sum
    minus its own width.
  * Actions:
    * `WriteU32`: assigns `reg.u32`.
    * `WriteField`: assigns `reg.s.f` as a read-modify-write of f's bits.
    * `WriteEnum`: assigns an enum constant. C keeps the constant modulo
      2^width, which `NatToBits` models.
    * `WriteReg`: stores all zeros or all ones to a packed register's bytes.
      Those bytes run from the register's offset to the next offset or to the
      end of the word. The core is little-endian, so byte k of the word is
      bits 8k..8k+7.
  * `Init`: the word holds one of four raw patterns. These stand for whatever a
    read of the register returned.
* `RegisterRecord`: the abstract specification. A register word is a record
  of fixed-width fields. A field assignment changes exactly that field; a
  whole-word or sub-register store may change any field.
  `CtuCanFdRegAccess` instantiates it. The mapping gives `view` as the struct
  read through the little-endian declaration, and it gives `act` as what the
  user assigned. The refinement is checked as the property `RefinesRecord`.
* `CtuCanFdAddrMap`: the register file as bytes, and every store a program
  makes through the offset enum. It composes the offset map with the unions.
  * State:
    * `mem`: the bytes stored so far. An address never stored reads as 0.
    * `nstores`: how many stores have been made.
    * `lastStore`: the locations the last store targets, and its value.
  * Actions:
    * `StoreReg(r, v)`: a store to a named register at its offset. Its width
      runs up to the next offset of the enum, and never past the end of the
      32-bit word (`Extent`). A named TXT buffer word (DATA_1, DATA_2,
      DATA_20) stands for that data word of its buffer.
    * `StoreTxtb(d, i, v)`: a store to data word i of a TXT buffer, at
      `TxtbAddr` = DATA_1 + 4(i-1). The enum names only words 1, 2 and 20.
    * `StoreUnion(w, v)`: `reg.u32` of union w stored at its first
      register's offset (`Base`), four bytes.
  * Locations: each register's bytes come from its union, not from the
    enum (`DeclaredBytes`). The bytes start after the comment groups declared
    before it, and span its own group's width. A TXT buffer data word is the 4
    bytes at its computed address. Two `ASSUME`s require every register of the
    enum except the TXT buffer words to be declared by exactly one union.
* `LocationStore`: the abstract specification of the offset map. The register
  file is a set of independent locations. A store to one location gives it
  the stored value and leaves every other location alone. A whole-word store
  does the same for the registers that its union packs. `CtuCanFdAddrMap`
  instantiates it. The mapping gives each location the set of values its
  bytes hold, so a location that a store covers only in part holds two values
  and refines nothing.
* `MC_CtuCanFdRegAccess`, `MC_CtuCanFdAddrMap`: the model values. It defines the sets of unions and
  `MaxWrites = 2`.

## Runs

The first five runs use `MC_CtuCanFdRegAccess`, with `MaxWrites = 2`. Two assignments are
enough for one assignment to be made over the result of another. The four raw
initial patterns (zeros, ones, 0x55555555, 0xAAAAAAAA) plus the field values
all-zeros and all-ones make a wrongly placed field visible. A misplaced field
either reads the wrong value or clobbers a neighbour that holds a different
value. Behaviours end after `MaxWrites` assignments, which is the point of the
bound, so every cfg says `CHECK_DEADLOCK FALSE`.

| run | cfg | checks | result |
|---|---|---|---|
| refinement | `MC_refinement.cfg`, all 43 unions | `RefinesRecord`: any field assignment under either bitfield order changes exactly that field of the little-endian view | pass, 80k states |
| roundtrip | `MC_roundtrip.cfg`, all unions | `CrossBuildRoundTrip`: reading all fields under one order and assigning them to a zeroed union under the other gives back `u32` | pass, 80k states |
| enum_readback | `MC_enum.cfg`, unions with enums | `EnumReadBack`: a constant assigned to its field reads back as itself under both orders | pass, 41k states |
| register_isolation | `MC_isolation.cfg`, all unions but MODE's | `SubRegisterWriteIsolated`: a store to a packed register writes all of its own fields and none of another register's | pass, 56k states |
| mode_command_overlap | `MC_mode_overlap.cfg`, MODE's union | the same property | violation (finding) |
| address_map | `MC_addrmap.cfg` (`MC_CtuCanFdAddrMap`), all unions but MODE's, all four TXT buffers | `TypeOK`: every byte stored belongs to some location; `RefinesLocations`: every store changes exactly its target locations, each to the stored value alone | pass, 20k states |

The address_map run uses `MaxStores = 2` and one nonzero byte value. All
locations start at 0, so a single store already shows every byte it
writes. It shows the target's bytes it misses (the target then holds {0, 1})
and a neighbour's bytes it hits (the neighbour changes). The second store
checks that stores compose. The run leaves out the MODE/COMMAND/STATUS/SETTINGS
union for the reason of the finding below. MODE's group is 9 bits, so by its
declaration MODE takes bytes 0x4 and 0x5. A one-byte store at 0x4 then
fails the refinement at once. With that union in scope the run reports the
same disagreement.

The finding: `reserved_8` (line 147) is declared under `/* MODE */`, but bit 8
is in the byte at 0x5, which the offset enum gives to COMMAND. A one-byte
store to MODE cannot write it, and a store to COMMAND overwrites it. The bit
is reserved, so no data field is harmed. The comment is one field late, and
spec.md section 8 says that adjacent layouts do not overlap.

An `ASSUME` requires that no declaration exceeds 32 bits. C would move an
overflowing field into a second 32-bit unit that `u32` does not overlay.

Each property has a mutant in `PROJECT.json`, and the property's own run
detects it. The first four are plausible errors of the register generator.
The last two are plausible errors of a program that stores through the map:

* `btr_fd` with `ph1_fd` and `ph2_fd` swapped in `#else`.
* `int_stat` with its padding one bit short.
* `tx_status` with a 3-bit `tx1s`.
* `ewl_erp_fault_state` with a 9-bit `ew_limit`.
* `TxtbAddr` counting data words from 0: DATA_1 + 4i (`RefinesLocations`).
* `StoreUnion` with an inclusive end, writing five bytes (`TypeOK`).

`CtuCanFdRegAccess` has no type invariant. Any header data gives it one by
construction: a bad declaration stops TLC at the `ASSUME` or at a domain
error first. So it would check nothing about the code.

## Not modelled

No property here is a liveness property, and no fairness is assumed. The
header contains no process, loop or scheduler: every operation is one
assignment that a program makes or does not make. Nothing in this code must
eventually happen.

An earlier hazard list had an atomicity hazard for the MODE/COMMAND/STATUS/SETTINGS
word: a field update via `reg.u32` writes COMMAND and STATUS back as they were
read. It was dropped. What goes wrong there depends on the core changing
STATUS between the read and the write, and on COMMAND being write-to-act.
Neither is in this repository, and a header has no concurrency of its own.

* The driver and the hardware behaviour behind the registers: the TX buffer
  states that `tx1s` encodes, COMMAND's write-to-act bits, and fault
  confinement. None of these are in this repository.
* The numeric meaning of `evnt_det` values that share a code under several
  names (spec.md section 9). This is kept as in the source, because nothing
  decodes it.

## Plan

1. Done: `CtuCanFdRegs`, `CtuCanFdRegAccess` and `RegisterRecord`. These cover
   the layout of every union under both bitfield orders, the enum widths and
   the packed offsets.
2. Done: `CtuCanFdAddrMap` and `LocationStore`. These cover stores at every
   offset of the enum except MODE/COMMAND/STATUS/SETTINGS (0x4-0x7, left out
   for the finding), the TXT buffer data words computed from DATA_1, and
   whole union words. Each register is placed where its union declares it.
3. Left: nothing more of the header changes state. The driver and the core's
   state machines that would give the registers behaviour over time are not
   in this repository.
