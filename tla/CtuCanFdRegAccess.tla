------------------------- MODULE CtuCanFdRegAccess -------------------------
(***************************************************************************)
(* A register word of the CTU CAN FD core accessed through the unions of   *)
(* src/driver/ctu_can_fd_regs.h.  A union overlays `uint32_t u32` with a   *)
(* bitfield struct `s`; the struct is declared once for compilers that     *)
(* define __LITTLE_ENDIAN_BITFIELD (bit fields allocated from bit 0 up)    *)
(* and once, in reverse, for the others (allocated from bit 31 down).      *)
(* The state is the 32 bits of one union object; the actions are the      *)
(* assignments a user of the header makes: the raw word, one field under   *)
(* either build, one field to a named enum constant, and a store of one    *)
(* packed register at its offset from ctu_can_fd_can_registers.            *)
(***************************************************************************)
EXTENDS Naturals, Sequences, SequencesExt, CtuCanFdRegs

CONSTANTS
    Words,      \* the unions a behaviour may access
    MaxWrites   \* bound on the assignments of one behaviour

ASSUME Words \subseteq DOMAIN Layouts
ASSUME MaxWrites \in Nat

\* "LE": __LITTLE_ENDIAN_BITFIELD is defined; "BE": the #else branch.
Builds == {"LE", "BE"}

VARIABLES
    wd,         \* the union being accessed
    u32,        \* its storage: u32[k] is bit k of the u32 member
    nwrites,    \* assignments made so far
    lastOp      \* the last assignment (history, read by the properties)

vars == <<wd, u32, nwrites, lastOp>>

Word == 0..31

\* The <<field, width>> pairs of union w's struct, in declaration order.
Decl(w, b) ==
    IF b = "LE"
    THEN FlattenSeq([i \in 1..Len(Layouts[w].le) |-> Layouts[w].le[i][2]])
    ELSE Layouts[w].be

\* Bits occupied by the declarations before the i-th.
Before(s, i) == SumFunction([j \in 1..i - 1 |-> s[j][2]])

\* The bit a field starts at: GCC fills a uint32_t unit from bit 0 under
\* __LITTLE_ENDIAN_BITFIELD and from bit 31 down otherwise.
Alloc(b, s, i) == IF b = "LE" THEN Before(s, i) ELSE 32 - Before(s, i) - s[i][2]

\* Layout[w][b][f]: position and width of field f of union w under build b.
Layout ==
    [w \in DOMAIN Layouts |-> [b \in Builds |->
        LET s == Decl(w, b) IN
        [f \in {s[i][1] : i \in DOMAIN s} |->
            LET i == CHOOSE j \in DOMAIN s : s[j][1] = f
            IN  [pos |-> Alloc(b, s, i), width |-> s[i][2]]]]]

\* Each struct fits its uint32_t unit, so that u32 overlays all of it.
ASSUME \A w \in DOMAIN Layouts, b \in Builds :
    Before(Decl(w, b), Len(Decl(w, b)) + 1) <= 32

Fields(w) == DOMAIN Layout[w]["LE"]

\* The register comment group (/* MODE */ ...) field f is declared under.
Group(w, f) ==
    (CHOOSE g \in Range(Layouts[w].le) : \E p \in Range(g[2]) : p[1] = f)[1]

Zeros(n) == [k \in 0..n - 1 |-> 0]
Ones(n) == [k \in 0..n - 1 |-> 1]

\* reg.s.f read under build b.
Get(b, w, f, x) ==
    LET L == Layout[w][b][f] IN [k \in 0..L.width - 1 |-> x[L.pos + k]]

\* reg.s.f = v under build b: a read-modify-write of the bits of f.
Set(b, w, f, v, x) ==
    LET L == Layout[w][b][f]
    IN  [k \in Word |-> IF k - L.pos \in DOMAIN v THEN v[k - L.pos] ELSE x[k]]

\* An integer constant stored in an n-bit unsigned field: C keeps it
\* modulo 2^n.
NatToBits(m, n) == [k \in 0..n - 1 |-> (m \div 2^k) % 2]

BitsToNat(v) == SumFunction([k \in DOMAIN v |-> v[k] * 2^k])

\* The struct view of a word under build b.
View(b, w, x) == [f \in Fields(w) |-> Get(b, w, f, x)]

\* A store to register r at its offset writes the bytes up to the next
\* register's offset or the end of the word, bit 8*(byte - base) on.
Lane(w, r) ==
    LET off == can_registers[r]
        end == Min({o \in Range(can_registers) : o > off} \cup {Base(w) + 4})
    IN  8 * (off - Base(w)) .. 8 * (end - Base(w)) - 1

\* Raw words a u32 read or assignment brings: all zeros, all ones and the
\* two alternating patterns.
RawWords ==
    {Zeros(32), Ones(32), [k \in Word |-> k % 2], [k \in Word |-> 1 - (k % 2)]}

-----------------------------------------------------------------------------

Init ==
    /\ wd \in Words
    /\ u32 \in RawWords
    /\ nwrites = 0
    /\ lastOp = [op |-> "none"]

\* reg.u32 = x
WriteU32(x) ==
    /\ u32' = x
    /\ lastOp' = [op |-> "u32"]

\* reg.s.f = v, compiled under build b.
WriteField(b, f, v) ==
    /\ u32' = Set(b, wd, f, v, u32)
    /\ lastOp' = [op |-> "field", build |-> b, field |-> f, val |-> v]

\* reg.s.f = NAME for a constant NAME of the enum of field f.
WriteEnum(b, f, m) ==
    LET v == NatToBits(m, Layout[wd][b][f].width)
    IN  /\ u32' = Set(b, wd, f, v, u32)
        /\ lastOp' = [op |-> "enum", build |-> b, field |-> f, val |-> v, num |-> m]

\* A store of all zeros or all ones to register r at its own offset.
WriteReg(r, p) ==
    /\ u32' = [k \in Word |-> IF k \in Lane(wd, r) THEN p ELSE u32[k]]
    /\ lastOp' = [op |-> "reg", reg |-> r, val |-> p]

Next ==
    /\ nwrites < MaxWrites
    /\ \/ \E x \in RawWords : WriteU32(x)
       \/ \E b \in Builds, f \in Fields(wd) :
            \E v \in {Zeros(Layout[wd][b][f].width), Ones(Layout[wd][b][f].width)} :
                WriteField(b, f, v)
       \/ \E b \in Builds, e \in FieldEnums :
            /\ e[1] = wd
            /\ \E c \in e[3] : WriteEnum(b, e[2], c[2])
       \/ \E r \in Registers(wd), p \in {0, 1} : WriteReg(r, p)
    /\ nwrites' = nwrites + 1
    /\ UNCHANGED wd

Spec == Init /\ [][Next]_vars

-----------------------------------------------------------------------------

\* Owner[w][b][k]: the fields of union w that cover bit k under build b.
Owner ==
    [w \in DOMAIN Layouts |-> [b \in Builds |-> [k \in Word |->
        {f \in Fields(w) : k - Layout[w][b][f].pos \in 0..Layout[w][b][f].width - 1}]]]

\* A zero-initialised union whose fields are all assigned from view under
\* build b, read back through u32 (bits no field covers stay 0).
Encode(b, w, view) ==
    [k \in Word |->
        IF Owner[w][b][k] = {} THEN 0
        ELSE LET f == CHOOSE g \in Owner[w][b][k] : TRUE
             IN  view[f][k - Layout[w][b][f].pos]]

\* Whatever the word holds, a program built with one bitfield order that
\* reads every field of the struct, and one built with the other order
\* that assigns those fields to a zeroed union, produce the same u32: the
\* two struct declarations cover all 32 bits and agree on every position.
CrossBuildRoundTrip ==
    \A b1, b2 \in Builds : Encode(b2, wd, View(b1, wd, u32)) = u32

\* After reg.s.f = NAME under either build, the field read under both
\* builds is the enum constant's value: no constant is truncated by the
\* width of the field it names.
EnumReadBack ==
    lastOp.op = "enum" =>
        \A b \in Builds : BitsToNat(Get(b, wd, lastOp.field, u32)) = lastOp.num

\* What the user sees of an assignment, for the refinement mapping.
UserAct ==
    CASE lastOp.op \in {"field", "enum"} ->
            [op |-> "field", field |-> lastOp.field, val |-> lastOp.val]
      [] lastOp.op = "none" -> lastOp
      [] OTHER -> [op |-> "word"]

\* The width of every field of every union, as declared.
FieldWidths == [w \in DOMAIN Layouts |-> [f \in Fields(w) |-> Layout[w]["LE"][f].width]]

Rec == INSTANCE RegisterRecord
         WITH view <- View("LE", wd, u32), act <- UserAct, FieldWidth <- FieldWidths

\* The unions implement field records: an assignment reg.s.f = v made under
\* either build, read back through the little-endian declaration, changes
\* field f to v and no other field.
RefinesRecord == Rec!Spec

\* A store to a packed register at its offset writes every field declared
\* under that register's comment and no field of another register.
SubRegisterWriteIsolated ==
    [][lastOp'.op = "reg" =>
         \A f \in Fields(wd) :
            IF Group(wd, f) = lastOp'.reg
            THEN Range(Get("LE", wd, f, u32')) = {lastOp'.val}
            ELSE Get("LE", wd, f, u32') = Get("LE", wd, f, u32)]_vars

=============================================================================
