--------------------------- MODULE RegisterRecord ---------------------------
(***************************************************************************)
(* What a register union of ctu_can_fd_regs.h promises its user, stated    *)
(* without bits: a register word is a record of named fields, each of a    *)
(* fixed width.  Assigning one field (reg.s.f = v) sets that field to v    *)
(* and leaves every other field as it was; assigning the whole word        *)
(* (reg.u32 = x, or a store to one of the packed registers) may change any *)
(* field.  The bit layout that realises this is CtuCanFdRegAccess; this    *)
(* module is the specification it is checked to implement.                *)
(***************************************************************************)
EXTENDS Naturals

CONSTANTS
    Words,      \* the unions a behaviour may access
    FieldWidth  \* FieldWidth[w][f]: the width of field f of union w

VARIABLES
    wd,         \* the union being accessed
    view,       \* its fields: view[f] is a bit vector, bit 0 least significant
    act         \* the last assignment made, as seen by the user

vars == <<wd, view, act>>

\* v is a value of field f: a bit vector of f's width.
IsValue(f, v) == v \in [0..FieldWidth[wd][f] - 1 -> {0, 1}]

\* A record of values for every field of the accessed union.
IsView(r) ==
    /\ DOMAIN r = DOMAIN FieldWidth[wd]
    /\ \A f \in DOMAIN r : IsValue(f, r[f])

Init ==
    /\ wd \in Words
    /\ IsView(view)
    /\ act = [op |-> "none"]

\* reg.s.f = v: field f takes the assigned value v, reported in act, and
\* no other field changes.
AssignField ==
    \E f \in DOMAIN FieldWidth[wd] :
        /\ act'.op = "field"
        /\ act' = [op |-> "field", field |-> f, val |-> act'.val]
        /\ IsValue(f, act'.val)
        /\ view' = [view EXCEPT ![f] = act'.val]
        /\ UNCHANGED wd

\* A whole-word or sub-register store: any record of field values.
AssignWord ==
    /\ IsView(view')
    /\ act' = [op |-> "word"]
    /\ UNCHANGED wd

Next == AssignField \/ AssignWord

Spec == Init /\ [][Next]_vars

=============================================================================
