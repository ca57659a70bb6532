--------------------------- MODULE LocationStore ---------------------------
(***************************************************************************)
(* What the register offset map of ctu_can_fd_regs.h promises a program   *)
(* that stores through it, stated without addresses: the register file is *)
(* a set of independent locations (the registers, and the data words of   *)
(* the TXT buffers).  A store to one location gives it the stored value   *)
(* and leaves every other location as it was; a store of a whole union    *)
(* word gives every register that union packs the stored value.  The      *)
(* byte addresses that realise this are CtuCanFdAddrMap.                   *)
(***************************************************************************)
CONSTANTS
    Locations,  \* the independently storable places of the register file
    Groups,     \* the sets of locations one union word store writes
    Values,     \* the values a store may write
    Blank       \* the value every location holds before any store

ASSUME Blank \notin Values

VARIABLES
    val,        \* val[l]: the set of values the bytes of location l hold
    last        \* the last store, as [at: locations written, val: value]

vars == <<val, last>>

\* A store may name one location, or the registers of one union word.
Targets == {{l} : l \in Locations} \cup Groups

Init ==
    /\ val = [l \in Locations |-> {Blank}]
    /\ last = [at |-> {}, val |-> Blank]

\* A store of v to the locations last'.at: each of them holds v alone
\* afterwards, every other location is untouched.
Assign ==
    /\ last' \in [at : Targets, val : Values]
    /\ val' = [l \in Locations |-> IF l \in last'.at THEN {last'.val} ELSE val[l]]

Spec == Init /\ [][Assign]_vars

=============================================================================
