----------------------- MODULE MC_CtuCanFdRegAccess -----------------------
(* Model values for CtuCanFdRegAccess. *)
EXTENDS CtuCanFdRegAccess

\* Every union of the header.
MCAllWords == DOMAIN Layouts

\* The union packing MODE, COMMAND, STATUS and SETTINGS, alone.
MCModeWord == {"mode_command_status_settings"}

\* Every other union.
MCOtherWords == DOMAIN Layouts \ MCModeWord

\* The unions holding a field some enum names.
MCEnumWords == {e[1] : e \in FieldEnums}

\* Two assignments: enough for one to be made over the other's result.
MCMaxWrites == 2
=============================================================================
