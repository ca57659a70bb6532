------------------------ MODULE MC_CtuCanFdAddrMap ------------------------
(* Model values for CtuCanFdAddrMap. *)
EXTENDS CtuCanFdAddrMap

\* Every union but the one packing MODE, COMMAND, STATUS and SETTINGS,
\* whose MODE group runs one bit into COMMAND's byte (the finding of
\* mode_command_overlap).
MCWords == DOMAIN Layouts \ {"mode_command_status_settings"}

\* That union alone.
MCModeWord == {"mode_command_status_settings"}

\* All four TXT buffers.
MCBuffers == {"TXTB1_DATA_1", "TXTB2_DATA_1", "TXTB3_DATA_1", "TXTB4_DATA_1"}

\* One nonzero byte: from the blank register file a single store already
\* shows every byte it writes, its own or a neighbour's.
MCValues == {1}

\* Two stores: enough for one to land on the bytes of another.
MCMaxStores == 2
=============================================================================
