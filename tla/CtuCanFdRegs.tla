---------------------------- MODULE CtuCanFdRegs ----------------------------
(***************************************************************************)
(* The register map of the CTU CAN FD IP core, src/driver/ctu_can_fd_regs.h.*)
(*                                                                         *)
(* ctu_can_fd_can_registers gives the byte offset of every register.       *)
(* Every union ctu_can_fd_<u> is the definition <u>: `le` is the struct as *)
(* declared under __LITTLE_ENDIAN_BITFIELD, as a sequence of register      *)
(* groups (the /* REG */ comments) each holding its <<field, width>> pairs *)
(* in declaration order; `be` is the #else branch.  A union without the    *)
(* #ifdef declares one struct for both builds (Plain).  Every enum giving   *)
(* the meaning of a field is the set of its <<name, value>> pairs.         *)
(***************************************************************************)
EXTENDS Naturals, Sequences

\* A union whose struct is declared twice, once per bitfield order.
Union(le, be) == [le |-> le, be |-> be]

\* A union without #ifdef: the single declaration serves both builds.
Plain(le) ==
    [le |-> le,
     be |-> [i \in 1..Len(le[1][2]) |-> le[1][2][i]]]

-----------------------------------------------------------------------------
(* Faulty variants of some unions below, each a plausible error of the     *)
(* register generator; the properties of CtuCanFdRegAccess are confirmed   *)
(* to detect each of them.                                                  *)

\* btr_fd with ph1_fd and ph2_fd exchanged in the #else branch only.
btr_fd_be_swapped == Union(
    << <<"BTR_FD", << <<"prop_fd", 6>>, <<"reserved_6", 1>>, <<"ph1_fd", 5>>,
          <<"reserved_12", 1>>, <<"ph2_fd", 5>>, <<"reserved_18", 1>>,
          <<"brp_fd", 8>>, <<"sjw_fd", 5>> >> >> >>,
    << <<"sjw_fd", 5>>, <<"brp_fd", 8>>, <<"reserved_18", 1>>, <<"ph1_fd", 5>>,
       <<"reserved_12", 1>>, <<"ph2_fd", 5>>, <<"reserved_6", 1>>,
       <<"prop_fd", 6>> >>)

\* int_stat with its reserved padding one bit short in both branches.
int_stat_short_reserved == Union(
    << <<"INT_STAT", << <<"rxi", 1>>, <<"txi", 1>>, <<"ewli", 1>>, <<"doi", 1>>,
          <<"epi", 1>>, <<"ali", 1>>, <<"bei", 1>>, <<"lfi", 1>>,
          <<"rxfi", 1>>, <<"bsi", 1>>, <<"rbnei", 1>>, <<"txbhci", 1>>,
          <<"reserved_31_12", 19>> >> >> >>,
    << <<"reserved_31_12", 19>>, <<"txbhci", 1>>, <<"rbnei", 1>>, <<"bsi", 1>>,
       <<"rxfi", 1>>, <<"lfi", 1>>, <<"bei", 1>>, <<"ali", 1>>, <<"epi", 1>>,
       <<"doi", 1>>, <<"ewli", 1>>, <<"txi", 1>>, <<"rxi", 1>> >>)

\* tx_status with a 3-bit tx1s (padding widened to keep 32 bits).
tx_status_narrow_tx1s == Union(
    << <<"TX_STATUS", << <<"tx1s", 3>>, <<"tx2s", 4>>, <<"tx3s", 4>>, <<"tx4s", 4>>,
          <<"reserved_31_16", 17>> >> >> >>,
    << <<"reserved_31_16", 17>>, <<"tx4s", 4>>, <<"tx3s", 4>>, <<"tx2s", 4>>,
       <<"tx1s", 3>> >>)

\* ewl_erp_fault_state with ew_limit one bit wider and erp_limit narrower.
ewl_erp_fault_state_wide_ewl == Union(
    << <<"EWL", << <<"ew_limit", 9>> >> >>,
       <<"ERP", << <<"erp_limit", 7>> >> >>,
       <<"FAULT_STATE", << <<"era", 1>>, <<"erp", 1>>, <<"bof", 1>>,
          <<"reserved_31_19", 13>> >> >> >>,
    << <<"reserved_31_19", 13>>, <<"bof", 1>>, <<"erp", 1>>, <<"era", 1>>,
       <<"erp_limit", 7>>, <<"ew_limit", 9>> >>)
-----------------------------------------------------------------------------

\* enum ctu_can_fd_can_registers
can_registers ==
    [ DEVICE_ID |-> \h0, VERSION |-> \h2, MODE |-> \h4, COMMAND |-> \h5,
      STATUS |-> \h6, SETTINGS |-> \h7, INT_STAT |-> \h8,
      INT_ENA_SET |-> \hc, INT_ENA_CLR |-> \h10, INT_MASK_SET |-> \h14,
      INT_MASK_CLR |-> \h18, BTR |-> \h1c, BTR_FD |-> \h20, EWL |-> \h24,
      ERP |-> \h25, FAULT_STATE |-> \h26, RXC |-> \h28, TXC |-> \h2a,
      ERR_NORM |-> \h2c, ERR_FD |-> \h2e, CTR_PRES |-> \h30,
      FILTER_A_MASK |-> \h34, FILTER_A_VAL |-> \h38, FILTER_B_MASK |-> \h3c,
      FILTER_B_VAL |-> \h40, FILTER_C_MASK |-> \h44, FILTER_C_VAL |-> \h48,
      FILTER_RAN_LOW |-> \h4c, FILTER_RAN_HIGH |-> \h50,
      FILTER_CONTROL |-> \h54, FILTER_STATUS |-> \h56, RX_MEM_INFO |-> \h58,
      RX_POINTERS |-> \h5c, RX_STATUS |-> \h60, RX_SETTINGS |-> \h62,
      RX_DATA |-> \h64, TX_STATUS |-> \h68, TX_COMMAND |-> \h6c,
      TX_PRIORITY |-> \h70, ERR_CAPT |-> \h74, ALC |-> \h75,
      TRV_DELAY |-> \h78, SSP_CFG |-> \h7a, RX_COUNTER |-> \h7c,
      TX_COUNTER |-> \h80, DEBUG_REGISTER |-> \h84, YOLO_REG |-> \h88,
      TIMESTAMP_LOW |-> \h8c, TIMESTAMP_HIGH |-> \h90,
      TXTB1_DATA_1 |-> \h100, TXTB1_DATA_2 |-> \h104,
      TXTB1_DATA_20 |-> \h14c, TXTB2_DATA_1 |-> \h200,
      TXTB2_DATA_2 |-> \h204, TXTB2_DATA_20 |-> \h24c,
      TXTB3_DATA_1 |-> \h300, TXTB3_DATA_2 |-> \h304,
      TXTB3_DATA_20 |-> \h34c, TXTB4_DATA_1 |-> \h400,
      TXTB4_DATA_2 |-> \h404, TXTB4_DATA_20 |-> \h44c,
      LOG_TRIG_CONFIG |-> \h500, LOG_CAPT_CONFIG |-> \h504,
      LOG_STATUS |-> \h508, LOG_POINTERS |-> \h50a, LOG_COMMAND |-> \h50c,
      LOG_CAPT_EVENT_1 |-> \h510, LOG_CAPT_EVENT_2 |-> \h514 ]

\* union ctu_can_fd_device_id_version
device_id_version == Union(
    << <<"DEVICE_ID", << <<"device_id", 16>> >> >>,
       <<"VERSION", << <<"ver_minor", 8>>, <<"ver_major", 8>> >> >> >>,
    << <<"ver_major", 8>>, <<"ver_minor", 8>>, <<"device_id", 16>> >>)

\* union ctu_can_fd_mode_command_status_settings
mode_command_status_settings == Union(
    << <<"MODE", << <<"rst", 1>>, <<"lom", 1>>, <<"stm", 1>>, <<"afm", 1>>,
          <<"fde", 1>>, <<"rtrp", 1>>, <<"tsm", 1>>, <<"acf", 1>>,
          <<"reserved_8", 1>> >> >>,
       <<"COMMAND", << <<"abt", 1>>, <<"rrb", 1>>, <<"cdo", 1>>, <<"ercrst", 1>>,
          <<"rxfcrst", 1>>, <<"txfcrst", 1>>, <<"reserved_15", 1>> >> >>,
       <<"STATUS", << <<"rxne", 1>>, <<"dor", 1>>, <<"txnf", 1>>, <<"eft", 1>>,
          <<"rxs", 1>>, <<"txs", 1>>, <<"ewl", 1>>, <<"idle", 1>> >> >>,
       <<"SETTINGS", << <<"rtrle", 1>>, <<"rtrth", 4>>, <<"ilbp", 1>>, <<"ena", 1>>,
          <<"nisofd", 1>> >> >> >>,
    << <<"nisofd", 1>>, <<"ena", 1>>, <<"ilbp", 1>>, <<"rtrth", 4>>,
       <<"rtrle", 1>>, <<"idle", 1>>, <<"ewl", 1>>, <<"txs", 1>>,
       <<"rxs", 1>>, <<"eft", 1>>, <<"txnf", 1>>, <<"dor", 1>>,
       <<"rxne", 1>>, <<"reserved_15", 1>>, <<"txfcrst", 1>>,
       <<"rxfcrst", 1>>, <<"ercrst", 1>>, <<"cdo", 1>>, <<"rrb", 1>>,
       <<"abt", 1>>, <<"reserved_8", 1>>, <<"acf", 1>>, <<"tsm", 1>>,
       <<"rtrp", 1>>, <<"fde", 1>>, <<"afm", 1>>, <<"stm", 1>>,
       <<"lom", 1>>, <<"rst", 1>> >>)

\* union ctu_can_fd_int_stat
int_stat == Union(
    << <<"INT_STAT", << <<"rxi", 1>>, <<"txi", 1>>, <<"ewli", 1>>, <<"doi", 1>>,
          <<"epi", 1>>, <<"ali", 1>>, <<"bei", 1>>, <<"lfi", 1>>,
          <<"rxfi", 1>>, <<"bsi", 1>>, <<"rbnei", 1>>, <<"txbhci", 1>>,
          <<"reserved_31_12", 20>> >> >> >>,
    << <<"reserved_31_12", 20>>, <<"txbhci", 1>>, <<"rbnei", 1>>,
       <<"bsi", 1>>, <<"rxfi", 1>>, <<"lfi", 1>>, <<"bei", 1>>,
       <<"ali", 1>>, <<"epi", 1>>, <<"doi", 1>>, <<"ewli", 1>>,
       <<"txi", 1>>, <<"rxi", 1>> >>)

\* union ctu_can_fd_int_ena_set
int_ena_set == Union(
    << <<"INT_ENA_SET", << <<"int_ena_set", 12>>, <<"reserved_31_12", 20>> >> >> >>,
    << <<"reserved_31_12", 20>>, <<"int_ena_set", 12>> >>)

\* union ctu_can_fd_int_ena_clr
int_ena_clr == Union(
    << <<"INT_ENA_CLR", << <<"int_ena_clr", 12>>, <<"reserved_31_12", 20>> >> >> >>,
    << <<"reserved_31_12", 20>>, <<"int_ena_clr", 12>> >>)

\* union ctu_can_fd_int_mask_set
int_mask_set == Union(
    << <<"INT_MASK_SET", << <<"int_mask_set", 12>>, <<"reserved_31_12", 20>> >> >> >>,
    << <<"reserved_31_12", 20>>, <<"int_mask_set", 12>> >>)

\* union ctu_can_fd_int_mask_clr
int_mask_clr == Union(
    << <<"INT_MASK_CLR", << <<"int_mask_clr", 12>>, <<"reserved_31_12", 20>> >> >> >>,
    << <<"reserved_31_12", 20>>, <<"int_mask_clr", 12>> >>)

\* union ctu_can_fd_btr
btr == Union(
    << <<"BTR", << <<"prop", 7>>, <<"ph1", 6>>, <<"ph2", 6>>, <<"brp", 8>>,
          <<"sjw", 5>> >> >> >>,
    << <<"sjw", 5>>, <<"brp", 8>>, <<"ph2", 6>>, <<"ph1", 6>>,
       <<"prop", 7>> >>)

\* union ctu_can_fd_btr_fd
btr_fd == Union(
    << <<"BTR_FD", << <<"prop_fd", 6>>, <<"reserved_6", 1>>, <<"ph1_fd", 5>>,
          <<"reserved_12", 1>>, <<"ph2_fd", 5>>, <<"reserved_18", 1>>,
          <<"brp_fd", 8>>, <<"sjw_fd", 5>> >> >> >>,
    << <<"sjw_fd", 5>>, <<"brp_fd", 8>>, <<"reserved_18", 1>>,
       <<"ph2_fd", 5>>, <<"reserved_12", 1>>, <<"ph1_fd", 5>>,
       <<"reserved_6", 1>>, <<"prop_fd", 6>> >>)

\* union ctu_can_fd_ewl_erp_fault_state
ewl_erp_fault_state == Union(
    << <<"EWL", << <<"ew_limit", 8>> >> >>,
       <<"ERP", << <<"erp_limit", 8>> >> >>,
       <<"FAULT_STATE", << <<"era", 1>>, <<"erp", 1>>, <<"bof", 1>>, <<"reserved_31_19", 13>> >> >> >>,
    << <<"reserved_31_19", 13>>, <<"bof", 1>>, <<"erp", 1>>, <<"era", 1>>,
       <<"erp_limit", 8>>, <<"ew_limit", 8>> >>)

\* union ctu_can_fd_rxc_txc
rxc_txc == Union(
    << <<"RXC", << <<"rxc_val", 16>> >> >>,
       <<"TXC", << <<"txc_val", 16>> >> >> >>,
    << <<"txc_val", 16>>, <<"rxc_val", 16>> >>)

\* union ctu_can_fd_err_norm_err_fd
err_norm_err_fd == Union(
    << <<"ERR_NORM", << <<"err_norm_val", 16>> >> >>,
       <<"ERR_FD", << <<"err_fd_val", 16>> >> >> >>,
    << <<"err_fd_val", 16>>, <<"err_norm_val", 16>> >>)

\* union ctu_can_fd_ctr_pres
ctr_pres == Union(
    << <<"CTR_PRES", << <<"ctpv", 9>>, <<"ptx", 1>>, <<"prx", 1>>, <<"enorm", 1>>,
          <<"efd", 1>>, <<"reserved_31_13", 19>> >> >> >>,
    << <<"reserved_31_13", 19>>, <<"efd", 1>>, <<"enorm", 1>>,
       <<"prx", 1>>, <<"ptx", 1>>, <<"ctpv", 9>> >>)

\* union ctu_can_fd_filter_a_mask
filter_a_mask == Union(
    << <<"FILTER_A_MASK", << <<"bit_mask_a_val", 29>>, <<"reserved_31_29", 3>> >> >> >>,
    << <<"reserved_31_29", 3>>, <<"bit_mask_a_val", 29>> >>)

\* union ctu_can_fd_filter_a_val
filter_a_val == Union(
    << <<"FILTER_A_VAL", << <<"bit_val_a_val", 29>>, <<"reserved_31_29", 3>> >> >> >>,
    << <<"reserved_31_29", 3>>, <<"bit_val_a_val", 29>> >>)

\* union ctu_can_fd_filter_b_mask
filter_b_mask == Union(
    << <<"FILTER_B_MASK", << <<"bit_mask_b_val", 29>>, <<"reserved_31_29", 3>> >> >> >>,
    << <<"reserved_31_29", 3>>, <<"bit_mask_b_val", 29>> >>)

\* union ctu_can_fd_filter_b_val
filter_b_val == Union(
    << <<"FILTER_B_VAL", << <<"bit_val_b_val", 29>>, <<"reserved_31_29", 3>> >> >> >>,
    << <<"reserved_31_29", 3>>, <<"bit_val_b_val", 29>> >>)

\* union ctu_can_fd_filter_c_mask
filter_c_mask == Union(
    << <<"FILTER_C_MASK", << <<"bit_mask_c_val", 29>>, <<"reserved_31_29", 3>> >> >> >>,
    << <<"reserved_31_29", 3>>, <<"bit_mask_c_val", 29>> >>)

\* union ctu_can_fd_filter_c_val
filter_c_val == Union(
    << <<"FILTER_C_VAL", << <<"bit_val_c_val", 29>>, <<"reserved_31_29", 3>> >> >> >>,
    << <<"reserved_31_29", 3>>, <<"bit_val_c_val", 29>> >>)

\* union ctu_can_fd_filter_ran_low
filter_ran_low == Union(
    << <<"FILTER_RAN_LOW", << <<"bit_ran_low_val", 29>>, <<"reserved_31_29", 3>> >> >> >>,
    << <<"reserved_31_29", 3>>, <<"bit_ran_low_val", 29>> >>)

\* union ctu_can_fd_filter_ran_high
filter_ran_high == Union(
    << <<"FILTER_RAN_HIGH", << <<"bit_ran_high_val", 29>>, <<"reserved_31_29", 3>> >> >> >>,
    << <<"reserved_31_29", 3>>, <<"bit_ran_high_val", 29>> >>)

\* union ctu_can_fd_filter_control_filter_status
filter_control_filter_status == Union(
    << <<"FILTER_CONTROL", << <<"fanb", 1>>, <<"fane", 1>>, <<"fafb", 1>>, <<"fafe", 1>>,
          <<"fbnb", 1>>, <<"fbne", 1>>, <<"fbfb", 1>>, <<"fbfe", 1>>,
          <<"fcnb", 1>>, <<"fcne", 1>>, <<"fcfb", 1>>, <<"fcfe", 1>>,
          <<"frnb", 1>>, <<"frne", 1>>, <<"frfb", 1>>, <<"frfe", 1>> >> >>,
       <<"FILTER_STATUS", << <<"sfa", 1>>, <<"sfb", 1>>, <<"sfc", 1>>, <<"sfr", 1>>,
          <<"reserved_31_20", 12>> >> >> >>,
    << <<"reserved_31_20", 12>>, <<"sfr", 1>>, <<"sfc", 1>>, <<"sfb", 1>>,
       <<"sfa", 1>>, <<"frfe", 1>>, <<"frfb", 1>>, <<"frne", 1>>,
       <<"frnb", 1>>, <<"fcfe", 1>>, <<"fcfb", 1>>, <<"fcne", 1>>,
       <<"fcnb", 1>>, <<"fbfe", 1>>, <<"fbfb", 1>>, <<"fbne", 1>>,
       <<"fbnb", 1>>, <<"fafe", 1>>, <<"fafb", 1>>, <<"fane", 1>>,
       <<"fanb", 1>> >>)

\* union ctu_can_fd_rx_mem_info
rx_mem_info == Union(
    << <<"RX_MEM_INFO", << <<"rx_buff_size", 13>>, <<"reserved_15_13", 3>>,
          <<"rx_mem_free", 13>>, <<"reserved_31_29", 3>> >> >> >>,
    << <<"reserved_31_29", 3>>, <<"rx_mem_free", 13>>,
       <<"reserved_15_13", 3>>, <<"rx_buff_size", 13>> >>)

\* union ctu_can_fd_rx_pointers
rx_pointers == Union(
    << <<"RX_POINTERS", << <<"rx_wpp", 12>>, <<"reserved_15_12", 4>>, <<"rx_rpp", 12>>,
          <<"reserved_31_28", 4>> >> >> >>,
    << <<"reserved_31_28", 4>>, <<"rx_rpp", 12>>, <<"reserved_15_12", 4>>,
       <<"rx_wpp", 12>> >>)

\* union ctu_can_fd_rx_status_rx_settings
rx_status_rx_settings == Union(
    << <<"RX_STATUS", << <<"rxe", 1>>, <<"rxf", 1>>, <<"reserved_3_2", 2>>, <<"rxfrc", 11>>,
          <<"reserved_15", 1>> >> >>,
       <<"RX_SETTINGS", << <<"rtsop", 1>>, <<"reserved_31_17", 15>> >> >> >>,
    << <<"reserved_31_17", 15>>, <<"rtsop", 1>>, <<"reserved_15", 1>>,
       <<"rxfrc", 11>>, <<"reserved_3_2", 2>>, <<"rxf", 1>>, <<"rxe", 1>> >>)

\* union ctu_can_fd_rx_data
rx_data == Plain(<< <<"RX_DATA", << <<"rx_data", 32>> >> >> >>)

\* union ctu_can_fd_tx_status
tx_status == Union(
    << <<"TX_STATUS", << <<"tx1s", 4>>, <<"tx2s", 4>>, <<"tx3s", 4>>, <<"tx4s", 4>>,
          <<"reserved_31_16", 16>> >> >> >>,
    << <<"reserved_31_16", 16>>, <<"tx4s", 4>>, <<"tx3s", 4>>,
       <<"tx2s", 4>>, <<"tx1s", 4>> >>)

\* union ctu_can_fd_tx_command
tx_command == Union(
    << <<"TX_COMMAND", << <<"txce", 1>>, <<"txcr", 1>>, <<"txca", 1>>, <<"reserved_7_3", 5>>,
          <<"txb1", 1>>, <<"txb2", 1>>, <<"txb3", 1>>, <<"txb4", 1>>,
          <<"reserved_31_12", 20>> >> >> >>,
    << <<"reserved_31_12", 20>>, <<"txb4", 1>>, <<"txb3", 1>>,
       <<"txb2", 1>>, <<"txb1", 1>>, <<"reserved_7_3", 5>>, <<"txca", 1>>,
       <<"txcr", 1>>, <<"txce", 1>> >>)

\* union ctu_can_fd_tx_priority
tx_priority == Union(
    << <<"TX_PRIORITY", << <<"txt1p", 3>>, <<"reserved_3", 1>>, <<"txt2p", 3>>,
          <<"reserved_7", 1>>, <<"txt3p", 3>>, <<"reserved_11", 1>>,
          <<"txt4p", 3>>, <<"reserved_31_15", 17>> >> >> >>,
    << <<"reserved_31_15", 17>>, <<"txt4p", 3>>, <<"reserved_11", 1>>,
       <<"txt3p", 3>>, <<"reserved_7", 1>>, <<"txt2p", 3>>,
       <<"reserved_3", 1>>, <<"txt1p", 3>> >>)

\* union ctu_can_fd_err_capt_alc
err_capt_alc == Union(
    << <<"ERR_CAPT", << <<"err_pos", 5>>, <<"err_type", 3>> >> >>,
       <<"ALC", << <<"alc_bit", 5>>, <<"alc_id_field", 3>>, <<"reserved_31_16", 16>> >> >> >>,
    << <<"reserved_31_16", 16>>, <<"alc_id_field", 3>>, <<"alc_bit", 5>>,
       <<"err_type", 3>>, <<"err_pos", 5>> >>)

\* union ctu_can_fd_trv_delay_ssp_cfg
trv_delay_ssp_cfg == Union(
    << <<"TRV_DELAY", << <<"trv_delay_value", 16>> >> >>,
       <<"SSP_CFG", << <<"ssp_offset", 7>>, <<"reserved_23", 1>>, <<"ssp_src", 2>>,
          <<"reserved_31_26", 6>> >> >> >>,
    << <<"reserved_31_26", 6>>, <<"ssp_src", 2>>, <<"reserved_23", 1>>,
       <<"ssp_offset", 7>>, <<"trv_delay_value", 16>> >>)

\* union ctu_can_fd_rx_counter
rx_counter == Plain(<< <<"RX_COUNTER", << <<"rx_counter_val", 32>> >> >> >>)

\* union ctu_can_fd_tx_counter
tx_counter == Plain(<< <<"TX_COUNTER", << <<"tx_counter_val", 32>> >> >> >>)

\* union ctu_can_fd_debug_register
debug_register == Union(
    << <<"DEBUG_REGISTER", << <<"stuff_count", 3>>, <<"destuff_count", 3>>, <<"pc_arb", 1>>,
          <<"pc_con", 1>>, <<"pc_dat", 1>>, <<"pc_crc", 1>>, <<"pc_eof", 1>>,
          <<"pc_ovr", 1>>, <<"pc_int", 1>>, <<"reserved_31_13", 19>> >> >> >>,
    << <<"reserved_31_13", 19>>, <<"pc_int", 1>>, <<"pc_ovr", 1>>,
       <<"pc_eof", 1>>, <<"pc_crc", 1>>, <<"pc_dat", 1>>, <<"pc_con", 1>>,
       <<"pc_arb", 1>>, <<"destuff_count", 3>>, <<"stuff_count", 3>> >>)

\* union ctu_can_fd_yolo_reg
yolo_reg == Plain(<< <<"YOLO_REG", << <<"yolo_val", 32>> >> >> >>)

\* union ctu_can_fd_timestamp_low
timestamp_low == Plain(<< <<"TIMESTAMP_LOW", << <<"timestamp_low", 32>> >> >> >>)

\* union ctu_can_fd_timestamp_high
timestamp_high == Plain(<< <<"TIMESTAMP_HIGH", << <<"timestamp_high", 32>> >> >> >>)

\* union ctu_can_fd_log_trig_config
log_trig_config == Union(
    << <<"LOG_TRIG_CONFIG", << <<"t_sof", 1>>, <<"t_arbl", 1>>, <<"t_rev", 1>>, <<"t_trv", 1>>,
          <<"t_ovl", 1>>, <<"t_err", 1>>, <<"t_brs", 1>>, <<"t_usrw", 1>>,
          <<"t_arbs", 1>>, <<"t_ctrs", 1>>, <<"t_dats", 1>>, <<"t_crcs", 1>>,
          <<"t_ackr", 1>>, <<"t_acknr", 1>>, <<"t_ewlr", 1>>,
          <<"t_erpc", 1>>, <<"t_trs", 1>>, <<"t_res", 1>>,
          <<"reserved_31_18", 14>> >> >> >>,
    << <<"reserved_31_18", 14>>, <<"t_res", 1>>, <<"t_trs", 1>>,
       <<"t_erpc", 1>>, <<"t_ewlr", 1>>, <<"t_acknr", 1>>,
       <<"t_ackr", 1>>, <<"t_crcs", 1>>, <<"t_dats", 1>>, <<"t_ctrs", 1>>,
       <<"t_arbs", 1>>, <<"t_usrw", 1>>, <<"t_brs", 1>>, <<"t_err", 1>>,
       <<"t_ovl", 1>>, <<"t_trv", 1>>, <<"t_rev", 1>>, <<"t_arbl", 1>>,
       <<"t_sof", 1>> >>)

\* union ctu_can_fd_log_capt_config
log_capt_config == Union(
    << <<"LOG_CAPT_CONFIG", << <<"c_sof", 1>>, <<"c_arbl", 1>>, <<"c_rev", 1>>, <<"c_trv", 1>>,
          <<"c_ovl", 1>>, <<"c_err", 1>>, <<"c_brs", 1>>, <<"c_arbs", 1>>,
          <<"c_ctrs", 1>>, <<"c_dats", 1>>, <<"c_crcs", 1>>, <<"c_ackr", 1>>,
          <<"c_acknr", 1>>, <<"c_ewlr", 1>>, <<"c_erc", 1>>, <<"c_trs", 1>>,
          <<"c_res", 1>>, <<"c_syne", 1>>, <<"c_stuff", 1>>,
          <<"c_destuff", 1>>, <<"c_ovr", 1>>, <<"reserved_31_21", 11>> >> >> >>,
    << <<"reserved_31_21", 11>>, <<"c_ovr", 1>>, <<"c_destuff", 1>>,
       <<"c_stuff", 1>>, <<"c_syne", 1>>, <<"c_res", 1>>, <<"c_trs", 1>>,
       <<"c_erc", 1>>, <<"c_ewlr", 1>>, <<"c_acknr", 1>>, <<"c_ackr", 1>>,
       <<"c_crcs", 1>>, <<"c_dats", 1>>, <<"c_ctrs", 1>>, <<"c_arbs", 1>>,
       <<"c_brs", 1>>, <<"c_err", 1>>, <<"c_ovl", 1>>, <<"c_trv", 1>>,
       <<"c_rev", 1>>, <<"c_arbl", 1>>, <<"c_sof", 1>> >>)

\* union ctu_can_fd_log_status_log_pointers
log_status_log_pointers == Union(
    << <<"LOG_STATUS", << <<"log_cfg", 1>>, <<"log_rdy", 1>>, <<"log_run", 1>>,
          <<"reserved_6_3", 4>>, <<"log_exist", 1>>, <<"log_size", 8>> >> >>,
       <<"LOG_POINTERS", << <<"log_wpp", 8>>, <<"log_rpp", 8>> >> >> >>,
    << <<"log_rpp", 8>>, <<"log_wpp", 8>>, <<"log_size", 8>>,
       <<"log_exist", 1>>, <<"reserved_6_3", 4>>, <<"log_run", 1>>,
       <<"log_rdy", 1>>, <<"log_cfg", 1>> >>)

\* union ctu_can_fd_log_command
log_command == Union(
    << <<"LOG_COMMAND", << <<"log_str", 1>>, <<"log_abt", 1>>, <<"log_up", 1>>,
          <<"log_down", 1>>, <<"reserved_31_4", 28>> >> >> >>,
    << <<"reserved_31_4", 28>>, <<"log_down", 1>>, <<"log_up", 1>>,
       <<"log_abt", 1>>, <<"log_str", 1>> >>)

\* union ctu_can_fd_log_capt_event_1
log_capt_event_1 == Plain(<< <<"LOG_CAPT_EVENT_1", << <<"event_ts_48_16", 32>> >> >> >>)

\* union ctu_can_fd_log_capt_event_2
log_capt_event_2 == Union(
    << <<"LOG_CAPT_EVENT_2", << <<"evnt_type", 5>>, <<"evnt_den", 3>>, <<"evnt_det", 5>>,
          <<"evnt_dea", 3>>, <<"event_ts_15_0", 16>> >> >> >>,
    << <<"event_ts_15_0", 16>>, <<"evnt_dea", 3>>, <<"evnt_det", 5>>,
       <<"evnt_den", 3>>, <<"evnt_type", 5>> >>)

\* enum ctu_can_fd_device_id_device_id
device_id_device_id ==
    { <<"CTU_CAN_FD_ID", \hcafd>> }

\* enum ctu_can_fd_mode_lom
mode_lom ==
    { <<"LOM_DISABLED", \h0>>, <<"LOM_ENABLED", \h1>> }

\* enum ctu_can_fd_mode_stm
mode_stm ==
    { <<"STM_DISABLED", \h0>>, <<"STM_ENABLED", \h1>> }

\* enum ctu_can_fd_mode_afm
mode_afm ==
    { <<"AFM_DISABLED", \h0>>, <<"AFM_ENABLED", \h1>> }

\* enum ctu_can_fd_mode_fde
mode_fde ==
    { <<"FDE_DISABLE", \h0>>, <<"FDE_ENABLE", \h1>> }

\* enum ctu_can_fd_mode_rtrp
mode_rtrp ==
    { <<"RTR_EXTRA", \h0>>, <<"RTR_STANDARD", \h1>> }

\* enum ctu_can_fd_mode_tsm
mode_tsm ==
    { <<"TSM_DISABLE", \h0>>, <<"TSM_ENABLE", \h1>> }

\* enum ctu_can_fd_mode_acf
mode_acf ==
    { <<"ACF_DISABLED", \h0>>, <<"ACF_ENABLED", \h1>> }

\* enum ctu_can_fd_settings_rtrle
settings_rtrle ==
    { <<"RTRLE_DISABLED", \h0>>, <<"RTRLE_ENABLED", \h1>> }

\* enum ctu_can_fd_settings_ilbp
settings_ilbp ==
    { <<"INT_LOOP_DISABLED", \h0>>, <<"INT_LOOP_ENABLED", \h1>> }

\* enum ctu_can_fd_settings_ena
settings_ena ==
    { <<"DISABLED", \h0>>, <<"ENABLED", \h1>> }

\* enum ctu_can_fd_settings_nisofd
settings_nisofd ==
    { <<"ISO_FD", \h0>>, <<"NON_ISO_FD", \h1>> }

\* enum ctu_can_fd_rx_settings_rtsop
rx_settings_rtsop ==
    { <<"RTS_END", \h0>>, <<"RTS_BEG", \h1>> }

\* enum ctu_can_fd_tx_status_tx1s
tx_status_tx1s ==
    { <<"TXT_RDY", \h1>>, <<"TXT_TRAN", \h2>>, <<"TXT_ABTP", \h3>>,
      <<"TXT_TOK", \h4>>, <<"TXT_ERR", \h6>>, <<"TXT_ABT", \h7>>,
      <<"TXT_ETY", \h8>> }

\* enum ctu_can_fd_err_capt_err_pos
err_capt_err_pos ==
    { <<"ERC_POS_SOF", \h0>>, <<"ERC_POS_ARB", \h1>>,
      <<"ERC_POS_CTRL", \h2>>, <<"ERC_POS_DATA", \h3>>,
      <<"ERC_POS_CRC", \h4>>, <<"ERC_POS_ACK", \h5>>,
      <<"ERC_POS_INTF", \h6>>, <<"ERC_POS_ERR", \h7>>,
      <<"ERC_POS_OVRL", \h8>>, <<"ERC_POS_OTHER", \h1f>> }

\* enum ctu_can_fd_err_capt_err_type
err_capt_err_type ==
    { <<"ERC_BIT_ERR", \h0>>, <<"ERC_CRC_ERR", \h1>>,
      <<"ERC_FRM_ERR", \h2>>, <<"ERC_ACK_ERR", \h3>>,
      <<"ERC_STUF_ERR", \h4>> }

\* enum ctu_can_fd_alc_alc_id_field
alc_alc_id_field ==
    { <<"ALC_BASE_ID", \h0>>, <<"ALC_SRR_RTR", \h1>>, <<"ALC_IDE", \h2>>,
      <<"ALC_EXTENSION", \h3>>, <<"ALC_RTR", \h4>> }

\* enum ctu_can_fd_ssp_cfg_ssp_src
ssp_cfg_ssp_src ==
    { <<"SSP_SRC_MEASURED", \h0>>, <<"SSP_SRC_MEAS_N_OFFSET", \h1>>,
      <<"SSP_SRC_OFFSET", \h2>> }

\* enum ctu_can_fd_log_capt_event_2_evnt_type
log_capt_event_2_evnt_type ==
    { <<"SOF_EVNT", \h1>>, <<"ARBL_EVNT", \h2>>, <<"FREC_EVNT", \h3>>,
      <<"TRANV_EVNT", \h4>>, <<"OVRL_EVNT", \h5>>, <<"ERR_EVNT", \h6>>,
      <<"BRS_EVNT", \h7>>, <<"ARBS_EVNT", \h8>>, <<"CONS_EVNT", \h9>>,
      <<"DATS_EVNT", \ha>>, <<"CRCS_EVNT", \hb>>, <<"ACKR_EVNT", \hc>>,
      <<"ACKN_EVNT", \hd>>, <<"EWLR_EVNT", \he>>, <<"FCSC_EVNT", \hf>>,
      <<"TS_EVNT", \h10>>, <<"RS_EVNT", \h11>>, <<"SE_EVNT", \h12>>,
      <<"STF_EVNT", \h13>>, <<"DSTF_EVNT", \h14>>, <<"DOR_EVNT", \h15>> }

\* enum ctu_can_fd_log_capt_event_2_evnt_det
log_capt_event_2_evnt_det ==
    { <<"ISN_FDSTF", \h0>>, <<"ISN_FSTF", \h0>>, <<"BIT_ERR", \h1>>,
      <<"S_UP", \h1>>, <<"IS_SYNC", \h1>>, <<"IS_FDSTF", \h1>>,
      <<"IS_FSTF", \h1>>, <<"ST_ERR", \h2>>, <<"S_DOWN", \h2>>,
      <<"IS_PROP", \h2>>, <<"CRC_ERR", \h4>>, <<"IS_PH1", \h4>>,
      <<"ACK_ERR", \h8>>, <<"IS_PH2", \h8>>, <<"FRM_ERR", \h10>> }

\* enum ctu_can_fd_log_capt_event_2_evnt_dea
log_capt_event_2_evnt_dea ==
    { <<"NO_SNC", \h0>>, <<"HA_SNC", \h1>>, <<"RE_SNC", \h2>> }

\* Every union of the header, by name.
Layouts ==
    [ device_id_version |-> device_id_version,
      mode_command_status_settings |-> mode_command_status_settings,
      int_stat |-> int_stat,
      int_ena_set |-> int_ena_set,
      int_ena_clr |-> int_ena_clr,
      int_mask_set |-> int_mask_set,
      int_mask_clr |-> int_mask_clr,
      btr |-> btr,
      btr_fd |-> btr_fd,
      ewl_erp_fault_state |-> ewl_erp_fault_state,
      rxc_txc |-> rxc_txc,
      err_norm_err_fd |-> err_norm_err_fd,
      ctr_pres |-> ctr_pres,
      filter_a_mask |-> filter_a_mask,
      filter_a_val |-> filter_a_val,
      filter_b_mask |-> filter_b_mask,
      filter_b_val |-> filter_b_val,
      filter_c_mask |-> filter_c_mask,
      filter_c_val |-> filter_c_val,
      filter_ran_low |-> filter_ran_low,
      filter_ran_high |-> filter_ran_high,
      filter_control_filter_status |-> filter_control_filter_status,
      rx_mem_info |-> rx_mem_info,
      rx_pointers |-> rx_pointers,
      rx_status_rx_settings |-> rx_status_rx_settings,
      rx_data |-> rx_data,
      tx_status |-> tx_status,
      tx_command |-> tx_command,
      tx_priority |-> tx_priority,
      err_capt_alc |-> err_capt_alc,
      trv_delay_ssp_cfg |-> trv_delay_ssp_cfg,
      rx_counter |-> rx_counter,
      tx_counter |-> tx_counter,
      debug_register |-> debug_register,
      yolo_reg |-> yolo_reg,
      timestamp_low |-> timestamp_low,
      timestamp_high |-> timestamp_high,
      log_trig_config |-> log_trig_config,
      log_capt_config |-> log_capt_config,
      log_status_log_pointers |-> log_status_log_pointers,
      log_command |-> log_command,
      log_capt_event_1 |-> log_capt_event_1,
      log_capt_event_2 |-> log_capt_event_2 ]

\* Every field-value enum, as <<union, field, enum>>: the enum
\* ctu_can_fd_<reg>_<field> names the field it gives values to.
FieldEnums ==
    { <<"device_id_version", "device_id", device_id_device_id>>,
      <<"mode_command_status_settings", "lom", mode_lom>>,
      <<"mode_command_status_settings", "stm", mode_stm>>,
      <<"mode_command_status_settings", "afm", mode_afm>>,
      <<"mode_command_status_settings", "fde", mode_fde>>,
      <<"mode_command_status_settings", "rtrp", mode_rtrp>>,
      <<"mode_command_status_settings", "tsm", mode_tsm>>,
      <<"mode_command_status_settings", "acf", mode_acf>>,
      <<"mode_command_status_settings", "rtrle", settings_rtrle>>,
      <<"mode_command_status_settings", "ilbp", settings_ilbp>>,
      <<"mode_command_status_settings", "ena", settings_ena>>,
      <<"mode_command_status_settings", "nisofd", settings_nisofd>>,
      <<"rx_status_rx_settings", "rtsop", rx_settings_rtsop>>,
      <<"tx_status", "tx1s", tx_status_tx1s>>,
      <<"err_capt_alc", "err_pos", err_capt_err_pos>>,
      <<"err_capt_alc", "err_type", err_capt_err_type>>,
      <<"err_capt_alc", "alc_id_field", alc_alc_id_field>>,
      <<"trv_delay_ssp_cfg", "ssp_src", ssp_cfg_ssp_src>>,
      <<"log_capt_event_2", "evnt_type", log_capt_event_2_evnt_type>>,
      <<"log_capt_event_2", "evnt_det", log_capt_event_2_evnt_det>>,
      <<"log_capt_event_2", "evnt_dea", log_capt_event_2_evnt_dea>> }

\* The offset of union w's word: that of the register its first comment
\* group names.
Base(w) == can_registers[Layouts[w].le[1][1]]

\* The registers union w packs: the names of its comment groups.
Registers(w) == {Layouts[w].le[i][1] : i \in DOMAIN Layouts[w].le}

=============================================================================
