--------------------------- MODULE ThroughputTests --------------------------
(* Throughput: independent integer, memory and branch instructions,        *)
(* src/throughput.                                                         *)
EXTENDS TestProgram

(* throughput/ALU *)
throughput_ALU_add == Plain(100, Straight(100), 100, 1)
throughput_ALU_addi == Plain(100, Straight(100), 100, 1)
throughput_ALU_addiw == Plain(100, Straight(100), 100, 1)
throughput_ALU_addw == Plain(100, Straight(100), 100, 1)
throughput_ALU_and == Plain(100, Straight(100), 100, 1)
throughput_ALU_andi == Plain(100, Straight(100), 100, 1)
throughput_ALU_auipc == Plain(100, Straight(100), 100, 1)
throughput_ALU_c_add == Plain(100, Straight(100), 100, 1)
throughput_ALU_c_addi == Plain(100, Straight(100), 100, 1)
throughput_ALU_c_addi16sp == Plain(100, Straight(100), 100, 1)
throughput_ALU_c_addi4spn == Plain(100, Straight(100), 100, 1)
throughput_ALU_c_addiw == Plain(100, Straight(100), 100, 1)
throughput_ALU_c_addw == Plain(100, Straight(100), 100, 1)
throughput_ALU_c_and == Plain(100, Straight(100), 100, 1)
throughput_ALU_c_andi == Plain(100, Straight(100), 100, 1)
throughput_ALU_c_li == Plain(100, Straight(100), 100, 1)
throughput_ALU_c_lui == Plain(100, Straight(100), 100, 1)
throughput_ALU_c_mv == Plain(100, Straight(100), 100, 1)
throughput_ALU_c_not == Plain(100, Straight(100), 100, 1)
throughput_ALU_c_or == Plain(100, Straight(100), 100, 1)
throughput_ALU_c_sext_b == Plain(100, Straight(100), 100, 1)
throughput_ALU_c_sext_h == Plain(100, Straight(100), 100, 1)
throughput_ALU_c_slli == Plain(100, Straight(100), 100, 1)
throughput_ALU_c_srai == Plain(100, Straight(100), 100, 1)
throughput_ALU_c_srli == Plain(100, Straight(100), 100, 1)
throughput_ALU_c_sub == Plain(100, Straight(100), 100, 1)
throughput_ALU_c_subw == Plain(100, Straight(100), 100, 1)
throughput_ALU_c_xor == Plain(100, Straight(100), 100, 1)
throughput_ALU_c_zext_b == Plain(100, Straight(100), 100, 1)
throughput_ALU_c_zext_h == Plain(100, Straight(100), 100, 1)
throughput_ALU_c_zext_w == Plain(100, Straight(100), 100, 1)
throughput_ALU_czero_eqz == Plain(100, Straight(100), 100, 1)
throughput_ALU_czero_nez == Plain(100, Straight(100), 100, 1)
throughput_ALU_lui == Plain(100, Straight(100), 100, 1)
throughput_ALU_or == Plain(100, Straight(100), 100, 1)
throughput_ALU_ori == Plain(100, Straight(100), 100, 1)
throughput_ALU_sll == Plain(100, Straight(100), 100, 1)
throughput_ALU_slli == Plain(100, Straight(100), 100, 1)
throughput_ALU_slliw == Plain(100, Straight(100), 100, 1)
throughput_ALU_sllw == Plain(100, Straight(100), 100, 1)
throughput_ALU_slt == Plain(100, Straight(100), 100, 1)
throughput_ALU_slti == Plain(100, Straight(100), 100, 1)
throughput_ALU_sltiu == Plain(100, Straight(100), 100, 1)
throughput_ALU_sltu == Plain(100, Straight(100), 100, 1)
throughput_ALU_sra == Plain(100, Straight(100), 100, 1)
throughput_ALU_srai == Plain(100, Straight(100), 100, 1)
throughput_ALU_sraiw == Plain(100, Straight(100), 100, 1)
throughput_ALU_sraw == Plain(100, Straight(100), 100, 1)
throughput_ALU_srl == Plain(100, Straight(100), 100, 1)
throughput_ALU_srli == Plain(100, Straight(100), 100, 1)
throughput_ALU_srliw == Plain(100, Straight(100), 100, 1)
throughput_ALU_srlw == Plain(100, Straight(100), 100, 1)
throughput_ALU_sub == Plain(100, Straight(100), 100, 1)
throughput_ALU_subw == Plain(100, Straight(100), 100, 1)
throughput_ALU_xor == Plain(100, Straight(100), 100, 1)
throughput_ALU_xori == Plain(100, Straight(100), 100, 1)

(* throughput/AMO *)
throughput_AMO_amoadd_d == Plain(20, Over(512, 8, 20), 20, 1)
throughput_AMO_amoadd_w == Plain(20, Over(512, 4, 20), 20, 1)
throughput_AMO_amoand_d == Plain(20, Over(512, 8, 20), 20, 1)
throughput_AMO_amoand_w == Plain(20, Over(512, 4, 20), 20, 1)
throughput_AMO_amomax_d == Plain(20, Over(512, 8, 20), 20, 1)
throughput_AMO_amomax_w == Plain(20, Over(512, 4, 20), 20, 1)
throughput_AMO_amomaxu_d == Plain(20, Over(512, 8, 20), 20, 1)
throughput_AMO_amomaxu_w == Plain(20, Over(512, 4, 20), 20, 1)
throughput_AMO_amomin_d == Plain(20, Over(512, 8, 20), 20, 1)
throughput_AMO_amomin_w == Plain(20, Over(512, 4, 20), 20, 1)
throughput_AMO_amominu_d == Plain(20, Over(512, 8, 20), 20, 1)
throughput_AMO_amominu_w == Plain(20, Over(512, 4, 20), 20, 1)
throughput_AMO_amoor_d == Plain(20, Over(512, 8, 20), 20, 1)
throughput_AMO_amoor_w == Plain(20, Over(512, 4, 20), 20, 1)
throughput_AMO_amoswap_d == Plain(20, Over(512, 8, 20), 20, 1)
throughput_AMO_amoswap_w == Plain(20, Over(512, 4, 20), 20, 1)
throughput_AMO_amoxor_d == Plain(20, Over(512, 8, 20), 20, 1)
throughput_AMO_amoxor_w == Plain(20, Over(512, 4, 20), 20, 1)
throughput_AMO_lr_d == Plain(20, Over(512, 8, 20), 20, 1)
throughput_AMO_lr_w == Plain(20, Over(512, 4, 20), 20, 1)
throughput_AMO_sc_d == Plain(20, Over(512, 8, 20), 20, 1)
throughput_AMO_sc_w == Plain(20, Over(512, 4, 20), 20, 1)

(* throughput/BMU *)
throughput_BMU_add_uw == Plain(100, Straight(100), 100, 1)
throughput_BMU_andn == Plain(100, Straight(100), 100, 1)
throughput_BMU_bclr == Plain(100, Straight(100), 100, 1)
throughput_BMU_bclri == Plain(100, Straight(100), 100, 1)
throughput_BMU_bext == Plain(100, Straight(100), 100, 1)
throughput_BMU_bexti == Plain(100, Straight(100), 100, 1)
throughput_BMU_binv == Plain(100, Straight(100), 100, 1)
throughput_BMU_binvi == Plain(100, Straight(100), 100, 1)
throughput_BMU_bset == Plain(100, Straight(100), 100, 1)
throughput_BMU_bseti == Plain(100, Straight(100), 100, 1)
throughput_BMU_clz == Plain(100, Straight(100), 100, 1)
throughput_BMU_clzw == Plain(100, Straight(100), 100, 1)
throughput_BMU_cpop == Plain(100, Straight(100), 100, 1)
throughput_BMU_cpopw == Plain(100, Straight(100), 100, 1)
throughput_BMU_ctz == Plain(100, Straight(100), 100, 1)
throughput_BMU_ctzw == Plain(100, Straight(100), 100, 1)
throughput_BMU_max == Plain(100, Straight(100), 100, 1)
throughput_BMU_maxu == Plain(100, Straight(100), 100, 1)
throughput_BMU_min == Plain(100, Straight(100), 100, 1)
throughput_BMU_minu == Plain(100, Straight(100), 100, 1)
throughput_BMU_orc_b == Plain(100, Straight(100), 100, 1)
throughput_BMU_orn == Plain(100, Straight(100), 100, 1)
throughput_BMU_rev8 == Plain(100, Straight(100), 100, 1)
throughput_BMU_rol == Plain(100, Straight(100), 100, 1)
throughput_BMU_rolw == Plain(100, Straight(100), 100, 1)
throughput_BMU_ror == Plain(100, Straight(100), 100, 1)
throughput_BMU_rori == Plain(100, Straight(100), 100, 1)
throughput_BMU_roriw == Plain(100, Straight(100), 100, 1)
throughput_BMU_rorw == Plain(100, Straight(100), 100, 1)
throughput_BMU_sext_b == Plain(100, Straight(100), 100, 1)
throughput_BMU_sext_h == Plain(100, Straight(100), 100, 1)
throughput_BMU_sh1add == Plain(100, Straight(100), 100, 1)
throughput_BMU_sh1add_uw == Plain(100, Straight(100), 100, 1)
throughput_BMU_sh2add == Plain(100, Straight(100), 100, 1)
throughput_BMU_sh2add_uw == Plain(100, Straight(100), 100, 1)
throughput_BMU_sh3add == Plain(100, Straight(100), 100, 1)
throughput_BMU_sh3add_uw == Plain(100, Straight(100), 100, 1)
throughput_BMU_slli_uw == Plain(100, Straight(100), 100, 1)
throughput_BMU_xnor == Plain(100, Straight(100), 100, 1)
throughput_BMU_zext_h == Plain(100, Straight(100), 100, 1)

(* throughput/BRU *)
throughput_BRU_beq == Plain(200, Straight(200), 200, 1)
throughput_BRU_bge == Plain(200, Straight(200), 200, 1)
throughput_BRU_bgeu == Plain(200, Straight(200), 200, 1)
throughput_BRU_blt == Plain(200, Straight(200), 200, 1)
throughput_BRU_bltu == Plain(200, Straight(200), 200, 1)
throughput_BRU_bne == Plain(200, Straight(200), 200, 1)
throughput_BRU_c_beqz == Plain(200, Straight(200), 200, 1)
throughput_BRU_c_bnez == Plain(200, Straight(200), 200, 1)
throughput_BRU_c_j == Plain(100, Straight(100), 100, 1)
throughput_BRU_c_jalr == Plain(99, Straight(99), 99, 1)
throughput_BRU_c_jr == Plain(99, Straight(99), 99, 1)
throughput_BRU_jal == Plain(100, Straight(100), 100, 1)
throughput_BRU_jalr == Plain(100, Straight(100), 100, 1)

(* throughput/CSR *)
throughput_CSR_csrrc == Plain(100, Straight(100), 100, 1)
throughput_CSR_csrrci == Plain(100, Straight(100), 100, 1)
throughput_CSR_csrrs == Plain(100, Straight(100), 100, 1)
throughput_CSR_csrrsi == Plain(100, Straight(100), 100, 1)
throughput_CSR_csrrw == Plain(100, Straight(100), 100, 1)
throughput_CSR_csrrwi == Plain(100, Straight(100), 100, 1)

(* throughput/DIV *)
throughput_DIV_div == Plain(20, Straight(20), 20, 1)
throughput_DIV_divu == Plain(20, Straight(20), 20, 1)
throughput_DIV_divuw == Plain(20, Straight(20), 20, 1)
throughput_DIV_divw == Plain(20, Straight(20), 20, 1)
throughput_DIV_rem == Plain(20, Straight(20), 20, 1)
throughput_DIV_remu == Plain(20, Straight(20), 20, 1)
throughput_DIV_remuw == Plain(20, Straight(20), 20, 1)
throughput_DIV_remw == Plain(20, Straight(20), 20, 1)

(* throughput/LOAD *)
throughput_LOAD_c_fld == Plain(100, Over(512, 32, 100), 100, 1)
throughput_LOAD_c_fldsp == Plain(100, Over(512, 0, 100), 100, 1)
throughput_LOAD_c_lbu == Plain(100, Over(512, 4, 100), 100, 1)
throughput_LOAD_c_ld == Plain(100, Over(512, 32, 100), 100, 1)
throughput_LOAD_c_ldsp == Plain(100, Over(512, 0, 100), 100, 1)
throughput_LOAD_c_lh == Plain(100, Over(512, 4, 100), 100, 1)
throughput_LOAD_c_lhu == Plain(100, Over(512, 4, 100), 100, 1)
throughput_LOAD_c_lw == Plain(100, Over(512, 16, 100), 100, 1)
throughput_LOAD_c_lwsp == Plain(100, Over(512, 0, 100), 100, 1)
throughput_LOAD_fld == Plain(100, Over(512, 32, 100), 100, 1)
throughput_LOAD_flh == Plain(100, Over(512, 26, 100), 100, 1)
throughput_LOAD_flw == Plain(100, Over(512, 28, 100), 100, 1)
throughput_LOAD_lb == Plain(100, Over(512, 25, 100), 100, 1)
throughput_LOAD_lbu == Plain(100, Over(512, 25, 100), 100, 1)
throughput_LOAD_ld == Plain(100, Over(512, 32, 100), 100, 1)
throughput_LOAD_lh == Plain(100, Over(512, 26, 100), 100, 1)
throughput_LOAD_lhu == Plain(100, Over(512, 26, 100), 100, 1)
throughput_LOAD_lw == Plain(100, Over(512, 28, 100), 100, 1)
throughput_LOAD_lwu == Plain(100, Over(512, 28, 100), 100, 1)

(* throughput/MUL *)
throughput_MUL_c_mul == Plain(100, Straight(100), 100, 1)
throughput_MUL_mul == Plain(100, Straight(100), 100, 1)
throughput_MUL_mulh == Plain(100, Straight(100), 100, 1)
throughput_MUL_mulhsu == Plain(100, Straight(100), 100, 1)
throughput_MUL_mulhu == Plain(100, Straight(100), 100, 1)
throughput_MUL_mulw == Plain(100, Straight(100), 100, 1)

(* throughput/STORE *)
throughput_STORE_c_fsd == Plain(100, Over(512, 32, 100), 100, 1)
throughput_STORE_c_fsdsp == Plain(100, Over(512, 0, 100), 100, 1)
throughput_STORE_c_sb == Plain(100, Over(512, 4, 100), 100, 1)
throughput_STORE_c_sd == Plain(100, Over(512, 32, 100), 100, 1)
throughput_STORE_c_sdsp == Plain(100, Over(512, 0, 100), 100, 1)
throughput_STORE_c_sh == Plain(100, Over(512, 4, 100), 100, 1)
throughput_STORE_c_sw == Plain(100, Over(512, 16, 100), 100, 1)
throughput_STORE_c_swsp == Plain(100, Over(512, 0, 100), 100, 1)
throughput_STORE_fsd == Plain(100, Over(512, 32, 100), 100, 1)
throughput_STORE_fsh == Plain(100, Over(512, 26, 100), 100, 1)
throughput_STORE_fsw == Plain(100, Over(512, 28, 100), 100, 1)
throughput_STORE_sb == Plain(100, Over(512, 25, 100), 100, 1)
throughput_STORE_sd == Plain(100, Over(512, 32, 100), 100, 1)
throughput_STORE_sd_cross64 == Plain(100, Over(512, 260, 100), 100, 1)
throughput_STORE_sh == Plain(100, Over(512, 26, 100), 100, 1)
throughput_STORE_sw == Plain(100, Over(512, 28, 100), 100, 1)

-----------------------------------------------------------------------------
ThroughputTests == {
  throughput_ALU_add, throughput_ALU_addi, throughput_ALU_addiw,
  throughput_ALU_addw, throughput_ALU_and, throughput_ALU_andi,
  throughput_ALU_auipc, throughput_ALU_c_add, throughput_ALU_c_addi,
  throughput_ALU_c_addi16sp, throughput_ALU_c_addi4spn,
  throughput_ALU_c_addiw, throughput_ALU_c_addw, throughput_ALU_c_and,
  throughput_ALU_c_andi, throughput_ALU_c_li, throughput_ALU_c_lui,
  throughput_ALU_c_mv, throughput_ALU_c_not, throughput_ALU_c_or,
  throughput_ALU_c_sext_b, throughput_ALU_c_sext_h, throughput_ALU_c_slli,
  throughput_ALU_c_srai, throughput_ALU_c_srli, throughput_ALU_c_sub,
  throughput_ALU_c_subw, throughput_ALU_c_xor, throughput_ALU_c_zext_b,
  throughput_ALU_c_zext_h, throughput_ALU_c_zext_w, throughput_ALU_czero_eqz,
  throughput_ALU_czero_nez, throughput_ALU_lui, throughput_ALU_or,
  throughput_ALU_ori, throughput_ALU_sll, throughput_ALU_slli,
  throughput_ALU_slliw, throughput_ALU_sllw, throughput_ALU_slt,
  throughput_ALU_slti, throughput_ALU_sltiu, throughput_ALU_sltu,
  throughput_ALU_sra, throughput_ALU_srai, throughput_ALU_sraiw,
  throughput_ALU_sraw, throughput_ALU_srl, throughput_ALU_srli,
  throughput_ALU_srliw, throughput_ALU_srlw, throughput_ALU_sub,
  throughput_ALU_subw, throughput_ALU_xor, throughput_ALU_xori,
  throughput_AMO_amoadd_d, throughput_AMO_amoadd_w, throughput_AMO_amoand_d,
  throughput_AMO_amoand_w, throughput_AMO_amomax_d, throughput_AMO_amomax_w,
  throughput_AMO_amomaxu_d, throughput_AMO_amomaxu_w,
  throughput_AMO_amomin_d, throughput_AMO_amomin_w, throughput_AMO_amominu_d,
  throughput_AMO_amominu_w, throughput_AMO_amoor_d, throughput_AMO_amoor_w,
  throughput_AMO_amoswap_d, throughput_AMO_amoswap_w,
  throughput_AMO_amoxor_d, throughput_AMO_amoxor_w, throughput_AMO_lr_d,
  throughput_AMO_lr_w, throughput_AMO_sc_d, throughput_AMO_sc_w,
  throughput_BMU_add_uw, throughput_BMU_andn, throughput_BMU_bclr,
  throughput_BMU_bclri, throughput_BMU_bext, throughput_BMU_bexti,
  throughput_BMU_binv, throughput_BMU_binvi, throughput_BMU_bset,
  throughput_BMU_bseti, throughput_BMU_clz, throughput_BMU_clzw,
  throughput_BMU_cpop, throughput_BMU_cpopw, throughput_BMU_ctz,
  throughput_BMU_ctzw, throughput_BMU_max, throughput_BMU_maxu,
  throughput_BMU_min, throughput_BMU_minu, throughput_BMU_orc_b,
  throughput_BMU_orn, throughput_BMU_rev8, throughput_BMU_rol,
  throughput_BMU_rolw, throughput_BMU_ror, throughput_BMU_rori,
  throughput_BMU_roriw, throughput_BMU_rorw, throughput_BMU_sext_b,
  throughput_BMU_sext_h, throughput_BMU_sh1add, throughput_BMU_sh1add_uw,
  throughput_BMU_sh2add, throughput_BMU_sh2add_uw, throughput_BMU_sh3add,
  throughput_BMU_sh3add_uw, throughput_BMU_slli_uw, throughput_BMU_xnor,
  throughput_BMU_zext_h, throughput_BRU_beq, throughput_BRU_bge,
  throughput_BRU_bgeu, throughput_BRU_blt, throughput_BRU_bltu,
  throughput_BRU_bne, throughput_BRU_c_beqz, throughput_BRU_c_bnez,
  throughput_BRU_c_j, throughput_BRU_c_jalr, throughput_BRU_c_jr,
  throughput_BRU_jal, throughput_BRU_jalr, throughput_CSR_csrrc,
  throughput_CSR_csrrci, throughput_CSR_csrrs, throughput_CSR_csrrsi,
  throughput_CSR_csrrw, throughput_CSR_csrrwi, throughput_DIV_div,
  throughput_DIV_divu, throughput_DIV_divuw, throughput_DIV_divw,
  throughput_DIV_rem, throughput_DIV_remu, throughput_DIV_remuw,
  throughput_DIV_remw, throughput_LOAD_c_fld, throughput_LOAD_c_fldsp,
  throughput_LOAD_c_lbu, throughput_LOAD_c_ld, throughput_LOAD_c_ldsp,
  throughput_LOAD_c_lh, throughput_LOAD_c_lhu, throughput_LOAD_c_lw,
  throughput_LOAD_c_lwsp, throughput_LOAD_fld, throughput_LOAD_flh,
  throughput_LOAD_flw, throughput_LOAD_lb, throughput_LOAD_lbu,
  throughput_LOAD_ld, throughput_LOAD_lh, throughput_LOAD_lhu,
  throughput_LOAD_lw, throughput_LOAD_lwu, throughput_MUL_c_mul,
  throughput_MUL_mul, throughput_MUL_mulh, throughput_MUL_mulhsu,
  throughput_MUL_mulhu, throughput_MUL_mulw, throughput_STORE_c_fsd,
  throughput_STORE_c_fsdsp, throughput_STORE_c_sb, throughput_STORE_c_sd,
  throughput_STORE_c_sdsp, throughput_STORE_c_sh, throughput_STORE_c_sw,
  throughput_STORE_c_swsp, throughput_STORE_fsd, throughput_STORE_fsh,
  throughput_STORE_fsw, throughput_STORE_sb, throughput_STORE_sd,
  throughput_STORE_sd_cross64, throughput_STORE_sh, throughput_STORE_sw}
=============================================================================
