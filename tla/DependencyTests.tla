--------------------------- MODULE DependencyTests --------------------------
(* Dependent pairs, parallel chains and memory ordering: src/dependency and  *)
(* src/memory_order.                                                        *)
EXTENDS TestProgram

(* Defect: NFAST is changed, in the one place, as common.h invites to. *)
NFAST_Longer == 80

(* src/memory_order: a slow division, one access that depends on it, and    *)
(* NFAST fast loads, eight times per loop.  The fast buffer has 64 words.   *)
NFAST == 40

FastCost == (NFAST + 2) * 8
OverFast(reach) == Over(512, reach, FastCost)

(* dependency/ILP *)
dependency_ILP_add_ilp1 == Plain(100, Straight(100), 100, 1)
dependency_ILP_add_ilp2 == Plain(200, Straight(200), 100, 2)
dependency_ILP_add_ilp3 == Plain(300, Straight(300), 100, 3)
dependency_ILP_add_ilp4 == Plain(400, Straight(400), 100, 4)
dependency_ILP_load_ilp1 == Plain(100, Over(64, 8, 100), 100, 1)
dependency_ILP_load_ilp2 == Plain(200, Over(64, 8, 200), 100, 2)
dependency_ILP_load_ilp3 == Plain(300, Over(64, 8, 300), 100, 3)
dependency_ILP_load_ilp4 == Plain(400, Over(64, 8, 400), 100, 4)

(* dependency/addr_dep *)
dependency_addr_dep_fld_fmv == Plain(200, Over(64, 8, 200), 100, 2)
dependency_addr_dep_fsd_fld_fmv == Plain(300, Over(64, 8, 300), 100, 3)

(* dependency/cross_domain *)
dependency_cross_domain_fclass_fcvt == OperandsFirst(200, Straight(200), 100, 2)
dependency_cross_domain_fcvt_roundtrip == Plain(200, Straight(200), 100, 2)
dependency_cross_domain_fmv_roundtrip == Plain(200, Straight(200), 100, 2)

(* dependency/fp_fwd *)
dependency_fp_fwd_fadd_fma == Operands(200, Straight(200), 100, 2)
dependency_fp_fwd_fadd_fmul == Operands(200, Straight(200), 100, 2)
dependency_fp_fwd_fdiv_fadd == Operands(40, Straight(40), 20, 2)
dependency_fp_fwd_fdiv_fma == Operands(40, Straight(40), 20, 2)
dependency_fp_fwd_fdiv_fmul == Operands(40, Straight(40), 20, 2)
dependency_fp_fwd_fmul_fma == Operands(200, Straight(200), 100, 2)
dependency_fp_fwd_fsqrt_fadd == Operands(40, Straight(40), 20, 2)

(* dependency/int_fwd *)
dependency_int_fwd_alu_div == Plain(40, Straight(40), 20, 2)
dependency_int_fwd_alu_mul == Plain(200, Straight(200), 100, 2)
dependency_int_fwd_mul_div == Plain(40, Straight(40), 20, 2)

(* dependency/load_use_l1 *)
dependency_load_use_l1_fld_fadd == Operands(300, Over(64, 8, 300), 100, 3)
dependency_load_use_l1_fld_fma == Operands(300, Over(64, 8, 300), 100, 3)
dependency_load_use_l1_fld_fmul == Operands(300, Over(64, 8, 300), 100, 3)
dependency_load_use_l1_ld_alu == Plain(200, Over(64, 8, 200), 100, 2)
dependency_load_use_l1_ld_div == Plain(40, Over(64, 8, 40), 20, 2)
dependency_load_use_l1_ld_mul == Plain(200, Over(64, 8, 200), 100, 2)

(* dependency/load_use_l2 *)
dependency_load_use_l2_ld_alu == OverL2(200, Straight(200), 100, 2)
dependency_load_use_l2_ld_div == OverL2(40, Straight(40), 20, 2)
dependency_load_use_l2_ld_ld == OverL2(100, Straight(100), 100, 1)
dependency_load_use_l2_ld_mul == OverL2(200, Straight(200), 100, 2)

(* dependency/store_fwd *)
dependency_store_fwd_fsd_fld == Operands(200, Over(64, 8, 200), 100, 2)
dependency_store_fwd_sd_ld == Plain(200, Over(64, 8, 200), 100, 2)

(* memory_order/load_bypass *)
memory_order_load_bypass_case_b == Plain(FastCost, OverFast(NFAST * 8), 8, NFAST + 2)
memory_order_load_bypass_case_c == Plain(FastCost, OverFast(8), 8, NFAST + 2)

(* memory_order/load_load *)
memory_order_load_load_case_b == Plain(FastCost, OverFast(NFAST * 8), 8, NFAST + 2)
memory_order_load_load_case_c == Plain(FastCost, OverFast(8), 8, NFAST + 2)

(* memory_order/store_buffer *)
memory_order_store_buffer_case_b == Plain(FastCost, OverFast(NFAST * 8), 8, NFAST + 2)
memory_order_store_buffer_case_c == Plain(FastCost, OverFast(8), 8, NFAST + 2)

-----------------------------------------------------------------------------
DependencyTests == {
  dependency_ILP_add_ilp1, dependency_ILP_add_ilp2, dependency_ILP_add_ilp3,
  dependency_ILP_add_ilp4, dependency_ILP_load_ilp1,
  dependency_ILP_load_ilp2, dependency_ILP_load_ilp3,
  dependency_ILP_load_ilp4, dependency_addr_dep_fld_fmv,
  dependency_addr_dep_fsd_fld_fmv, dependency_cross_domain_fclass_fcvt,
  dependency_cross_domain_fcvt_roundtrip,
  dependency_cross_domain_fmv_roundtrip, dependency_fp_fwd_fadd_fma,
  dependency_fp_fwd_fadd_fmul, dependency_fp_fwd_fdiv_fadd,
  dependency_fp_fwd_fdiv_fma, dependency_fp_fwd_fdiv_fmul,
  dependency_fp_fwd_fmul_fma, dependency_fp_fwd_fsqrt_fadd,
  dependency_int_fwd_alu_div, dependency_int_fwd_alu_mul,
  dependency_int_fwd_mul_div, dependency_load_use_l1_fld_fadd,
  dependency_load_use_l1_fld_fma, dependency_load_use_l1_fld_fmul,
  dependency_load_use_l1_ld_alu, dependency_load_use_l1_ld_div,
  dependency_load_use_l1_ld_mul, dependency_load_use_l2_ld_alu,
  dependency_load_use_l2_ld_div, dependency_load_use_l2_ld_ld,
  dependency_load_use_l2_ld_mul, dependency_store_fwd_fsd_fld,
  dependency_store_fwd_sd_ld, memory_order_load_bypass_case_b,
  memory_order_load_bypass_case_c, memory_order_load_load_case_b,
  memory_order_load_load_case_c, memory_order_store_buffer_case_b,
  memory_order_store_buffer_case_c}
=============================================================================
