---------------------------- MODULE LatencyTests ----------------------------
(* Latency: chains of dependent instructions, src/latency.                 *)
EXTENDS TestProgram

(* latency/ALU *)
latency_ALU_add == Plain(100, Straight(100), 100, 1)

(* latency/AMO *)
latency_AMO_amoadd_d == Plain(20, Over(64, 8, 20), 20, 1)
latency_AMO_amoadd_w == Plain(20, Over(64, 4, 20), 20, 1)

(* latency/BMU *)
latency_BMU_clz == Plain(100, Straight(100), 100, 1)

(* latency/DIV *)
latency_DIV_div == Plain(1000, Straight(1000), 1000, 1)

(* latency/FADD *)
latency_FADD_fadd_d == Plain(100, Straight(100), 100, 1)
latency_FADD_fadd_s == Plain(100, Straight(100), 100, 1)

(* latency/FCLASS *)
latency_FCLASS_fclass_d == Plain(200, Straight(200), 100, 2)
latency_FCLASS_fclass_s == Plain(200, Straight(200), 100, 2)

(* latency/FCMP *)
latency_FCMP_feq_d == Plain(200, Straight(200), 100, 2)
latency_FCMP_feq_s == Plain(200, Straight(200), 100, 2)

(* latency/FCVT *)
latency_FCVT_fcvt_d_l == Plain(200, Straight(200), 100, 2)
latency_FCVT_fcvt_l_d == Plain(200, Straight(200), 100, 2)
latency_FCVT_fcvt_l_s == Plain(200, Straight(200), 100, 2)
latency_FCVT_fcvt_s_l == Plain(200, Straight(200), 100, 2)

(* latency/FDIV *)
latency_FDIV_fdiv_d == Plain(1000, Straight(1000), 1000, 1)
latency_FDIV_fdiv_s == Plain(1000, Straight(1000), 1000, 1)

(* latency/FMA *)
latency_FMA_fmadd_d == Plain(100, Straight(100), 100, 1)
latency_FMA_fmadd_s == Plain(100, Straight(100), 100, 1)

(* latency/FMISC *)
latency_FMISC_fcvt_d_h == Plain(100, Straight(100), 50, 2)
latency_FMISC_fcvt_d_s == Plain(100, Straight(100), 50, 2)
latency_FMISC_fmin_d == Plain(100, Straight(100), 100, 1)
latency_FMISC_fmin_s == Plain(100, Straight(100), 100, 1)
latency_FMISC_fround_d == Plain(100, Straight(100), 100, 1)
latency_FMISC_fround_s == Plain(100, Straight(100), 100, 1)
latency_FMISC_fsgnj_d == Plain(100, Straight(100), 100, 1)
latency_FMISC_fsgnj_s == Plain(100, Straight(100), 100, 1)

(* latency/FMUL *)
latency_FMUL_fmul_d == Plain(100, Straight(100), 100, 1)
latency_FMUL_fmul_s == Plain(100, Straight(100), 100, 1)

(* latency/FMV *)
latency_FMV_fmv_d_x == Plain(200, Straight(200), 100, 2)
latency_FMV_fmv_w_x == Plain(200, Straight(200), 100, 2)
latency_FMV_fmv_x_d == Plain(200, Straight(200), 100, 2)
latency_FMV_fmv_x_w == Plain(200, Straight(200), 100, 2)

(* latency/FSQRT *)
latency_FSQRT_fsqrt_d == Plain(20, Straight(20), 20, 1)
latency_FSQRT_fsqrt_s == Plain(20, Straight(20), 20, 1)

(* latency/LOAD *)
latency_LOAD_ld == Plain(100, Over(64, 8, 100), 100, 1)

(* latency/MUL *)
latency_MUL_mul == Plain(100, Straight(100), 100, 1)

(* latency/STORE *)
latency_STORE_fsd == Plain(100, Over(64, 8, 100), 50, 2)
latency_STORE_sd == Plain(100, Over(64, 8, 100), 50, 2)

-----------------------------------------------------------------------------
LatencyTests == {
  latency_ALU_add, latency_AMO_amoadd_d, latency_AMO_amoadd_w,
  latency_BMU_clz, latency_DIV_div, latency_FADD_fadd_d, latency_FADD_fadd_s,
  latency_FCLASS_fclass_d, latency_FCLASS_fclass_s, latency_FCMP_feq_d,
  latency_FCMP_feq_s, latency_FCVT_fcvt_d_l, latency_FCVT_fcvt_l_d,
  latency_FCVT_fcvt_l_s, latency_FCVT_fcvt_s_l, latency_FDIV_fdiv_d,
  latency_FDIV_fdiv_s, latency_FMA_fmadd_d, latency_FMA_fmadd_s,
  latency_FMISC_fcvt_d_h, latency_FMISC_fcvt_d_s, latency_FMISC_fmin_d,
  latency_FMISC_fmin_s, latency_FMISC_fround_d, latency_FMISC_fround_s,
  latency_FMISC_fsgnj_d, latency_FMISC_fsgnj_s, latency_FMUL_fmul_d,
  latency_FMUL_fmul_s, latency_FMV_fmv_d_x, latency_FMV_fmv_w_x,
  latency_FMV_fmv_x_d, latency_FMV_fmv_x_w, latency_FSQRT_fsqrt_d,
  latency_FSQRT_fsqrt_s, latency_LOAD_ld, latency_MUL_mul, latency_STORE_fsd,
  latency_STORE_sd}
=============================================================================
