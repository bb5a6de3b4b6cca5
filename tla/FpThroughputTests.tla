-------------------------- MODULE FpThroughputTests -------------------------
(* Throughput of floating-point instructions, src/throughput/F*.           *)
EXTENDS TestProgram

(* throughput/FADD *)
throughput_FADD_fadd_d == Plain(100, Straight(100), 100, 1)
throughput_FADD_fadd_s == Plain(100, Straight(100), 100, 1)
throughput_FADD_fsub_d == Plain(100, Straight(100), 100, 1)
throughput_FADD_fsub_s == Plain(100, Straight(100), 100, 1)

(* throughput/FCLASS *)
throughput_FCLASS_fclass_d == Plain(100, Straight(100), 100, 1)
throughput_FCLASS_fclass_s == Plain(100, Straight(100), 100, 1)

(* throughput/FCMP *)
throughput_FCMP_feq_d == Plain(100, Straight(100), 100, 1)
throughput_FCMP_feq_s == Plain(100, Straight(100), 100, 1)
throughput_FCMP_fle_d == Plain(100, Straight(100), 100, 1)
throughput_FCMP_fle_s == Plain(100, Straight(100), 100, 1)
throughput_FCMP_fleq_d == Plain(100, Straight(100), 100, 1)
throughput_FCMP_fleq_h == Plain(100, Straight(100), 100, 1)
throughput_FCMP_fleq_s == Plain(100, Straight(100), 100, 1)
throughput_FCMP_flt_d == Plain(100, Straight(100), 100, 1)
throughput_FCMP_flt_s == Plain(100, Straight(100), 100, 1)
throughput_FCMP_fltq_d == Plain(100, Straight(100), 100, 1)
throughput_FCMP_fltq_h == Plain(100, Straight(100), 100, 1)
throughput_FCMP_fltq_s == Plain(100, Straight(100), 100, 1)

(* throughput/FCVT_F2I *)
throughput_FCVT_F2I_fcvt_l_d == Plain(100, Straight(100), 100, 1)
throughput_FCVT_F2I_fcvt_l_s == Plain(100, Straight(100), 100, 1)
throughput_FCVT_F2I_fcvt_lu_d == Plain(100, Straight(100), 100, 1)
throughput_FCVT_F2I_fcvt_lu_s == Plain(100, Straight(100), 100, 1)
throughput_FCVT_F2I_fcvt_w_d == Plain(100, Straight(100), 100, 1)
throughput_FCVT_F2I_fcvt_w_s == Plain(100, Straight(100), 100, 1)
throughput_FCVT_F2I_fcvt_wu_d == Plain(100, Straight(100), 100, 1)
throughput_FCVT_F2I_fcvt_wu_s == Plain(100, Straight(100), 100, 1)
throughput_FCVT_F2I_fcvtmod_w_d == Plain(100, Straight(100), 100, 1)

(* throughput/FCVT_I2F *)
throughput_FCVT_I2F_fcvt_d_l == Plain(100, Straight(100), 100, 1)
throughput_FCVT_I2F_fcvt_d_lu == Plain(100, Straight(100), 100, 1)
throughput_FCVT_I2F_fcvt_d_w == Plain(100, Straight(100), 100, 1)
throughput_FCVT_I2F_fcvt_d_wu == Plain(100, Straight(100), 100, 1)
throughput_FCVT_I2F_fcvt_s_l == Plain(100, Straight(100), 100, 1)
throughput_FCVT_I2F_fcvt_s_lu == Plain(100, Straight(100), 100, 1)
throughput_FCVT_I2F_fcvt_s_w == Plain(100, Straight(100), 100, 1)
throughput_FCVT_I2F_fcvt_s_wu == Plain(100, Straight(100), 100, 1)

(* throughput/FDIV *)
throughput_FDIV_fdiv_d == Plain(20, Straight(20), 20, 1)
throughput_FDIV_fdiv_s == Plain(20, Straight(20), 20, 1)

(* throughput/FMA *)
throughput_FMA_fmadd_d == Plain(100, Straight(100), 100, 1)
throughput_FMA_fmadd_s == Plain(100, Straight(100), 100, 1)
throughput_FMA_fmsub_d == Plain(100, Straight(100), 100, 1)
throughput_FMA_fmsub_s == Plain(100, Straight(100), 100, 1)
throughput_FMA_fnmadd_d == Plain(100, Straight(100), 100, 1)
throughput_FMA_fnmadd_s == Plain(100, Straight(100), 100, 1)
throughput_FMA_fnmsub_d == Plain(100, Straight(100), 100, 1)
throughput_FMA_fnmsub_s == Plain(100, Straight(100), 100, 1)

(* throughput/FMISC *)
throughput_FMISC_fcvt_d_h == Plain(100, Straight(100), 100, 1)
throughput_FMISC_fcvt_d_s == Plain(100, Straight(100), 100, 1)
throughput_FMISC_fcvt_h_d == Plain(100, Straight(100), 100, 1)
throughput_FMISC_fcvt_h_s == Plain(100, Straight(100), 100, 1)
throughput_FMISC_fcvt_s_d == Plain(100, Straight(100), 100, 1)
throughput_FMISC_fcvt_s_h == Plain(100, Straight(100), 100, 1)
throughput_FMISC_fli_d == Plain(100, Straight(100), 100, 1)
throughput_FMISC_fli_h == Plain(100, Straight(100), 100, 1)
throughput_FMISC_fli_s == Plain(100, Straight(100), 100, 1)
throughput_FMISC_fmax_d == Plain(100, Straight(100), 100, 1)
throughput_FMISC_fmax_s == Plain(100, Straight(100), 100, 1)
throughput_FMISC_fmaxm_d == Plain(100, Straight(100), 100, 1)
throughput_FMISC_fmaxm_h == Plain(100, Straight(100), 100, 1)
throughput_FMISC_fmaxm_s == Plain(100, Straight(100), 100, 1)
throughput_FMISC_fmin_d == Plain(100, Straight(100), 100, 1)
throughput_FMISC_fmin_s == Plain(100, Straight(100), 100, 1)
throughput_FMISC_fminm_d == Plain(100, Straight(100), 100, 1)
throughput_FMISC_fminm_h == Plain(100, Straight(100), 100, 1)
throughput_FMISC_fminm_s == Plain(100, Straight(100), 100, 1)
throughput_FMISC_fround_d == Plain(100, Straight(100), 100, 1)
throughput_FMISC_fround_h == Plain(100, Straight(100), 100, 1)
throughput_FMISC_fround_s == Plain(100, Straight(100), 100, 1)
throughput_FMISC_froundnx_d == Plain(100, Straight(100), 100, 1)
throughput_FMISC_froundnx_h == Plain(100, Straight(100), 100, 1)
throughput_FMISC_froundnx_s == Plain(100, Straight(100), 100, 1)
throughput_FMISC_fsgnj_d == Plain(100, Straight(100), 100, 1)
throughput_FMISC_fsgnj_s == Plain(100, Straight(100), 100, 1)
throughput_FMISC_fsgnjn_d == Plain(100, Straight(100), 100, 1)
throughput_FMISC_fsgnjn_s == Plain(100, Straight(100), 100, 1)
throughput_FMISC_fsgnjx_d == Plain(100, Straight(100), 100, 1)
throughput_FMISC_fsgnjx_s == Plain(100, Straight(100), 100, 1)

(* throughput/FMUL *)
throughput_FMUL_fmul_d == Plain(100, Straight(100), 100, 1)
throughput_FMUL_fmul_s == Plain(100, Straight(100), 100, 1)

(* throughput/FMV_F2I *)
throughput_FMV_F2I_fmv_x_d == Plain(100, Straight(100), 100, 1)
throughput_FMV_F2I_fmv_x_h == Plain(100, Straight(100), 100, 1)
throughput_FMV_F2I_fmv_x_w == Plain(100, Straight(100), 100, 1)

(* throughput/FMV_I2F *)
throughput_FMV_I2F_fmv_d_x == Plain(100, Straight(100), 100, 1)
throughput_FMV_I2F_fmv_h_x == Plain(100, Straight(100), 100, 1)
throughput_FMV_I2F_fmv_w_x == Plain(100, Straight(100), 100, 1)

(* throughput/FSQRT *)
throughput_FSQRT_fsqrt_d == Plain(20, Straight(20), 20, 1)
throughput_FSQRT_fsqrt_s == Plain(20, Straight(20), 20, 1)

-----------------------------------------------------------------------------
FpThroughputTests == {
  throughput_FADD_fadd_d, throughput_FADD_fadd_s, throughput_FADD_fsub_d,
  throughput_FADD_fsub_s, throughput_FCLASS_fclass_d,
  throughput_FCLASS_fclass_s, throughput_FCMP_feq_d, throughput_FCMP_feq_s,
  throughput_FCMP_fle_d, throughput_FCMP_fle_s, throughput_FCMP_fleq_d,
  throughput_FCMP_fleq_h, throughput_FCMP_fleq_s, throughput_FCMP_flt_d,
  throughput_FCMP_flt_s, throughput_FCMP_fltq_d, throughput_FCMP_fltq_h,
  throughput_FCMP_fltq_s, throughput_FCVT_F2I_fcvt_l_d,
  throughput_FCVT_F2I_fcvt_l_s, throughput_FCVT_F2I_fcvt_lu_d,
  throughput_FCVT_F2I_fcvt_lu_s, throughput_FCVT_F2I_fcvt_w_d,
  throughput_FCVT_F2I_fcvt_w_s, throughput_FCVT_F2I_fcvt_wu_d,
  throughput_FCVT_F2I_fcvt_wu_s, throughput_FCVT_F2I_fcvtmod_w_d,
  throughput_FCVT_I2F_fcvt_d_l, throughput_FCVT_I2F_fcvt_d_lu,
  throughput_FCVT_I2F_fcvt_d_w, throughput_FCVT_I2F_fcvt_d_wu,
  throughput_FCVT_I2F_fcvt_s_l, throughput_FCVT_I2F_fcvt_s_lu,
  throughput_FCVT_I2F_fcvt_s_w, throughput_FCVT_I2F_fcvt_s_wu,
  throughput_FDIV_fdiv_d, throughput_FDIV_fdiv_s, throughput_FMA_fmadd_d,
  throughput_FMA_fmadd_s, throughput_FMA_fmsub_d, throughput_FMA_fmsub_s,
  throughput_FMA_fnmadd_d, throughput_FMA_fnmadd_s, throughput_FMA_fnmsub_d,
  throughput_FMA_fnmsub_s, throughput_FMISC_fcvt_d_h,
  throughput_FMISC_fcvt_d_s, throughput_FMISC_fcvt_h_d,
  throughput_FMISC_fcvt_h_s, throughput_FMISC_fcvt_s_d,
  throughput_FMISC_fcvt_s_h, throughput_FMISC_fli_d, throughput_FMISC_fli_h,
  throughput_FMISC_fli_s, throughput_FMISC_fmax_d, throughput_FMISC_fmax_s,
  throughput_FMISC_fmaxm_d, throughput_FMISC_fmaxm_h,
  throughput_FMISC_fmaxm_s, throughput_FMISC_fmin_d, throughput_FMISC_fmin_s,
  throughput_FMISC_fminm_d, throughput_FMISC_fminm_h,
  throughput_FMISC_fminm_s, throughput_FMISC_fround_d,
  throughput_FMISC_fround_h, throughput_FMISC_fround_s,
  throughput_FMISC_froundnx_d, throughput_FMISC_froundnx_h,
  throughput_FMISC_froundnx_s, throughput_FMISC_fsgnj_d,
  throughput_FMISC_fsgnj_s, throughput_FMISC_fsgnjn_d,
  throughput_FMISC_fsgnjn_s, throughput_FMISC_fsgnjx_d,
  throughput_FMISC_fsgnjx_s, throughput_FMUL_fmul_d, throughput_FMUL_fmul_s,
  throughput_FMV_F2I_fmv_x_d, throughput_FMV_F2I_fmv_x_h,
  throughput_FMV_F2I_fmv_x_w, throughput_FMV_I2F_fmv_d_x,
  throughput_FMV_I2F_fmv_h_x, throughput_FMV_I2F_fmv_w_x,
  throughput_FSQRT_fsqrt_d, throughput_FSQRT_fsqrt_s}
=============================================================================
