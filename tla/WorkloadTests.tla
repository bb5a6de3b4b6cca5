---------------------------- MODULE WorkloadTests ---------------------------
(* Small programs, src/workload.                                           *)
EXTENDS TestProgram

(* workload/algo *)
workload_algo_edit_distance == Workload(20000)
workload_algo_knapsack == Workload(200)
workload_algo_lcs == Workload(10000)

(* workload/bit *)
workload_bit_bit_reverse == Workload(160)
workload_bit_bitcount == Workload(200)
workload_bit_bitcount_fast == Workload(100)
workload_bit_find_msb == Workload(50)
workload_bit_msb_binary == Workload(30)

(* workload/container *)
workload_container_arr_sum == Workload(40)
workload_container_queue == Workload(30)
workload_container_stack == Workload(200)

(* workload/graph *)
workload_graph_bfs == Workload(500)
workload_graph_dfs == Workload(500)
workload_graph_dijkstra == Workload(1000)

(* workload/math *)
workload_math_dot_product == Workload(2000)
workload_math_fib_iterative == Workload(100)
workload_math_fib_recursive == Workload(100)
workload_math_gcd == Workload(200)
workload_math_is_prime == Workload(100)
workload_math_mat_multi == Workload(5000)
workload_math_power_fast == Workload(20)
workload_math_power_naive == Workload(100)
workload_math_sqrt_newton == Workload(500)

(* workload/other *)
workload_other_crc32 == Workload(100)
workload_other_huffman == Workload(80)
workload_other_quick_select == Workload(50)

(* workload/search *)
workload_search_binary_search == Workload(20)
workload_search_hash_search == Workload(30)
workload_search_linear_search == Workload(30)

(* workload/string *)
workload_string_str_cmp == Workload(700)
workload_string_str_cpy == Workload(4000)
workload_string_str_len == Workload(4000)
workload_string_str_match == Workload(500)
workload_string_str_reverse == Workload(200)

(* workload/tree *)
workload_tree_tree_heap == Workload(200)
workload_tree_tree_iterative == Workload(100)
workload_tree_tree_recursive == Workload(100)
workload_tree_tree_search == Workload(50)

-----------------------------------------------------------------------------
WorkloadTests == {
  workload_algo_edit_distance, workload_algo_knapsack, workload_algo_lcs,
  workload_bit_bit_reverse, workload_bit_bitcount,
  workload_bit_bitcount_fast, workload_bit_find_msb, workload_bit_msb_binary,
  workload_container_arr_sum, workload_container_queue,
  workload_container_stack, workload_graph_bfs, workload_graph_dfs,
  workload_graph_dijkstra, workload_math_dot_product,
  workload_math_fib_iterative, workload_math_fib_recursive,
  workload_math_gcd, workload_math_is_prime, workload_math_mat_multi,
  workload_math_power_fast, workload_math_power_naive,
  workload_math_sqrt_newton, workload_other_crc32, workload_other_huffman,
  workload_other_quick_select, workload_search_binary_search,
  workload_search_hash_search, workload_search_linear_search,
  workload_string_str_cmp, workload_string_str_cpy, workload_string_str_len,
  workload_string_str_match, workload_string_str_reverse,
  workload_tree_tree_heap, workload_tree_tree_iterative,
  workload_tree_tree_recursive, workload_tree_tree_search}
=============================================================================
