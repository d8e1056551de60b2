---------------------------- MODULE MCBenchmark ----------------------------
EXTENDS Benchmark

(* Numbers of clients and of orders: no client, more clients than orders, *)
(* one client with several orders, and two at once with one or more each. *)
MCSettings(program_) ==
    CASE program_ = "benchmark"             -> {<<0, 1>>, <<2, 1>>, <<1, 2>>}
      [] program_ = "multiclient_benchmark" -> {<<0, 1>>, <<2, 3>>}
      [] program_ = "multiclient"           -> {<<0, 1>>, <<2, 1>>}
      [] program_ = "stockclient"           -> {<<1, 0>>, <<1, 3>>}
MCAddrLists == UNION {[1 .. n -> {"nosocket", "refused", "stuck", "ok"}] : n \in 0 .. 3}
MCNumbers == -40 .. 40

=============================================================================
