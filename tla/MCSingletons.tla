---------------------------- MODULE MCSingletons ----------------------------
(***************************************************************************)
(* Instances of Singletons for TLC: two calls of the caches, and two       *)
(* health checks, series and benchmarks past their bounds, and cyclic      *)
(* values.                                                                 *)
(***************************************************************************)
EXTENDS Singletons, TLC

CONSTANTS c1, c2, mainnet, protonet, n1, n2

Child(value, secret) == [value |-> value, secret |-> secret]

Graphs ==
  {[root |-> <<Child("s", TRUE), Child("a", FALSE), Child("in", FALSE)>>,
    in |-> <<Child("b", FALSE), Child("root", FALSE), Child("t", TRUE)>>],
   [root |-> <<Child("in", FALSE), Child("in", TRUE)>>,
    in |-> <<Child("deep", FALSE), Child("s", TRUE)>>,
    deep |-> <<Child("t", TRUE), Child("root", FALSE), Child("in", FALSE), Child("b", FALSE)>>]}

MCServices ==
  UNION {[kind : {"health", "metrics"}],
         [kind : {"operation"}, throws : {None, "network"}],
         [kind : {"benchmark"}, iterations : {0, 3, 4}, durations : {{0, 1, 3}}],
         [kind : {"logger"}, root : {"root", "a"}, nodes : Graphs,
          leaves : {{"a", "b", "s", "t"}}, level : {"debug", "warn"}, logLevel : {"info"}]}
=============================================================================
