--------------------------- MODULE MCSubmitAndWait ---------------------------
(* An instance of SubmitAndWait for TLC. *)
EXTENDS SubmitAndWait

CONSTANT c1

OneCaller == {c1}

\* With and without a fallback, and with one that is refused.
MCConfig ==
  {[https |-> TRUE, fallbackToHttp |-> k # "none", local |-> k # "remote", nodeJs |-> TRUE] :
     k \in {"none", "local", "remote"}}
=============================================================================
