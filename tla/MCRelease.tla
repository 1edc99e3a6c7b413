----------------------------- MODULE MCRelease -----------------------------
(***************************************************************************)
(* Instances of Release for TLC: two working copies of the repository as   *)
(* it is, at a pre-release of branch alpha.  The name of another branch    *)
(* goes on after alpha and a dot with a number.                            *)
(***************************************************************************)
EXTENDS Release, TLC

MCBranches == {<<"main">>, <<"alpha">>, <<"alpha", "7x">>, <<"fix">>}
MCMainBranches == {<<"main">>}
MCSlashedBranches == {<<"fix">>}
MCLeadingNumber == [part \in {"7x"} |-> 7]

Alpha(n) == Version(<<0, 0, 1>>, <<"alpha">>, n)

MCInit ==
  \E bound \in {[deploys |-> 2, tools |-> {"unpublish"}, checkouts |-> 0],
                [deploys |-> 2, tools |-> {"delete"}, checkouts |-> 0],
                [deploys |-> 2, tools |-> {}, checkouts |-> 1],
                [deploys |-> 1, tools |-> {"deprecate", "undeprecate"}, checkouts |-> 0]} :
    InitWith(<<"alpha">>, Alpha(2), {Alpha(1), Alpha(2)}, bound)

DeployerSymmetry == Permutations(Deployers)

Spec == MCInit /\ [][Next]_vars

=============================================================================
