----------------------------- MODULE MCSessions -----------------------------
(* An instance of Sessions for TLC.                                        *)
EXTENDS Sessions, TLC

MCTokens == [sub : Ids, tv : 0..MaxVersion, exp : 1..MaxTime + Lifetime]

\* "A" and "a" differ in case only.
MCKeyOf == [x \in Items |-> CASE x = "A" -> "a" [] x = " " -> None [] OTHER -> x]
\* The last two are refused.
MCPrefChoices ==
  {[tags |-> <<"a", "A", " ">>, genres |-> <<"b">>], [tags |-> <<>>, genres |-> <<"a", "b">>],
   [tags |-> <<"a", "b", "c">>, genres |-> <<>>], [tags |-> <<>>, genres |-> <<"long">>]}

Symmetry == Permutations(Procs)
=============================================================================
