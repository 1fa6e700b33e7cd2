----------------------------- MODULE MCServices -----------------------------
(***************************************************************************)
(* TLC instance of Services: two providers that know one address, and a    *)
(* plan of a backend check that fails on one of two contents, the build    *)
(* and the packaging.                                                      *)
(***************************************************************************)
EXTENDS Services

MCEmailOf == [x \in Subjects |-> CHOOSE e \in Emails : TRUE]
MCProviderOf == [x \in Subjects |-> x]
MCGood == ((1..N) \X Contents) \ {<<1, "y">>}
=============================================================================
