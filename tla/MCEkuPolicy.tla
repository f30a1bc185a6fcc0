----------------------------- MODULE MCEkuPolicy -----------------------------
(***************************************************************************)
(* Instances of the extended key usage policy.                             *)
(***************************************************************************)
EXTENDS EkuPolicy

MaxChain == 4

\* A purpose the parser does not know stands beside two that it knows.
Purposes == {"serverAuth", "any", "private"}

MCKeyPurposes == SUBSET Purposes

Ekus ==
  {Absent, Repeated, Undecodable, <<>>, <<"serverAuth">>, <<"any">>, <<"private", "serverAuth">>}

Chains == SeqOf({[eku |-> e, critical |-> FALSE] : e \in Ekus}, MaxChain) \ {<<>>}

-----------------------------------------------------------------------------
(* Two certificates that say in a critical extension what they are for.    *)

ServerAuthOnly == {{"serverAuth"}}

CriticalChains == [1..2 -> {[eku |-> <<p>>, critical |-> TRUE] : p \in {"serverAuth", "clientAuth"}}]
=============================================================================
