----------------------- MODULE MCServerIdentityPolicy -----------------------
(***************************************************************************)
(* Instances of the server identity policy.                                *)
(***************************************************************************)
EXTENDS ServerIdentityPolicy

MCAlphanumeric == {"a", "b", "n", "x", "A", "B", "N"}

MCCharacter == MCAlphanumeric \cup {".", "*", "-", "_"}

MCLowerCase == [c \in {"A", "B", "N"} |-> IF c = "A" THEN "a" ELSE IF c = "B" THEN "b" ELSE "n"]

DnsName(name) == [kind |-> "dns", value |-> name]

-----------------------------------------------------------------------------
(* One alternative or common name, of up to four characters or an A-label, *)
(* against host names of up to four characters and A-labels.               *)

MaxLength == 4

Hosts ==
  SeqOf({"a", "B", "."}, MaxLength)
  \cup {<<"x", "n", "-", "-", "a">>, <<"x", "N", "-", "-", "a", ".", "b">>, <<"a", "_">>}

Names ==
  SeqOf({"A", "b", ".", "*"}, MaxLength)
  \cup {<<"x", "N", "-", "-", "*">>, <<"x", "n", "-", "-", "*", ".", "b">>,
        <<"x", "n", "-", "*", ".", "b">>, <<"x", "n", "*">>, <<"x", "n", "-", "-", "a">>,
        <<"*", "_">>, <<"a", "_">>}

NamedLeaves ==
  {[san |-> <<DnsName(n)>>, common_names |-> <<>>] : n \in Names}
  \cup {[san |-> Absent, common_names |-> <<n>>] : n \in Names}

NameQuestions == [hostname : Hosts, ip : {Absent}, leaf : NamedLeaves]

-----------------------------------------------------------------------------
(* Several names of several kinds and several common names.                *)

HostTexts == {Absent, <<"a">>, <<"_">>}

IpTexts == {Absent} \cup {[form |-> f, octets |-> 1] : f \in {"V4", "V6", "neither"}}

GeneralNames ==
  {DnsName(<<"*">>), DnsName(<<"b">>), [kind |-> "email", value |-> <<"a">>]}
  \cup {[kind |-> "ip", value |-> [len |-> l, octets |-> o]] : l \in {4, 8, 16}, o \in {1, 2}}

CommonNames == SeqOf({<<"a">>, <<"b">>, Undecodable}, 2)

MixedLeaves ==
  {[san |-> s, common_names |-> c] :
     s \in {Absent, Undecodable} \cup SeqOf(GeneralNames, 3), c \in CommonNames}

MixedQuestions == [hostname : HostTexts, ip : IpTexts, leaf : MixedLeaves]

Questions == NameQuestions \cup MixedQuestions
=============================================================================
