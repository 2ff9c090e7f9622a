------------------------- MODULE MCParameterServices -------------------------
EXTENDS ParameterServices

\* Three of the six services: one that lists, one that looks up, one that sets.
MCKinds == <<"list", "get", "set">>

\* Names with two parts, with one, and with three; one is a prefix of another
\* only as text (a, ab).
MCDeclared == << <<"a", "x">>, <<"ab">>, <<"a", "y", "z">>, <<"a">> >>

MCEntry == [n \in ToSet(MCDeclared) |-> n]

\* No prefix, overlapping ones, a repeated and an unknown one.
ListArguments ==
  {<<>>, << <<"a">>, <<"a", "y">> >>, << <<"ab">>, <<"b">>, <<"ab">> >>}

MCArguments ==
  [k \in ToSet(MCKinds) \cup {"events"} |->
     CASE k = "list" -> ListArguments
       [] k = "get"  -> {<< <<"ab">>, <<"b">> >>}
       [] OTHER      -> {<<>>}]
=============================================================================
