------------------------- MODULE MCParameterServer ---------------------------
(* Three parameters: a ranged integer, a string of dynamic type that has an  *)
(* integer range all the same, and a read-only flag.                         *)
EXTENDS ParameterServer, TLC

CONSTANTS gain, iso, serial, ghost,   \* names
          auto, s0, s1                \* texts

MCNames == {gain, iso, serial}

Integer(v) == [type |-> "INTEGER", value |-> v]
Double(v) == [type |-> "DOUBLE", value |-> v]
Text(v) == [type |-> "STRING", value |-> v]
Invalid == [type |-> "INVALID", value |-> 0]
Param(n, v) == [name |-> n, value |-> v]

Desc(type, readOnly, dynamicTyping, integerRange) ==
  [type |-> type, readOnly |-> readOnly, dynamicTyping |-> dynamicTyping,
   integerRange |-> integerRange, floatRange |-> NoRange]

MCDescriptor ==
  gain :> Desc("INTEGER", FALSE, FALSE, {[from |-> 0, to |-> 10]}) @@
  iso :> Desc("STRING", FALSE, TRUE, {[from |-> 100, to |-> 400]}) @@
  serial :> Desc("STRING", TRUE, FALSE, NoRange)

MCInitial == gain :> Integer(0) @@ iso :> Text(auto) @@ serial :> Text(s0)

\* Good and refused values in both orders, a name twice, an undeclared name, and
\* a value nobody can read after one that is set.
MCPayloads ==
  { <<Param(gain, Integer(5)), Param(gain, Integer(10))>>,
    <<Param(gain, Integer(5)), Param(iso, Integer(800))>>,
    <<Param(gain, Double(5)), Param(iso, Integer(200))>>,
    <<Param(iso, Text(s1)), Param(serial, Text(s1))>>,
    <<Param(ghost, Integer(1)), Param(gain, Integer(0))>>,
    <<Param(gain, Integer(5)), Param(iso, Invalid)>> }
=============================================================================
