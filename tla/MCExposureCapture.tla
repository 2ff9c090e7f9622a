------------------------- MODULE MCExposureCapture ---------------------------
(* Two settings, each with a value the camera refuses; texts as strings, an  *)
(* integer and a blank string among the values, a request that sets both.    *)
EXTENDS ExposureCapture, TLC

Str(t) == [type |-> "STRING", value |-> t]
Int4 == [type |-> "INTEGER", value |-> "400"]
Param(n, v) == [name |-> n, value |-> v]

MCOrder == <<"shutterspeed", "iso">>
MCNames == {"shutterspeed", "iso"}
MCDescriptor ==
  [n \in MCNames |-> [type |-> "STRING", readOnly |-> FALSE, dynamicTyping |-> TRUE,
                      integerRange |-> {}, floatRange |-> {}]]
MCInitial == [n \in MCNames |-> Str("")]
MCTextOf == Str("") :> "" @@ Str(" ") :> "" @@ Str("1/250") :> "1/250"
            @@ Int4 :> "400" @@ Str("fast") :> "fast"
MCChoices == [n \in MCNames |-> IF n = "iso" THEN {"100", "400"} ELSE {"1/60", "1/250"}]
MCPayloads ==
  { <<Param("shutterspeed", Str("1/250")), Param("iso", Int4)>>,
    <<Param("iso", Str("fast")), Param("shutterspeed", Str(" "))>> }

Symmetry == Permutations(Handlers)
=============================================================================
