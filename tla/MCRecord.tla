------------------------------- MODULE MCRecord ------------------------------
EXTENDS Record, TLC

Template(dotted, dir, time, precision, dated) ==
  [dotted |-> dotted, dir |-> dir, time |-> time, precision |-> precision, dated |-> dated]

(* rec/%path/<time>, and the same as the default is written. *)
Plain  == Template(FALSE, <<"rec">>, <<"time">>, 1, TRUE)
Dotted == Template(TRUE, <<"rec">>, <<"time">>, 1, TRUE)
(* rec/old/%path/<time>, which Plain encloses. *)
Nested == Template(FALSE, <<"rec", "old">>, <<"time">>, 1, TRUE)
(* rec/%path/<day>/<hour>, and rec/%path/<hour>, which is found in it and has no year. *)
Daily  == Template(FALSE, <<"rec">>, <<"day", "hour">>, 2, TRUE)
Hourly == Template(FALSE, <<"rec">>, <<"hour">>, 1, FALSE)

MCTemplates == {Plain, Dotted, Nested, Daily, Hourly}
DefaultTemplates == {Dotted}

(* A path with a name of one element, and one whose name holds the directory again. *)
CONSTANTS p, q
MCNames == p :> <<"cam">> @@ q :> <<"a", "rec", "b">>
FlatNames == p :> <<"cam">> @@ q :> <<"door">>
=============================================================================
