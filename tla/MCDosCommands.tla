--------------------------- MODULE MCDosCommands ---------------------------
(* The commands of channel 15 on an instance: dates before the turn of the     *)
(* century, before a 29th of February and where day and year go over 2047,     *)
(* noon and midnight; seven programs, one of them unknown and with the first   *)
(* block of a known one, one only data.                                     *)
EXTENDS DosCommands

D(y, m, d) == [year |-> y, mon |-> m, mday |-> d]
MCDates  == {D(99, 11, 31), D(116, 1, 28), D(143, 11, 31)}
MCTimes  == {43199, 86399}
MCSpans  == {1, 1095}
MCBuilds == {{}, {"ds"}, {"pcf"}, {"lpc"}, {"soft"}, {"pcf", "soft"}}

P(n, t, code, d, e, x, c) ==
  [name |-> n, type |-> t, code |-> code, detect |-> d, entries |-> e, rxtx |-> x, capture |-> c]
MCPrograms ==
  {P("turbodisk", "turbodisk", <<"t1", "t2">>, 2, {771}, Nothing, Nothing),
   P("fc3_save", "fc3_save", <<"f1", "f2">>, 1, {1280}, Nothing, Nothing),
   P("geos_s1_64", "geos_s1_64", <<"g1", "g2", "g3">>, 2, {1111}, "geos_1mhz", [from |-> 3, length |-> 3]),
   P("geos_1541", "geos_s23", <<"h1">>, 1, {994}, "geos_1mhz", Nothing),
   P("geos_1571", "geos_s23", <<"h2">>, 1, {994}, "geos_2mhz", Nothing),
   P("unknown", "unknown", <<"t1", "u2">>, 0, {771, 1283}, Nothing, Nothing),
   P("data", "data", <<"d1">>, 0, {}, Nothing, Nothing)}
=============================================================================
