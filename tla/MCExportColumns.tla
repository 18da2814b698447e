-------------------------- MODULE MCExportColumns --------------------------
(***************************************************************************)
(* ExportColumns for TLC: every environment variable unparsable, zero, one *)
(* or huge, and RDW's columns as they were when the code was written, and  *)
(* with every kind of change.                                              *)
(***************************************************************************)
EXTENDS ExportColumns

Env(a, b) == [v \in Variables |->
                IF v \in {"FUEL_RANGE_COUNT", "FUEL_CONCURRENCY"} THEN a ELSE b]

MCEnvironments ==
    {Env(a, b) : a \in {Unparsable, 0, 1}, b \in {Unparsable, 0, 1000000}}

Entry(f) == [field |-> f, name |-> Text(<<"RDW", f>>, "plain")]

\* The export fields and some others, in RDW's order.
Published == SelectSeq(FallbackVehicleFields,
                       LAMBDA f : f \in ToSet(VEHICLE_EXPORT_FIELDS)
                                        \cup {"laadvermogen", "plaats_chassisnummer"})
Usual == [i \in DOMAIN Published |-> Entry(Published[i])]
Without(f) == SelectSeq(Usual, LAMBDA e : e.field # f)

MCSchemas ==
    {Usual,
     Reverse(Usual),
     Without("merk"),
     Without("kenteken"),
     <<Entry("nieuw_veld")>> \o Usual,
     Append(Usual, [field |-> "merk", name |-> Text(<<"RDW, again", "merk">>, "formula")]),
     Append(Without("type"), [field |-> "type", name |-> NoName]),
     Append(Reverse(Usual), [field |-> NoField, name |-> NoName]),
     <<>>}

MCVehicles ==
    {[cells |-> << >>, fuels |-> << >>, exportStatus |-> "no_fuel_data"],
     [cells |-> [f \in {"merk", "breedte"} |->
                   IF f = "merk" THEN Text("merk", "formula") ELSE Text(f, "minusNumber")],
      fuels |-> <<Empty, Text("Benzine", "plain"), Text("Elektriciteit", "formula")>>,
      exportStatus |-> "ok"],
     [cells |-> [f \in {"merk", "type"} |->
                   IF f = "merk" THEN Empty ELSE Text(f, "minusText")],
      fuels |-> <<Text("-1", "minusNumber"), Text("-2", "minusNumber")>>,
      exportStatus |-> "ok"],
     [cells |-> << >>, fuels |-> <<Text("-1", "minusNumber"), Empty>>, exportStatus |-> "ok"]}

============================================================================
