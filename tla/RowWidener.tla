----------------------------- MODULE RowWidener -----------------------------
(***************************************************************************)
(* rdw-core/src/widen.rs: which columns an export has, its header, and the *)
(* cells of a joined row.                                                  *)
(*                                                                         *)
(* A text is known by what it says and by how it begins, which is all a    *)
(* spreadsheet looks at before it takes a cell for a formula.              *)
(***************************************************************************)
EXTENDS ExportFields, Integers, Sequences, FiniteSetsExt, SequencesExt

\* How a text begins: "formula" is =, +, @, a tab or a carriage return,
\* "minusNumber" is a minus in front of a number, "minusText" another minus,
\* "apostrophe" is what neutralize_formula puts in front.
Leads == {"plain", "formula", "minusNumber", "minusText", "apostrophe"}

Text(says, lead) == [says |-> <<says>>, lead |-> lead]
Empty == [says |-> <<>>, lead |-> "plain"]

NeutralizeFormula(t) ==
    IF t.lead \in {"formula", "minusText"} THEN [t EXCEPT !.lead = "apostrophe"] ELSE t

\* What a vehicle row, a map without its empty cells, has in a field.
FieldAsString(vehicle, field) ==
    IF field \in DOMAIN vehicle THEN NeutralizeFormula(vehicle[field]) ELSE Empty

\* filter and filter_map: what a sequence has at some places, in its order.
Kept(s, places) == FlattenSeq([i \in DOMAIN s |-> IF i \in places THEN <<s[i]>> ELSE <<>>])

\* Several texts joined with a comma are no number any more.
JoinedBrandstof(fuels) ==
    LET parts == Kept(fuels, {i \in DOMAIN fuels : fuels[i] # Empty})
        lead  == Head(parts).lead
    IN  IF parts = <<>> THEN Empty
        ELSE NeutralizeFormula(
               [says |-> FlattenSeq([i \in DOMAIN parts |-> parts[i].says]),
                lead |-> IF lead = "minusNumber" /\ Len(parts) > 1
                         THEN "minusText" ELSE lead])

\* Column: a field and RDW's label for it.
Fields(columns) == {columns[i].field : i \in DOMAIN columns}

\* Mutant: the columns RDW has are filtered in RDW's order.
VehicleColumnsMutant(columns) ==
    SelectSeq(columns, LAMBDA c : c.field \in ToSet(VEHICLE_EXPORT_FIELDS))

\* RowWidener::new: the export fields RDW has, in the order of the export; of
\* two columns for one field the last.
VehicleColumns(columns) ==
    LET fields == VEHICLE_EXPORT_FIELDS
        listed == Kept(fields, {i \in DOMAIN fields : fields[i] \in Fields(columns)})
        last(f) == Max({i \in DOMAIN columns : columns[i].field = f})
    IN  [i \in DOMAIN listed |-> columns[last(listed[i])]]

BRANDSTOF_HEADER == Text("Brandstof", "plain")
EXPORT_STATUS_HEADER == Text("Export status", "plain")

Header(vehicleColumns) ==
    [i \in DOMAIN vehicleColumns |-> NeutralizeFormula(vehicleColumns[i].display)]
    \o <<BRANDSTOF_HEADER, EXPORT_STATUS_HEADER>>

Widen(vehicleColumns, vehicle, fuels, exportStatus) ==
    [i \in DOMAIN vehicleColumns |-> FieldAsString(vehicle, vehicleColumns[i].field)]
    \o <<JoinedBrandstof(fuels), Text(exportStatus, "plain")>>

============================================================================
