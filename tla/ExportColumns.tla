--------------------------- MODULE ExportColumns ---------------------------
(***************************************************************************)
(* From the start of the server to the rows of an export, as far as their  *)
(* columns are concerned: the labels of RDW's columns are fetched once, at *)
(* startup (rdw-core/src/metadata.rs), and used by every export from then  *)
(* on, while RDW goes on changing its columns.  Rows are read by the       *)
(* header they come with (rdw-client/src/csv_parse.rs) and laid out by the *)
(* labels (RowWidener).                                                    *)
(***************************************************************************)
EXTENDS RowWidener, Settings

CONSTANTS
    Environments,   \* functions from Variables to numbers or Unparsable
    Schemas,        \* RDW's columns: sequences of entries [field, name]
    NoField,        \* an entry without fieldName
    NoName,         \* an entry without name
    Vehicles        \* a vehicle: its unusual texts by field, and its fuels

\* A text is empty or says one thing.  A label says what it is for, and whose
\* it is; RDW's are told from those compiled in.
IsText(t) == t = Empty \/ \E lead \in Leads : t = Text(t.says[1], lead)

IsLabel(t, field) ==
    \E lead \in Leads : t = Text(<<t.says[1][1], field>>, lead) /\ t.says[1][1] # "compiled in"

ASSUME ExportColumnsAssumption ==
    /\ \A entries \in Schemas :
         /\ entries \in Seq(ToSet(entries))
         /\ \A e \in ToSet(entries) : e.name = NoName \/ IsLabel(e.name, e.field)
    /\ \A v \in Vehicles :
         /\ v.fuels \in Seq(ToSet(v.fuels)) /\ \A t \in ToSet(v.fuels) : IsText(t)
         /\ \A f \in DOMAIN v.cells : IsText(v.cells[f])

VARIABLES
    config,         \* what main and AppState keep of the environment, or {}
    schema,         \* RDW's columns now
    metadata,       \* AppState::metadata, without the fuel columns, which
                    \* RowWidener::new takes and ignores
    pc,
    widener,        \* the vehicle_columns of the running export's RowWidener
    header,         \* the header its assembler was made with
    source,         \* history: the columns and the vehicle of the last row
    record          \* the row as it was widened

vars == <<config, schema, metadata, pc, widener, header, source, record>>
exportVars == <<widener, header, source, record>>

\* fallback_vehicle_columns: the labels are those compiled in.
FallbackVehicleColumns ==
    [i \in DOMAIN FallbackVehicleFields |->
       [field |-> FallbackVehicleFields[i],
        display |-> Text(<<"compiled in", FallbackVehicleFields[i]>>, "plain")]]

\* fetch_column_names, after get: an entry without fieldName fails the answer,
\* one without name is shown by its fieldName.
ColumnNames(entries) ==
    [i \in DOMAIN entries |->
       [field |-> entries[i].field,
        display |-> IF entries[i].name = NoName
                    THEN Text(<<"field", entries[i].field>>, "plain")
                    ELSE entries[i].name]]
AllNamed(entries) == \A i \in DOMAIN entries : entries[i].field # NoField

\* The header of a CSV page, and the cells of a vehicle under it.
CsvHeader(entries) ==
    LET columns == SelectSeq(entries, LAMBDA e : e.field # NoField)
    IN  [i \in DOMAIN columns |-> columns[i].field]

CellOf(v, field) == IF field \in DOMAIN v.cells THEN v.cells[field] ELSE Text(field, "plain")

CsvRecord(head, v) == [i \in DOMAIN head |-> CellOf(v, head[i])]

\* parse_csv_rows on the header: no column twice, and a kenteken.
HeaderIsSound(head) == IsInjective(head) /\ "kenteken" \in ToSet(head)

\* Mutant: the cells are taken in the order of the columns known since startup.
ParseRecordMutant(head, cells) ==
    LET known == {i \in DOMAIN metadata.vehicleColumns : i \in DOMAIN cells}
    IN  [f \in {metadata.vehicleColumns[i].field : i \in known} |->
           cells[Min({i \in known : metadata.vehicleColumns[i].field = f})]]

\* parse_csv_rows on a record: cells by the name of their column, without the
\* empty ones.
ParseRecord(head, cells) ==
    [f \in {head[i] : i \in {j \in DOMAIN cells : cells[j] # Empty}} |->
       cells[CHOOSE i \in DOMAIN head : head[i] = f]]

NoExport == /\ widener' = <<>> /\ header' = <<>> /\ source' = <<>> /\ record' = <<>>

Init ==
    /\ config = {}
    /\ schema \in Schemas
    /\ metadata = [vehicleColumns |-> <<>>, usedFallback |-> FALSE]
    /\ pc = "configure"
    /\ widener = <<>> /\ header = <<>> /\ source = <<>> /\ record = <<>>

----------------------------------------------------------------------------
\* RDW adds, drops, renames or reorders columns.
Republish ==
    /\ schema' \in Schemas \ {schema}
    /\ UNCHANGED <<config, metadata, pc, exportVars>>

Configure ==
    /\ pc = "configure"
    /\ \E env \in Environments : config' = {Config(env)}
    /\ pc' = "vehicleColumns"
    /\ UNCHANGED <<schema, metadata, exportVars>>

\* load_column_metadata, the vehicle dataset: RDW's labels, or the fallback
\* if they cannot be fetched or lack a fieldName.
LoadVehicleColumns ==
    /\ pc = "vehicleColumns"
    /\ \/ /\ AllNamed(schema)
          /\ metadata' = [metadata EXCEPT !.vehicleColumns = ColumnNames(schema)]
       \/ metadata' = [vehicleColumns |-> FallbackVehicleColumns, usedFallback |-> TRUE]
    /\ pc' = "fuelColumns"
    /\ UNCHANGED <<config, schema, exportVars>>

\* load_column_metadata, the fuel dataset.
LoadFuelColumns ==
    /\ pc = "fuelColumns"
    /\ \E failed \in BOOLEAN :
         metadata' = [metadata EXCEPT !.usedFallback = @ \/ failed]
    /\ pc' = "serving"
    /\ UNCHANGED <<config, schema, exportVars>>

\* run, step 5: a widener from the labels of the startup, and its header.
BeginExport ==
    /\ pc = "serving"
    /\ widener' = VehicleColumns(metadata.vehicleColumns)
    /\ header' = Header(widener')
    /\ pc' = "page"
    /\ UNCHANGED <<config, schema, metadata, source, record>>

\* A page with one vehicle arrives under RDW's columns of the moment, and is
\* widened; a header that is not sound fails the export.
FetchPage ==
    /\ pc = "page"
    /\ LET head == CsvHeader(schema)
       IN  IF HeaderIsSound(head)
           THEN /\ \E v \in Vehicles :
                     /\ source' = <<[head |-> head, vehicle |-> v]>>
                     /\ record' = Widen(widener, ParseRecord(head, CsvRecord(head, v)),
                                        v.fuels, v.exportStatus)
                /\ pc' = "row"
                /\ UNCHANGED <<widener, header>>
           ELSE NoExport /\ pc' = "serving"
    /\ UNCHANGED <<config, schema, metadata>>

EndExport ==
    /\ pc = "row"
    /\ NoExport
    /\ pc' = "serving"
    /\ UNCHANGED <<config, schema, metadata>>

Start == Configure \/ LoadVehicleColumns \/ LoadFuelColumns
Export == BeginExport \/ FetchPage \/ EndExport

Next == Republish \/ Start \/ Export

Spec == Init /\ [][Next]_vars

\* main runs until it serves: a fetch of labels ends (FetchClient).
FairSpec == Spec /\ WF_vars(Start)

----------------------------------------------------------------------------
\* The field a header cell labels, and its place in the export.
Labelled(cell) == cell.says[1][2]
Place(f) == CHOOSE i \in DOMAIN VEHICLE_EXPORT_FIELDS : VEHICLE_EXPORT_FIELDS[i] = f

Executes(cell) == cell.lead \in {"formula", "minusText"}

\* An export has its columns in the order the code gives them, each once and
\* only the curated ones, in whatever order RDW published its columns at
\* startup and however often; all of them if the fallback stepped in; then the
\* fuels, and the status last.  RDW's labels are shown wherever it gave one,
\* and none is taken for a formula.
HeaderIsCurated ==
    header # <<>> =>
        LET n == Len(header) - 2
            places == [i \in 1 .. n |-> Place(Labelled(header[i]))]
        IN  /\ \A i \in 1 .. n - 1 : places[i] < places[i + 1]
            /\ SubSeq(header, n + 1, n + 2) = <<BRANDSTOF_HEADER, EXPORT_STATUS_HEADER>>
            /\ \A f \in ToSet(VEHICLE_EXPORT_FIELDS) \cap Fields(metadata.vehicleColumns) :
                 \E i \in 1 .. n : Labelled(header[i]) = f
            /\ (\E i \in 1 .. n : header[i].says[1][1] = "compiled in") =>
                 metadata.usedFallback /\ n = Len(VEHICLE_EXPORT_FIELDS)
            /\ \A i \in DOMAIN header : ~ Executes(header[i])

\* Every cell stands under the label of its own field, although RDW may have
\* moved, added, dropped or renamed columns since the labels were fetched: a
\* column RDW no longer has is empty, one it has added is left out.  No cell
\* is taken for a formula, no number for a text, and nothing else is altered.
CellsUnderTheirHeader ==
    record # <<>> =>
        LET v    == source[1].vehicle
            head == source[1].head
            n    == Len(header) - 2
        IN  /\ Len(record) = Len(header)
            /\ \A i \in 1 .. n :
                 LET f == Labelled(header[i])
                     cell == IF f \in ToSet(head) THEN CellOf(v, f) ELSE Empty
                 IN  /\ record[i].says = cell.says
                     /\ record[i].lead = IF Executes(cell) THEN "apostrophe" ELSE cell.lead
            /\ record[n + 1].says = FlattenSeq([i \in DOMAIN v.fuels |-> v.fuels[i].says])
            /\ ~ Executes(record[n + 1])
            /\ Cardinality({i \in DOMAIN v.fuels : v.fuels[i] # Empty}) > 1 =>
                 record[n + 1].lead # "minusNumber"
            /\ record[n + 2] = Text(v.exportStatus, "plain")

\* What the other modules assume of their constants.
Usable(c) ==
    /\ c.rangeCount >= 1 /\ c.fuelConcurrency >= 1 /\ c.fuelKentekenBatch >= 1
    /\ c.pageSize \in 1 .. VEHICLE_PAGE_LIMIT
    /\ WorkersSpawned(c) \in 1 .. c.rangeCount

\* Whatever its environment says and RDW answers, the server comes up and stays
\* up, with settings under which an export makes progress.
StartsUsable ==
    <>[](pc \in {"serving", "page", "row"} /\ \A c \in config : Usable(c))

============================================================================
