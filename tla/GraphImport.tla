------------------------------- MODULE GraphImport -------------------------------
(***************************************************************************)
(* The partner graph import of examples/graph-import-export.  A caller     *)
(* exports records of its own or those of its last import, imports files   *)
(* of its own or of a partner in either format, and runs the demonstration *)
(* that compares the formats; its context may be cancelled at any moment.  *)
(* Of a record's properties the partner and one more value are kept.       *)
(***************************************************************************)
EXTENDS Integers, Sequences, SequencesExt

CONSTANTS
    Sources,      \* sequences of records that callers export
    Files,        \* [format, records] files of partners; vertices come first
    Fixture,      \* the records of DefaultFixture
    Partner,      \* the named partner
    Calls,        \* [format, partner, limits] imports; an option of 0 is the default
    Default,      \* DefaultOptions
    Safe,         \* maxSafeJSONInteger, 2^53 in the code
    MaxInt        \* math.MaxInt64

Formats == {"ndjson", "graphml"}
UnlimitedRecords == -1

ImportAssumption ==
    /\ Safe \in Nat /\ Safe % 4 = 0 /\ Safe < MaxInt
    /\ \A f \in Files : f.format \in Formats
    /\ Default.bytes \in 1 .. MaxInt - 1 /\ Default.records > 0

VARIABLES
    pc,       \* where the call stands
    call,     \* the call: its operation, format, partner, options and records
    expired,  \* whether its context is cancelled
    outcome,  \* how the last call ended
    file,     \* what Import reads and Export has written, the buffer of RunDemo too
    origin,   \* the records the file was exported from, <<>> for a partner's file
    result,   \* Result.Records of the last import
    runs      \* the results the last RunDemo has collected

vars == <<pc, call, expired, outcome, file, origin, result, runs>>

NoCall == [op |-> "none", format |-> "none", partner |-> "none", limits |-> Default,
           records |-> <<>>]
NoFile == [format |-> "none", records |-> <<>>]

TypeOK ==
    /\ pc \in {"idle", "loop", "export", "import", "parse", "normalize"}
    /\ expired \in BOOLEAN
    /\ outcome \in {"none", "exported", "imported", "equivalent", "cancelled", "invalid_partner",
          "invalid_format", "invalid_options", "input_too_large", "malformed_input",
          "duplicate_vertex", "missing_endpoint", "duplicate_record", "non_scalar_property",
          "unsupported_record", "invalid_graph", "snapshot_mismatch"}
    /\ file.format \in Formats \union {"none"}
    /\ Len(runs) <= 2

Init ==
    /\ pc = "idle"
    /\ call = NoCall
    /\ expired = FALSE
    /\ outcome = "none"
    /\ file = NoFile
    /\ origin = <<>>
    /\ result = <<>>
    /\ runs = <<>>

--------------------------------------------------------------------------------
\* Numbers.  A number is [type, n]; "fraction" is a float64 that is no integer.  A
\* float64 beyond Safe is a multiple of two, ties go to a multiple of four.
Number(type, n) == [type |-> type, n |-> n]
Double(n) ==
    IF n \in -Safe .. Safe \/ n % 2 = 0 THEN n ELSE IF (n + 1) % 4 = 0 THEN n + 1 ELSE n - 1

IsScalar(v) == v.type \in {"int", "float", "fraction"} \/ (v.type = "uint" /\ v.n <= MaxInt)

\* normalizeFloat: what is left of a whole float64 when it comes from JSON.
normalizeFloat(v, coerce) ==
    IF coerce /\ v.type = "float" /\ -Safe <= v.n /\ v.n <= Safe THEN Number("int", v.n) ELSE v

\* normalizeScalar, of a value that is one.
normalizeScalar(v, coerce) ==
    IF v.type = "uint" THEN Number("int", v.n) ELSE normalizeFloat(v, coerce)

\* What a format makes of the value Export gives it: JSON has one type of number, GraphML
\* declares the type of each attribute.
Decoded(v, format) == IF format = "ndjson" /\ v.type = "int" THEN Number("float", Double(v.n)) ELSE v

\* What a value looks like in the JSON that snapshotsEqual compares.
Shown(v) == IF v.type \in {"int", "float"} THEN v.n ELSE v

--------------------------------------------------------------------------------
IDs(s, kind) == {s[i].id : i \in {j \in DOMAIN s : s[j].kind = kind}}
Dangling(s) ==
    \E i \in DOMAIN s : s[i].kind = "edge" /\ ~({s[i].from, s[i].to} \subseteq IDs(s, "vertex"))

\* The first fault of a sequence of records, in the order they are looked at.
FirstFault(s, Fault(_)) ==
    LET at == SelectInSeq([i \in DOMAIN s |-> Fault(i)], LAMBDA f : f # "none")
    IN IF at = 0 THEN "none" ELSE Fault(at)

\* canonicalRecords: an id is taken once among vertices and edges together, every
\* property is a scalar, every edge has its ends.
RecordFault(s, i) ==
    IF \E j \in 1 .. i - 1 : s[j].id = s[i].id THEN "duplicate_record"
    ELSE IF ~IsScalar(s[i].value) THEN "non_scalar_property"
    ELSE "none"

canonicalFault(s) ==
    LET first == FirstFault(s, LAMBDA i : RecordFault(s, i))
    IN IF first = "none" /\ Dangling(s) THEN "missing_endpoint" ELSE first

\* canonicalRecords, of records without a fault: vertices, then edges, each by id.
canonicalRecords(s, coerce) ==
    LET normalized == {[s[i] EXCEPT !.value = normalizeScalar(@, coerce)] : i \in DOMAIN s}
        ByID(kind) == SetToSortSeq({x \in normalized : x.kind = kind}, LAMBDA x, y : x.id < y.id)
    IN ByID("vertex") \o ByID("edge")

\* normalizeDomain looks at the vertices of the canonical records before the edges.
LabelOf(c, id) == (CHOOSE x \in ToSet(c) : x.kind = "vertex" /\ x.id = id).label
DomainFault(c, x, partner) ==
    IF x.kind = "vertex"
    THEN IF x.label \notin {"Account", "Device"} THEN "unsupported_record"
         ELSE IF x.partner # partner THEN "invalid_graph" ELSE "none"
    ELSE IF x.label # "USES_DEVICE" THEN "unsupported_record"
         ELSE IF LabelOf(c, x.from) # "Account" \/ LabelOf(c, x.to) # "Device"
              THEN "invalid_graph" ELSE "none"

normalizeDomain(c, partner) == FirstFault(c, LAMBDA i : DomainFault(c, c[i], partner))

--------------------------------------------------------------------------------
\* The options of a call, and whether normalizeOptions takes them.  A record counts as a
\* byte; the limits on a line and on one record work like the one on the records.
normalizeOptions(limits) ==
    [bytes |-> IF limits.bytes = 0 THEN Default.bytes ELSE limits.bytes,
     records |-> IF limits.records = 0 THEN Default.records ELSE limits.records]
ValidOptions(o) ==
    /\ o.bytes >= 0 /\ o.bytes <= MaxInt - 1
    /\ o.records >= 0 \/ o.records = UnlimitedRecords

\* A call returns; RunDemo returns what a call of its own returned.
Return(code) ==
    /\ outcome' = code
    /\ IF call.op = "demo" /\ code = "exported" THEN pc' = "import"
       ELSE IF call.op = "demo" /\ code = "imported" THEN pc' = "loop"
       ELSE pc' = "idle"

StartExport(format, source) ==
    /\ pc = "idle"
    /\ call' = [NoCall EXCEPT !.op = "export", !.format = format, !.records = source]
    /\ expired' = FALSE
    /\ pc' = "export"
    /\ UNCHANGED <<outcome, file, origin, result, runs>>

\* Export, up to the writer: a file that is not written leaves the previous one.
Export ==
    /\ pc = "export"
    /\ LET fault == canonicalFault(call.records)
           Refuse(code) == Return(code) /\ UNCHANGED <<file, origin>>
       IN IF call.format \notin Formats THEN Refuse("invalid_format")
          ELSE IF expired THEN Refuse("cancelled")
          ELSE IF fault # "none" THEN Refuse(fault)
          ELSE /\ file' = [format |-> call.format, records |-> canonicalRecords(call.records, FALSE)]
               /\ origin' = call.records
               /\ Return("exported")
    /\ UNCHANGED <<call, expired, result, runs>>

\* The caller reads the file it has, or one of a partner.
StartImport(c, f) ==
    /\ pc = "idle" /\ f # NoFile
    /\ call' = [op |-> "import", format |-> c.format, partner |-> c.partner, limits |-> c.limits,
                records |-> <<>>]
    /\ IF f = file THEN UNCHANGED <<file, origin>> ELSE file' = f /\ origin' = <<>>
    /\ expired' = FALSE
    /\ pc' = "import"
    /\ UNCHANGED <<outcome, result, runs>>

\* Import up to readBounded, which reads one byte more than it takes.
ReadBounded ==
    /\ pc = "import"
    /\ LET limits == normalizeOptions(call.limits)
       IN IF call.partner = "" THEN Return("invalid_partner")
          ELSE IF call.format \notin Formats THEN Return("invalid_format")
          ELSE IF ~ValidOptions(limits) THEN Return("invalid_options")
          ELSE IF expired THEN Return("cancelled")
          ELSE IF Len(file.records) > limits.bytes THEN Return("input_too_large")
          ELSE pc' = "parse" /\ UNCHANGED outcome
    /\ UNCHANGED <<call, expired, file, origin, result, runs>>

\* graphio.ReadNDJSON and graphml.Read with the policies and limits of readRecords.
ReadRecords ==
    /\ pc = "parse"
    /\ LET limit == normalizeOptions(call.limits).records
           vertices == SelectSeq(file.records, LAMBDA x : x.kind = "vertex")
       IN IF expired THEN Return("cancelled")
          ELSE IF file.format # call.format \/ limit \in 0 .. Len(file.records) - 1
               THEN Return("malformed_input")
          ELSE IF ~IsInjective([i \in DOMAIN vertices |-> vertices[i].id])
               THEN Return("duplicate_vertex")
          ELSE IF Dangling(file.records) THEN Return("missing_endpoint")
          ELSE pc' = "normalize" /\ UNCHANGED outcome
    /\ UNCHANGED <<call, expired, file, origin, result, runs>>

\* The end of Import; a result is only returned when the context still stands.
Normalize ==
    /\ pc = "normalize"
    /\ LET read == [i \in DOMAIN file.records |->
                       [file.records[i] EXCEPT !.value = Decoded(@, call.format)]]
           canonical == canonicalRecords(read, call.format = "ndjson")
           fault == IF canonicalFault(read) # "none" THEN canonicalFault(read)
                    ELSE normalizeDomain(canonical, call.partner)
       IN IF expired THEN Return("cancelled") /\ UNCHANGED <<result, runs>>
          ELSE IF fault # "none" THEN Return(fault) /\ UNCHANGED <<result, runs>>
          ELSE /\ result' = canonical
               /\ runs' = IF call.op = "demo" THEN Append(runs, canonical) ELSE runs
               /\ Return("imported")
    /\ UNCHANGED <<call, expired, file, origin>>

--------------------------------------------------------------------------------
StartDemo ==
    /\ pc = "idle"
    /\ call' = [NoCall EXCEPT !.op = "demo", !.partner = Partner, !.records = Fixture]
    /\ runs' = <<>>
    /\ expired' = FALSE
    /\ pc' = "loop"
    /\ UNCHANGED <<outcome, file, origin, result>>

snapshotsEqual(s, t) ==
    LET View(x) == [i \in DOMAIN x |-> [x[i] EXCEPT !.value = Shown(@)]] IN View(s) = View(t)

\* RunDemo: the fixture goes through one format after the other.
RunDemo ==
    /\ pc = "loop"
    /\ IF Len(runs) = 2
       THEN /\ outcome' = IF snapshotsEqual(runs[1], runs[2]) THEN "equivalent" ELSE "snapshot_mismatch"
            /\ pc' = "idle"
            /\ runs' = <<>>
            /\ UNCHANGED call
       ELSE IF expired
       THEN outcome' = "cancelled" /\ pc' = "idle" /\ runs' = <<>> /\ UNCHANGED call
       ELSE /\ call' = [call EXCEPT !.format = IF runs = <<>> THEN "ndjson" ELSE "graphml"]
            /\ pc' = "export"
            /\ UNCHANGED <<outcome, runs>>
    /\ UNCHANGED <<expired, file, origin, result>>

Cancel ==
    /\ pc # "idle" /\ ~expired
    /\ expired' = TRUE
    /\ UNCHANGED <<pc, call, outcome, file, origin, result, runs>>

Next ==
    \/ \E format \in Formats \union {"csv"}, s \in Sources \union {result} : StartExport(format, s)
    \/ \E c \in Calls, f \in Files \union {file} : StartImport(c, f)
    \/ StartDemo
    \/ Export
    \/ ReadBounded
    \/ ReadRecords
    \/ Normalize
    \/ RunDemo
    \/ Cancel

--------------------------------------------------------------------------------
Imported == pc = "idle" /\ outcome = "imported" /\ call.op = "import"

\* Import fails closed: what it returns is a graph of accounts and devices of the partner
\* alone, by ascending id, and holds every record of the file.
ImportIsAGraph ==
    Imported =>
        LET kinds == [x \in IDs(result, "vertex") |-> LabelOf(result, x)]
        IN /\ \A i, j \in DOMAIN result : i < j =>
                 \/ result[i].kind = "vertex" /\ result[j].kind = "edge"
                 \/ result[i].kind = result[j].kind /\ result[i].id < result[j].id
           /\ IDs(result, "vertex") \intersect IDs(result, "edge") = {}
           /\ \A kind \in {"vertex", "edge"} : IDs(result, kind) = IDs(file.records, kind)
           /\ \A x \in ToSet(result) : IF x.kind = "vertex" THEN x.partner = call.partner
                 ELSE kinds[x.from] = "Account" /\ kinds[x.to] = "Device"

\* Through any number of exports and imports in either format a graph stays what it is:
\* an integer within the safe range keeps its value and its type, and every other number
\* its value.  Neither format refuses what the other has given.
SafeNumbers(s) == \A i \in DOMAIN s : s[i].value.type = "int" => s[i].value.n \in -Safe .. Safe
RoundTripsAreFaithful ==
    /\ Imported /\ origin # <<>> /\ SafeNumbers(origin) =>
          \A x \in ToSet(origin), y \in ToSet(result) : x.id = y.id =>
              /\ [x EXCEPT !.value = 0] = [y EXCEPT !.value = 0]
              /\ Shown(normalizeScalar(x.value, FALSE)) = Shown(y.value)
              /\ x.value.type = "int" => y.value.type = "int"
    /\ pc = "idle" /\ call.op = "demo" => outcome \in {"equivalent", "cancelled"}

================================================================================
