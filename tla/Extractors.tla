----------------------------- MODULE Extractors -----------------------------
(***************************************************************************)
(* rdw-api/src/extractors.rs: what a request asks for, and whether it may. *)
(* A header or parameter that is absent is {}, one that is there a         *)
(* singleton.  Texts are trimmed, and brands in upper case.                *)
(***************************************************************************)
EXTENDS Integers, Sequences, SequencesExt, FiniteSets

Blank == "blank"             \* the empty text
Invalid == "invalid"         \* a key nobody has, a brand nobody sells, no number

\* extract_api_key: the header first, then the parameter, each if not blank.
ExtractApiKey(header, param) ==
    IF header \ {Blank} # {} THEN header ELSE param \ {Blank}

\* The places of the parts where parse_brands pushes a brand: neither blank nor
\* named before.
FirstMentions(parts) ==
    {i \in DOMAIN parts : parts[i] # Blank /\ \A j \in 1 .. i - 1 : parts[j] # parts[i]}

\* The n-th of a set of places.
Nth(places, n) ==
    CHOOSE i \in places : Cardinality({j \in places : j <= i}) = n

\* parse_brands, of the parts between the commas: no text means every brand,
\* an unknown brand or none at all is an error (Invalid), and a brand that is
\* named twice counts once.
ParseBrands(param, allowed) ==
    LET parts == CHOOSE p \in param : TRUE
        first == FirstMentions(parts)
    IN  IF param \in {{}, {<<Blank>>}} THEN allowed
        ELSE IF first = {} \/ \E i \in first : parts[i] \notin ToSet(allowed)
        THEN <<Invalid>>
        ELSE [n \in 1 .. Cardinality(first) |-> parts[Nth(first, n)]]

\* parse_limit: a number, or {} for no limit.
ParseLimit(param) == param \ {Blank}

\* Steps 1 and 2 of run: what refuses a request before it is counted.
RefusalOf(request, validKeys, allowed) ==
    LET key == ExtractApiKey(request.header, request.api_key)
    IN  IF key \cap validKeys = {} THEN "Unauthorized"
        ELSE IF ParseBrands(request.brands, allowed) = <<Invalid>>
                \/ ParseLimit(request.limit) = {Invalid} THEN "BadRequest"
        ELSE "none"

============================================================================
