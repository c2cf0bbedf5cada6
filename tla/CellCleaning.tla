---------------------------- MODULE CellCleaning ----------------------------
(***************************************************************************)
(* What parseStringArrays and cleanObject make of a value, however deep    *)
(* its JSON is.  A value is <<"text", t>>, <<"json", v>> (a string that    *)
(* starts with a bracket and parses to v), <<"array", sequence>>, or       *)
(* <<"object", function on its keys>>.                                     *)
(***************************************************************************)
EXTENDS Naturals

CONSTANTS
    Values,     \* the values in files, all that is in them, and what is made of them
    Depth(_)    \* how deep a value is nested

IsComposite(v) == v[1] \in {"array", "object"}

Parts(v) ==
    IF v[1] = "json" THEN {v[2]}
    ELSE IF IsComposite(v) THEN {v[2][key] : key \in DOMAIN v[2]}
    ELSE {}

\* A value has one of the four forms, what is in it is a value too, and less deep.
\* JSON that starts with a bracket is of an array or an object.
ASSUME ValuesAssumption ==
    \A v \in Values :
        /\ v = <<v[1], v[2]>>
        /\ v[1] \in {"text", "json", "array", "object"}
        /\ IsComposite(v) => v[2] = [key \in DOMAIN v[2] |-> v[2][key]]
        /\ v[1] = "json" => IsComposite(v[2])
        /\ Depth(v) \in Nat
        /\ \A w \in Parts(v) : w \in Values /\ Depth(w) < Depth(v)

-----------------------------------------------------------------------------

\* A string under a key, parsed if it starts with a bracket.
ParseKey(v) == IF v[1] = "json" THEN v[2] ELSE v

\* Strings under a key are parsed, those in a list are not.
ParseStrings[v \in Values] ==
    CASE v[1] = "array" ->
            <<"array", [i \in DOMAIN v[2] |-> ParseStrings[v[2][i]]]>>
      [] v[1] = "object" ->
            <<"object", [key \in DOMAIN v[2] |-> ParseStrings[ParseKey(v[2][key])]]>>
      [] OTHER -> v

Timestamps == {"createdAt", "updatedAt", "deletedAt"}

CleanObject[v \in Values] ==
    CASE v[1] = "array" ->
            <<"array", [i \in DOMAIN v[2] |-> CleanObject[v[2][i]]]>>
      [] v[1] = "object" ->
            <<"object", [key \in DOMAIN v[2] \ Timestamps |-> CleanObject[v[2][key]]]>>
      [] OTHER -> v

ASSUME ClosedAssumption ==
    \A v \in Values : ParseStrings[v] \in Values /\ CleanObject[v] \in Values

\* Mutant of ProcessContactCleanup: cleaned before it is parsed.
CleanedFirst(v) == ParseStrings[CleanObject[v]]

ProcessContactCleanup(v) == CleanObject[ParseStrings[v]]

-----------------------------------------------------------------------------

KeysWithin[v \in Values] ==
    CASE v[1] = "array" -> UNION {KeysWithin[v[2][i]] : i \in DOMAIN v[2]}
      [] v[1] = "object" ->
            DOMAIN v[2] \cup UNION {KeysWithin[v[2][key]] : key \in DOMAIN v[2]}
      [] OTHER -> {}

=============================================================================
