------------------------------- MODULE Units -------------------------------
(***************************************************************************)
(* Units of measurement and their names.  A text is its first token, which *)
(* is a name of a prefix or "", and the rest of it, a name of a base unit  *)
(* or anything else: "kW" is [head |-> "k", rest |-> "W"].                 *)
(***************************************************************************)
EXTENDS Sequences, SequencesExt, FiniteSets

Invalid == [type |-> "Invalid"]    \* what cannot be read

\* The standard units, with their unique and display names.
UnitNames ==
    [Unity |-> <<"1", "">>, Second |-> <<"s", "s">>, Watt |-> <<"W", "W">>, Joule |-> <<"J", "J">>,
     Volt |-> <<"V", "V">>, Ampere |-> <<"A", "A">>, Hertz |-> <<"Hz", "Hz">>,
     DegreeCelsius |-> <<"Cel", "oC">>, DegreeFahrenheit |-> <<"[degF]", "oF">>,
     WattHour |-> <<"W.h", "Wh">>, Byte |-> <<"By", "B">>, Percent |-> <<"%", "%">>]

\* The prefixes, with their unique and display names.
PrefixNames ==
    [Nano |-> <<"nano", "n">>, Micro |-> <<"micro", "u">>, Milli |-> <<"milli", "m">>,
     Plain |-> <<"", "">>, Kilo |-> <<"kilo", "k">>, Mega |-> <<"mega", "M">>, Giga |-> <<"giga", "G">>]

StandardUnit(u) == [type |-> u, unique |-> UnitNames[u][1], display |-> UnitNames[u][2]]
CustomUnit(unique, display) == [type |-> "Custom", unique |-> unique, display |-> display]

WithPrefix(unit, prefix) == [base |-> unit, prefix |-> prefix]

UniqueName(p) == [head |-> PrefixNames[p.prefix][1], rest |-> p.base.unique]
DisplayName(p) == [head |-> PrefixNames[p.prefix][2], rest |-> p.base.display]

\* Only unique names of standard units are parsed, never those of custom ones.
ParseUnit(name) ==
    IF \E u \in DOMAIN UnitNames : UnitNames[u][1] = name
    THEN StandardUnit(CHOOSE u \in DOMAIN UnitNames : UnitNames[u][1] = name)
    ELSE Invalid

ParsePrefix(name) ==
    IF \E p \in DOMAIN PrefixNames : name \in Range(PrefixNames[p])
    THEN CHOOSE p \in DOMAIN PrefixNames : name \in Range(PrefixNames[p])
    ELSE "invalid"

\* Mutant of PrefixOrder: from the shortest name to the longest one.
PrefixOrderShortest == <<"G", "M", "k", "m", "u", "n", "giga", "mega", "kilo", "milli", "micro", "nano", "">>

\* The names of prefixes in the order in which a text is compared with them.
PrefixOrder == <<"giga", "mega", "kilo", "milli", "micro", "nano", "G", "M", "k", "m", "u", "n", "">>

\* The texts of which a name of a prefix is a proper beginning.
Beginnings == [k |-> {"kilo"}, m |-> {"mega", "milli", "micro"}, n |-> {"nano"}]

StartsWith(text, prefix) ==
    \/ prefix \in {"", text.head}
    \/ prefix \in DOMAIN Beginnings /\ text.head \in Beginnings[prefix]

\* PrefixedUnit::from_str: the first prefix that fits decides, and what follows it must be a
\* unit ("m/s" is not one).
ParsePrefixedUnit(text) ==
    LET first == CHOOSE i \in DOMAIN PrefixOrder :
                    /\ StartsWith(text, PrefixOrder[i])
                    /\ \A j \in 1..(i - 1) : ~StartsWith(text, PrefixOrder[j])
        unit == ParseUnit(text.rest)
    IN IF PrefixOrder[first] # text.head \/ unit = Invalid THEN Invalid
       ELSE WithPrefix(unit, ParsePrefix(text.head))
===============================================================================
