-------------------------------- MODULE CsvOutput --------------------------------
(***************************************************************************)
(* The output of the plugin csv (src/plugins/csv).  The columns are those  *)
(* of the attributes of the first buffer; the attributes that come later   *)
(* share a last column.  A text is a sequence of characters.               *)
(***************************************************************************)
EXTENDS Integers, Sequences, SequencesExt, FiniteSets, Functions

CONSTANTS
    CsvKeys,       \* names of attributes; none is the name of a column of its own
    CsvValues,     \* values of attributes, without a backslash
    MaxCsvLines    \* bound: points written

Delimiter == "delimiter"
LateDelimiter == "late delimiter"
QuoteMark == "quote"
LineBreaks == {"newline", "carriage return"}
Backslash == "backslash"
EqualSign == "="
CsvColumns == <<"metric", "value">>     \* of the seven columns, two that hold a value

\* A name is one character of its own: the names of the attributes are not escaped, and the
\* code expects none with an equal sign or a delimiter.
ASSUME CsvAssumption ==
    /\ IsFiniteSet(CsvKeys) /\ MaxCsvLines \in Nat
    /\ CsvKeys \intersect (LineBreaks \union {Delimiter, LateDelimiter, QuoteMark, Backslash, EqualSign}) = {}
    /\ CsvKeys \intersect ToSet(CsvColumns) = {}
    /\ \A v \in CsvValues : v \in Seq(ToSet(v)) /\ Backslash \notin ToSet(v)

VARIABLES
    csvHeader,     \* columns of the header, <<>> before it is written
    csvLines,      \* lines of the file
    csvWritten     \* points given to the output

csvVars == <<csvHeader, csvLines, csvWritten>>

CsvInit == csvHeader = <<>> /\ csvLines = <<>> /\ csvWritten = <<>>

CsvPoints ==
    UNION {[ks -> CsvValues] : ks \in SUBSET CsvKeys}

Flat(seqs) ==
    LET flat[i \in 0..Len(seqs)] == IF i = 0 THEN <<>> ELSE flat[i - 1] \o seqs[i] IN flat[Len(seqs)]
Replaced(s, c, by) == Flat([i \in DOMAIN s |-> IF s[i] = c THEN by ELSE <<s[i]>>])

\* Mutant of EscapeString: the quotes inside of a quoted cell are not doubled.
EscapeStringOnce(s) ==
    IF ToSet(s) \intersect ({Delimiter, QuoteMark} \union LineBreaks) # {}
    THEN <<QuoteMark>> \o s \o <<QuoteMark>> ELSE s

\* CsvParams::escape_string.
EscapeString(s) ==
    IF ToSet(s) \intersect ({Delimiter, QuoteMark} \union LineBreaks) # {}
    THEN <<QuoteMark>> \o Replaced(s, QuoteMark, <<QuoteMark, QuoteMark>>) \o <<QuoteMark>> ELSE s

\* Mutant of EscapeLate: the late delimiter is not escaped inside of a value.
EscapeLateNot(s) == s

\* CsvParams::escape_string_late.
EscapeLate(s) == Replaced(s, LateDelimiter, <<Backslash, LateDelimiter>>)

\* CsvOutput::write: the cells of a point by column; p is the attributes of the point.
DataOf(p) ==
    [c \in ToSet(CsvColumns) \union DOMAIN p |-> IF c \in DOMAIN p THEN p[c] ELSE <<c>>]

\* CsvWriter::write_line: the cells of the known columns, then the others in one cell.
CsvLine(header, data) ==
    LET known == Flat([i \in DOMAIN header |->
                    (IF header[i] \in DOMAIN data THEN EscapeString(data[header[i]]) ELSE <<>>)
                    \o <<Delimiter>>])
        late == SetToSeq(DOMAIN data \ ToSet(header))
        texts == [i \in DOMAIN late |-> <<late[i], EqualSign>> \o EscapeLate(data[late[i]])
                    \o (IF i = Len(late) THEN <<>> ELSE <<LateDelimiter>>)]
    IN known \o EscapeString(Flat(texts))

\* collect_attribute_keys and the header, at the first write; the order of the keys is the
\* alphabetical one.
HeaderOf(points) ==
    CsvColumns \o SetToSeq(UNION {DOMAIN points[i] : i \in DOMAIN points})

\* CsvOutput::write.  An empty buffer writes the header too.
WriteCsv(points) ==
    LET header == IF csvHeader = <<>> THEN HeaderOf(points) ELSE csvHeader IN
    /\ Len(csvWritten) + Len(points) =< MaxCsvLines
    /\ csvHeader' = header
    /\ csvLines' = csvLines \o [i \in DOMAIN points |-> CsvLine(header, DataOf(points[i]))]
    /\ csvWritten' = csvWritten \o points

CsvNext == \E n \in 0..MaxCsvLines : \E points \in [1..n -> CsvPoints] : WriteCsv(points)

CsvSpec == CsvInit /\ [][CsvNext]_csvVars

-------------------------------------------------------------------------------
(* The reader of the file.                                                     *)

Reading(cells, cell, quoted, closed) ==
    [cells |-> cells, cell |-> cell, quoted |-> quoted, closed |-> closed]

\* The next character of a line (RFC 4180).
ReadCell(s, c) ==
    IF c = QuoteMark
    THEN IF s.quoted THEN Reading(s.cells, s.cell, FALSE, TRUE)
         ELSE Reading(s.cells, IF s.closed THEN Append(s.cell, c) ELSE s.cell, TRUE, FALSE)
    ELSE IF c = Delimiter /\ ~s.quoted THEN Reading(Append(s.cells, s.cell), <<>>, FALSE, FALSE)
    ELSE Reading(s.cells, Append(s.cell, c), s.quoted, FALSE)

\* The cells of a line.
CellsOf(line) ==
    LET read[i \in 0..Len(line)] ==
            IF i = 0 THEN Reading(<<>>, <<>>, FALSE, FALSE) ELSE ReadCell(read[i - 1], line[i])
        end == read[Len(line)]
    IN Append(end.cells, end.cell)

ReadingLate(done, text, escaped) == [done |-> done, text |-> text, escaped |-> escaped]

\* The next character of the last column.
ReadLate(s, c) ==
    IF c = Backslash /\ ~s.escaped THEN ReadingLate(s.done, s.text, TRUE)
    ELSE IF c = LateDelimiter /\ ~s.escaped THEN ReadingLate(Append(s.done, s.text), <<>>, FALSE)
    ELSE ReadingLate(s.done, Append(s.text, c), FALSE)

\* The texts of the last column, none if it is empty.
LateTexts(cell) ==
    LET read[i \in 0..Len(cell)] ==
            IF i = 0 THEN ReadingLate(<<>>, <<>>, FALSE) ELSE ReadLate(read[i - 1], cell[i])
        end == read[Len(cell)]
    IN IF cell = <<>> THEN <<>> ELSE Append(end.done, end.text)

\* The attributes of the last column, each a name, an equal sign and a value.
LateOf(cell) ==
    LET texts == LateTexts(cell) IN
    [k \in {texts[i][1] : i \in DOMAIN texts} |->
        LET i == CHOOSE j \in DOMAIN texts : texts[j][1] = k IN SubSeq(texts[i], 3, Len(texts[i]))]

-------------------------------------------------------------------------------
(* Properties.                                                                 *)

\* Every line has the cells of the header and the last one, in which the point is found
\* again, whatever its values contain and whenever its attributes have appeared; an
\* attribute without a value and an empty one look the same in a column.
CsvIsReadable ==
    \A i \in DOMAIN csvLines :
        LET cells == CellsOf(csvLines[i])
            data == DataOf(csvWritten[i])
        IN /\ Len(cells) = Len(csvHeader) + 1
           /\ \A n \in DOMAIN csvHeader :
                cells[n] = IF csvHeader[n] \in DOMAIN data THEN data[csvHeader[n]] ELSE <<>>
           /\ LateOf(Last(cells)) =
                [k \in DOMAIN data \ ToSet(csvHeader) |-> data[k]]
================================================================================
