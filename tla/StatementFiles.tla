--------------------------- MODULE StatementFiles ---------------------------
(***************************************************************************)
(* The files bank statements come in: how one is split into a header and   *)
(* rows (sniff.ts, parse-file.ts), what a spreadsheet hands on, and which  *)
(* rows look like an entry that is there already (similarity.ts,           *)
(* dedupe.ts); and the files an export writes (csv.ts, decimal-format.ts). *)
(* What the rows say is in Statements.  The lines of a statement have no   *)
(* quotes; a cell of it holds letters or a number.                         *)
(***************************************************************************)
EXTENDS Statements
LOCAL INSTANCE SequencesExt
LOCAL INSTANCE FiniteSetsExt
LOCAL INSTANCE Functions

CONSTANTS
  Letters,    \* bound: the letters of labels
  MaxLabel    \* bound: the length of labels

ASSUME FilesAssumption == MaxLabel \in Nat

-----------------------------------------------------------------------------
(* sniff.ts, parse-file.ts *)

Delimiters == <<";", ",", "tab", "|">>

cellsOf(text, separator) ==
  FoldLeft(LAMBDA cells, c : IF c = separator THEN Append(cells, << >>)
                             ELSE Front(cells) \o <<Append(Last(cells), c)>>,
           <<<< >>>>, text)

(* The first of those with the most cells that every line has; one whose   *)
(* lines differ comes last, one a line has not is out.                     *)
detectDelimiter(lines) ==
  LET cells(d) == {Len(cellsOf(lines[i], d)) : i \in DOMAIN lines}
      score(d) == IF Cardinality(cells(d)) = 1 THEN CHOOSE n \in cells(d) : TRUE ELSE 0
      able     == SelectSeq(Delimiters, LAMBDA d : \A n \in cells(d) : n >= 2)
      best     == {i \in DOMAIN able : \A j \in DOMAIN able :
                     score(able[i]) > score(able[j]) \/ (score(able[i]) = score(able[j]) /\ i <= j)}
  IN  IF best = {} THEN ";" ELSE able[CHOOSE i \in best : TRUE]

isNumber(text) ==
  /\ Range(text) \subseteq DOMAIN Digits \union {","} /\ Range(text) # {","}
  /\ Cardinality({i \in DOMAIN text : text[i] = ","}) <= 1

(* The first of ten rows with two labels, and nothing but different ones. *)
detectHeaderRowIndex(rows) ==
  LET labels(i) == SelectSeq(rows[i], LAMBDA text : text # << >>)
      headers   == {i \in DOMAIN rows : /\ i <= 10 /\ Len(labels(i)) >= 2 /\ IsInjective(labels(i))
                                        /\ \A text \in Range(labels(i)) : ~ isNumber(text)}
  IN  IF headers = {} THEN 1 ELSE Min(headers)

parseDelimitedText(lines) ==
  LET delimiter == detectDelimiter(SubSeq(lines, 1, Min({20, Len(lines)})))
      rows      == [i \in DOMAIN lines |-> cellsOf(lines[i], delimiter)]
      at        == detectHeaderRowIndex(rows)
  IN  [headers |-> rows[at], rows |-> SubSeq(rows, at + 1, Len(rows)), delimiter |-> delimiter]

(* The text of a spreadsheet's cell: a date is an ISO one, a number has a  *)
(* point and no zeros at its end.                                          *)
cellOfDate(d) == WrittenDate(d, "yyyy-MM-dd")

cellOfNumber(hundredths) ==
  LET decimals == Min({n \in 0..2 : hundredths % Tens[2 - n] = 0})
      frac     == Tail(DigitsOf[Tens[decimals] + ((hundredths \div Tens[2 - decimals]) % Tens[decimals])])
  IN  DigitsOf[hundredths \div 100] \o (IF decimals = 0 THEN << >> ELSE <<".">> \o frac)

-----------------------------------------------------------------------------
(* similarity.ts.  A score is a fraction; the floats of the program round  *)
(* it.                                                                     *)

(* The places of a that find one of b, in order, and where. *)
Matched(a, b) ==
  LET reach == Max({(Max({Len(a), Len(b)}) \div 2) - 1, 0})
      free(found, i) == {j \in DOMAIN b : /\ a[i] = b[j] /\ j \in i - reach..i + reach
                                          /\ \A k \in DOMAIN found : found[k][2] # j}
  IN  FoldLeft(LAMBDA found, i : IF free(found, i) = {} THEN found
                                 ELSE Append(found, <<i, Min(free(found, i))>>),
               << >>, [i \in DOMAIN a |-> i])

jaro(a, b) ==
  LET found == Matched(a, b)
      m     == Len(found)
      places == SetToSortSeq({found[k][2] : k \in DOMAIN found}, LAMBDA i, j : i < j)
      t     == Cardinality({k \in DOMAIN found : a[found[k][1]] # b[places[k]]})
  IN  IF a = b THEN [num |-> 1, den |-> 1]
      ELSE IF m = 0 THEN [num |-> 0, den |-> 1]
      ELSE [num |-> 2 * m * m * (Len(a) + Len(b)) + (2 * m - t) * Len(a) * Len(b),
            den |-> 6 * m * Len(a) * Len(b)]

jaroWinkler(a, b) ==
  LET score  == jaro(a, b)
      prefix == Max({n \in 0..Min({4, Len(a), Len(b)}) : SubSeq(a, 1, n) = SubSeq(b, 1, n)})
  IN  [num |-> 10 * score.num + prefix * (score.den - score.num), den |-> 10 * score.den]

(* dedupe.ts, for entries of the account with the amount; hours are *)
(* counted from midnight of the day of the row.                     *)
similar(a, b) == LET score == jaroWinkler(a, b) IN 20 * score.num >= 17 * score.den

findProbableDuplicate(candidate, existing) ==
  LET found == SelectSeq(existing, LAMBDA e : /\ Magnitude(e.at - candidate.at) <= 72
                                              /\ similar(e.label, candidate.label))
  IN  IF found = << >> THEN {} ELSE {Head(found)}

-----------------------------------------------------------------------------
(* csv.ts, decimal-format.ts: "quote", "cr" and "nl" are characters. *)
Joined(texts, between) == FoldLeft(LAMBDA text, more : text \o between \o more, texts[1], Tail(texts))

escapeCell(text, delimiter) ==
  IF Range(text) \intersect {delimiter, "quote", "nl", "cr"} = {} THEN text
  ELSE <<"quote">> \o FoldLeft(LAMBDA t, c : t \o (IF c = "quote" THEN <<c, c>> ELSE <<c>>), << >>, text)
         \o <<"quote">>

toCsv(rows, columns, delimiter) ==
  LET line(row) == Joined([i \in DOMAIN row |-> escapeCell(row[i], delimiter)], <<delimiter>>)
  IN  Joined(<<Joined(columns, <<delimiter>>)>> \o [i \in DOMAIN rows |-> line(rows[i])], <<"cr", "nl">>)

toDecimalString(n, minorUnits) ==
  LET abs  == Magnitude(n)
      frac == Tail(DigitsOf[Tens[minorUnits] + (abs % Tens[minorUnits])])
  IN  (IF n < 0 THEN <<"-">> ELSE << >>) \o DigitsOf[abs \div Tens[minorUnits]]
        \o (IF minorUnits > 0 THEN <<".">> \o frac ELSE << >>)

(* csv-parse: the rows of a text, with quotes. *)
csvParse(text, delimiter) ==
  LET put(s, c) == [s EXCEPT !.rows[Len(s.rows)][Len(Last(s.rows))] = Append(@, c)]
      read(s, c) ==
        CASE c = "quote" /\ s.at = "closed" -> [put(s, c) EXCEPT !.at = "quoted"]
          [] c = "quote" /\ s.at # "closed" -> [s EXCEPT !.at = IF @ = "quoted" THEN "closed" ELSE "quoted"]
          [] c # "quote" /\ s.at = "quoted" -> put(s, c)
          [] c = delimiter /\ s.at # "quoted" ->
               [rows |-> Front(s.rows) \o <<Append(Last(s.rows), << >>)>>, at |-> "plain"]
          [] c = "nl" /\ s.at # "quoted" -> [rows |-> Append(s.rows, <<<< >>>>), at |-> "plain"]
          [] c = "cr" /\ s.at # "quoted" -> s
          [] OTHER -> put(s, c)
  IN  FoldLeft(read, [rows |-> <<<<<< >>>>>>, at |-> "plain"], text).rows

-----------------------------------------------------------------------------
(* Properties *)

(* A file of columns is read as it was written when every line of it has   *)
(* the delimiter; under a title, or over a total, of one cell only one of  *)
(* semicolons is, and only under fewer than ten.  Commas in amounts do not *)
(* mislead the reader, and neither does a line with a cell too many.       *)
Columns == {<<<<"a">>, <<"b">>>>, <<<<"a">>, <<"b">>, <<"a", "b">>>>}

FilesRead ==
  \A delimiter \in Range(Delimiters), header \in Columns, amount \in {<<"1">>, <<"1", ",", "5">>},
     titles \in {0, 1, 9, 10}, totals \in 0..1, spare \in {<< >>, <<<<"b">>>>} :
    LET line(cells) == FoldLeft(LAMBDA text, cell : text \o <<delimiter>> \o cell, cells[1], Tail(cells))
        lone(n)     == [i \in 1..n |-> <<<<"a">>>>]
        row         == Append(Front(header), amount)
        rows        == <<row, row \o spare>> \o lone(totals)
        file        == lone(titles) \o <<header>> \o rows
        plain       == delimiter = ";" \/ titles + totals = 0
    IN  ("," \in Range(amount) => delimiter # ",") =>
          (parseDelimitedText([i \in DOMAIN file |-> line(file[i])])
             = [headers |-> header, rows |-> rows, delimiter |-> delimiter]
           <=> plain /\ titles < 10)

(* A date of a spreadsheet is read when dates are said to be ISO ones, and *)
(* refused otherwise.  An amount with decimals is read when they are said  *)
(* to follow a point; else it is refused, but where the point is said to   *)
(* group thousands: there another amount is read, and nobody is told.      *)
SpreadsheetsRead ==
  /\ \A d \in Looked, format \in DateFormats :
       parseDateWithFormat(cellOfDate(d), format) = IF format = "yyyy-MM-dd" THEN d ELSE NoDate
  /\ \A n \in WrittenAmounts, f \in Formats : f.minorUnits = 2 =>
       LET read == parseAmountToMinor(cellOfNumber(n), 2, f.decimal, f.thousand) IN
       IF f.decimal = "." \/ n % 100 = 0 THEN read = [refused |-> "", amount |-> n]
       ELSE IF f.thousand = "." THEN read.refused = "" /\ read.amount > n
       ELSE read.refused = "NON_NUMERIC"

(* Two labels are as similar one way as the other, and only equal ones are *)
(* wholly so; one with a slip after its first two letters, a letter that   *)
(* is another, is missing or changed places, is similar if it has four.    *)
Labels(lengths) == UNION {[1..n -> Letters] : n \in lengths}

Slips(a, i) ==
  {RemoveAt(a, i)} \union {[a EXCEPT ![i] = c] : c \in Letters}
    \union (IF i = Len(a) THEN {} ELSE {[a EXCEPT ![i] = a[i + 1], ![i + 1] = a[i]]})

SimilarityIsFair ==
  /\ \A a, b \in Labels(0..MaxLabel) :
       LET score == jaroWinkler(a, b)  other == jaroWinkler(b, a)
       IN  /\ score.num * other.den = other.num * score.den
           /\ score.num \in 0..score.den /\ (score.num = score.den <=> a = b)
  /\ \A a \in Labels(4..MaxLabel + 2) : \A i \in 3..Len(a) : \A b \in Slips(a, i) : similar(a, b)

(* A row is held back for an entry that says the same three days earlier   *)
(* or later, to the hour: one of the third day after is missed unless it   *)
(* is of midnight, and the first one that fits is shown.                   *)
DuplicatesFound ==
  LET label == <<"a", "b", "a", "b">>
      early == [at |-> -96, label |-> label]
  IN  \A hours \in -96..96 :
        LET entry == [at |-> hours, label |-> label] IN
        findProbableDuplicate([at |-> 0, label |-> label], <<early, entry, [entry EXCEPT !.at = 0]>>)
          = {IF hours \in -72..72 THEN entry ELSE [entry EXCEPT !.at = 0]}

(* What is exported is read back: every cell, whatever is written in it,   *)
(* and every amount.                                                       *)
ExportsReadBack ==
  /\ \A text \in UNION {[1..n -> {"a", ";", "quote", "nl", "cr"}] : n \in 0..3} :
       LET columns == <<<<"a">>, <<"b">>>>
           rows    == <<<<text, <<"a">>>>, <<<<"b">>, text>>>>
       IN  csvParse(toCsv(rows, columns, ";"), ";") = <<columns>> \o rows
  /\ \A n \in WrittenAmounts \union {-a : a \in WrittenAmounts}, f \in Formats :
       f.decimal = "." =>
         parseAmountToMinor(toDecimalString(n, f.minorUnits), f.minorUnits, ".", f.thousand)
           = [refused |-> "", amount |-> n]

(* What files say is read, and what is there already is seen. *)
StatementFilesRead ==
  FilesRead /\ SpreadsheetsRead /\ SimilarityIsFair /\ DuplicatesFound /\ ExportsReadBack

=============================================================================
