----------------------------- MODULE Statements -----------------------------
(***************************************************************************)
(* What an import reads in the rows of a bank statement: its amounts, its  *)
(* dates and the three layouts of a row (amount-parser.ts, parse-date.ts,  *)
(* map-row.ts), and the recurrences that are suggested from the dates of   *)
(* entries (suggestions.ts).  A text is a sequence of characters, of which *)
(* those are kept that the parser tells apart; "cur" stands for a currency *)
(* symbol and "nbsp" for either no-break space.                            *)
(***************************************************************************)
EXTENDS Calendar
LOCAL INSTANCE SequencesExt
LOCAL INSTANCE FiniteSetsExt
LOCAL INSTANCE Functions

CONSTANTS
  WrittenAmounts,    \* bound: the amounts that are written down, in minor units
  MaxText            \* bound: the length of the texts that are tried

ASSUME StatementsAssumption == WrittenAmounts \subseteq Nat /\ MaxText \in Nat

-----------------------------------------------------------------------------
(* amount-parser.ts *)

Digits == [c \in {"0", "1", "2", "5"} |->
             CASE c = "0" -> 0 [] c = "1" -> 1 [] c = "2" -> 2 [] c = "5" -> 5]

Tens[n \in Nat] == IF n = 0 THEN 1 ELSE 10 * Tens[n - 1]

Number(text) == FoldLeft(LAMBDA n, c : 10 * n + Digits[c], 0, text)

Without(text, chars) == SelectSeq(text, LAMBDA c : c \notin chars)

trim(text) ==
  LET inked == {i \in DOMAIN text : text[i] # " "}
  IN  IF inked = {} THEN << >> ELSE SubSeq(text, Min(inked), Max(inked))

DropHead(text, c) == IF text # << >> /\ Head(text) = c THEN Tail(text) ELSE text

(* split(separator): what is before the first one and what is between it   *)
(* and the second.                                                         *)
WholePart(text, separator) ==
  LET at == {i \in DOMAIN text : text[i] = separator}
  IN  IF at = {} THEN text ELSE SubSeq(text, 1, Min(at) - 1)

FracPart(text, separator) ==
  LET at == {i \in DOMAIN text : text[i] = separator}
  IN  IF at = {} THEN << >>
      ELSE WholePart(SubSeq(text, Min(at) + 1, Len(text)), separator)

Refused(why) == [refused |-> why, amount |-> 0]

parseAmountToMinor(raw, minorUnits, decimal, thousand) ==
  LET spaced   == [i \in DOMAIN raw |-> IF raw[i] = "nbsp" THEN " " ELSE raw[i]]
      bare     == trim(Without(trim(spaced), {"cur"}))
      inParens == Len(bare) > 1 /\ Head(bare) = "(" /\ Last(bare) = ")"
      inner    == IF inParens THEN trim(SubSeq(bare, 2, Len(bare) - 1)) ELSE bare
      unsigned == Without(DropHead(DropHead(inner, "-"), "+"), {thousand, " ", "'"})
      whole    == WholePart(unsigned, decimal)
      frac     == FracPart(unsigned, decimal)
      value    == Number(whole \o frac) * Tens[minorUnits - Len(frac)]
  IN  IF ~ (Range(whole) \union Range(frac)) \subseteq DOMAIN Digits THEN Refused("NON_NUMERIC")
      ELSE IF Len(frac) > minorUnits THEN Refused("TOO_MANY_DECIMALS")
      ELSE [refused |-> "", amount |-> IF inParens \/ (inner # << >> /\ Head(inner) = "-")
                                       THEN -value ELSE value]

-----------------------------------------------------------------------------
(* parse-date.ts.  A written date is its numbers and whether they stand    *)
(* between dashes; its year is counted from FirstYear.                     *)

DateFormats == {"yyyy-MM-dd", "dd/MM/yyyy", "MM/dd/yyyy"}

NoDate == -1

parseDateWithFormat(raw, format) ==
  LET month == IF format = "MM/dd/yyyy" THEN raw.parts[1] ELSE raw.parts[2]
      day   == CASE format = "yyyy-MM-dd" -> raw.parts[3]
                 [] format = "dd/MM/yyyy" -> raw.parts[1]
                 [] OTHER                 -> raw.parts[2]
      year  == IF format = "yyyy-MM-dd" THEN raw.parts[1] ELSE raw.parts[3]
      k     == 12 * year + month - 1
  IN  IF /\ raw.dashes = (format = "yyyy-MM-dd") /\ month \in 1..12
         /\ day \in 1..daysInMonth(k)     \* the date exists
      THEN UTC(k, day) ELSE NoDate

isDayMonthAmbiguous(sample) ==
  sample # {} /\ \A raw \in sample : ~ raw.dashes /\ raw.parts[1] <= 12

-----------------------------------------------------------------------------
(* map-row.ts.  A row has every cell; the strategy says which are read.    *)

Strategies == {"SIGNED_SINGLE_COLUMN", "DEBIT_CREDIT_COLUMNS", "TYPE_COLUMN"}

Magnitude(n) == IF n < 0 THEN -n ELSE n

(* The signed amount of a row, or why it has none. *)
SignedAmount(row, strategy, format) ==
  LET parse(text) == parseAmountToMinor(text, format.minorUnits, format.decimal, format.thousand)
      signed(text, debit) ==
        LET read == parse(text)
        IN  [read EXCEPT !.amount = IF debit THEN -Magnitude(@) ELSE Magnitude(@)]
  IN  CASE strategy = "SIGNED_SINGLE_COLUMN" -> parse(row.amount)
        [] strategy = "TYPE_COLUMN"          -> signed(row.amount, row.isDebit)
        [] strategy = "DEBIT_CREDIT_COLUMNS" ->
             IF trim(row.debit) # << >> THEN signed(row.debit, TRUE)
             ELSE IF trim(row.credit) # << >> THEN signed(row.credit, FALSE)
             ELSE Refused("AMOUNT_EMPTY")

mapRow(row, strategy, format) ==
  LET day  == parseDateWithFormat(row.date, format.date)
      read == SignedAmount(row, strategy, format)
  IN  IF ~ row.described THEN Refused("DESCRIPTION_EMPTY")
      ELSE IF day = NoDate THEN Refused("UNPARSEABLE_DATE")
      ELSE IF read.refused # "" THEN read
      ELSE IF read.amount = 0 THEN Refused("AMOUNT_ZERO")
      ELSE [refused |-> "", amount |-> Magnitude(read.amount), day |-> day,
            type |-> IF read.amount < 0 THEN "EXPENSE" ELSE "INCOME"]

-----------------------------------------------------------------------------
(* suggestions.ts: what is suggested for the entries of one account,       *)
(* category and label, from their days in order.  "" is no suggestion.     *)

detectSuggestions(days) ==
  LET n       == Len(days) - 1
      total   == days[n + 1] - days[1]
      squares == FoldLeft(LAMBDA sum, i : sum + (days[i + 1] - days[i]) ^ 2, 0, [i \in 1..n |-> i])
      regular == 9 * (n * squares - total ^ 2) <= total ^ 2   \* deviation <= average / 3
  IN  CASE n < 2 \/ ~ regular \/ total > 40 * n    -> ""
        [] n >= 2 /\ regular /\ total <= 10 * n    -> "WEEKLY"
        [] n >= 2 /\ regular /\ total \in 10 * n + 1..20 * n -> "BIWEEKLY"
        [] n >= 2 /\ regular /\ total \in 20 * n + 1..40 * n -> "MONTHLY"

-----------------------------------------------------------------------------
(* Properties *)

Styles == [minorUnits : {0, 2}, decimal : {",", "."}, thousand : {" ", ",", ".", "'"},
           date : DateFormats]

Formats == {f \in Styles : f.decimal # f.thousand}

(* How an amount is written: its digits in groups of three, its decimals. *)
DigitsOf[n \in Nat] ==
  LET last == <<CHOOSE c \in DOMAIN Digits : Digits[c] = n % 10>>
  IN  IF n < 10 THEN last ELSE DigitsOf[n \div 10] \o last

Grouped(text, thousand) ==
  IF Len(text) <= 3 THEN text
  ELSE SubSeq(text, 1, Len(text) - 3) \o <<thousand>> \o SubSeq(text, Len(text) - 2, Len(text))

Written(n, decimals, format) ==
  Grouped(DigitsOf[n \div Tens[decimals]], format.thousand)
    \o (IF decimals = 0 THEN << >>
        ELSE <<format.decimal>> \o Tail(DigitsOf[Tens[decimals] + (n % Tens[decimals])]))

(* The ways a sign and a currency are put around it. *)
Negatives(text) == {<<"-">> \o text, <<"(">> \o text \o <<")">>, <<"-", "nbsp">> \o text \o <<"nbsp", "cur">>}

Positives(text) == {text, <<"+">> \o text, <<"cur", " ">> \o text}

(* An amount is read as it was written, however it was; one with more      *)
(* decimals than its currency has is refused, never rounded.               *)
AmountsRead ==
  \A n \in WrittenAmounts, f \in Formats :
    LET text == Written(n, f.minorUnits, f)
        read(t) == parseAmountToMinor(t, f.minorUnits, f.decimal, f.thousand)
    IN  /\ \A t \in Positives(text) : read(t) = [refused |-> "", amount |-> n]
        /\ \A t \in Negatives(text) : read(t) = [refused |-> "", amount |-> -n]
        /\ \A t \in Positives(Written(n, f.minorUnits + 1, f)) :
             read(t).refused = "TOO_MANY_DECIMALS"

(* Whatever text is accepted, the amount is made of all its digits, at the *)
(* places they stand at, unless it has two decimal separators: then the    *)
(* digits after the second one are lost.                                   *)
NoDigitLost ==
  \A length \in 0..MaxText :
    \A text \in [1..length -> {"0", "1", ",", ".", "-", "(", ")"}] :
      LET read    == parseAmountToMinor(text, 2, ",", ".")
          commas  == {i \in 1..length : text[i] = ","}
          digits  == SelectSeq(text, LAMBDA c : c \in DOMAIN Digits)
          decimals == Cardinality({i \in 1..length : /\ text[i] \in DOMAIN Digits
                                                     /\ \E j \in commas : j < i})
      IN  (read.refused = "" /\ Cardinality(commas) < 2) =>
            /\ Magnitude(read.amount) = Number(digits) * Tens[2 - decimals]
            /\ read.amount < 0 => {"-", "("} \intersect Range(text) # {}

(* A date is read as it was written; a file read with day and month the    *)
(* wrong way round has a row that is refused exactly when the order could  *)
(* be told from it.                                                        *)
WrittenDate(d, format) ==
  LET year == MonthOf[d] \div 12  month == (MonthOf[d] % 12) + 1
  IN  [dashes |-> format = "yyyy-MM-dd",
       parts |-> CASE format = "yyyy-MM-dd" -> <<year, month, DayOf(d)>>
                   [] format = "dd/MM/yyyy" -> <<DayOf(d), month, year>>
                   [] format = "MM/dd/yyyy" -> <<month, DayOf(d), year>>]

DatesRead ==
  /\ \A d \in Looked, f, g \in DateFormats :
       LET read == parseDateWithFormat(WrittenDate(d, f), g)
       IN  /\ f = g => read = d
           /\ read = d => f = g \/ (MonthOf[d] % 12) + 1 = DayOf(d)
  /\ \A d, e \in {d \in Looked : MonthOf[d] \in 13..14} :
       LET sample == {WrittenDate(x, "dd/MM/yyyy") : x \in {d, e}}
       IN  isDayMonthAmbiguous(sample)
             <=> \A raw \in sample : parseDateWithFormat(raw, "MM/dd/yyyy") # NoDate

(* The three layouts of a row give the same entry, and none of nothing.    *)
RowOf(n, d, f) ==
  LET text == Written(Magnitude(n), f.minorUnits, f) IN
  [described |-> TRUE, date |-> WrittenDate(d, f.date), isDebit |-> n < 0,
   amount |-> IF n < 0 THEN <<"-">> \o text ELSE text,
   debit  |-> IF n < 0 THEN text ELSE << >>, credit |-> IF n < 0 THEN << >> ELSE text]

LayoutsAgree ==
  \A n \in WrittenAmounts \union {-a : a \in WrittenAmounts}, f \in Formats, strategy \in Strategies :
    LET d == FirstOf[14] - 1 IN
    mapRow(RowOf(n, d, f), strategy, f) =
      IF n = 0 THEN Refused("AMOUNT_ZERO")
      ELSE [refused |-> "", amount |-> Magnitude(n), day |-> d,
            type |-> IF n < 0 THEN "EXPENSE" ELSE "INCOME"]

(* What a rule has booked is suggested with the frequency of that rule, if *)
(* it is one of those that are suggested, whatever the length of months.   *)
SuggestionsFit ==
  \A f \in Frequencies, startsOn \in EdgesOf(12..15), limit \in 3..7 :
    LET days == computeOccurrences(Rule(f, 0, startsOn, FirstOf[FarMonths], limit), FirstOf[FarMonths])
    IN  detectSuggestions(SetToSortSeq(days, LAMBDA a, b : a < b)) =
          CASE f \in {"WEEKLY", "BIWEEKLY", "MONTHLY"} -> f
            [] f = "DAILY" -> "WEEKLY"
            [] OTHER       -> ""

(* What statements say is read. *)
StatementsRead == AmountsRead /\ NoDigitLost /\ DatesRead /\ LayoutsAgree /\ SuggestionsFit

=============================================================================
