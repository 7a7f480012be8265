------------------------------- MODULE Rfc5424 -------------------------------
(***************************************************************************)
(* valid_message() (framing.rs), the reader that decides which datagrams   *)
(* are messages, against the grammar of RFC 5424.  The reader works by     *)
(* positions and look-ahead; the grammar is declarative.  Texts are        *)
(* sequences of characters, one for each class the reader tells apart, and *)
(* a part of a text is the positions from i to j.  The header's four names *)
(* are compared with their lengths only and are left out; timestamps are   *)
(* records of what the reader looks at.                                    *)
(***************************************************************************)
EXTENDS Naturals, SequencesExt

CONSTANTS Seeds,     \* valid structured data to start from
          MaxEdits,  \* how many edits are made to a text
          MaxName    \* the 32 of sd_name

\* A digit is its value; any other character of a priority is NoDigit.
Digits == 0..9
NoDigit == 10

Blank == "blank"
Quote == "quote"
Backslash == "backslash"
\* "u" is a character of several bytes, "x" a byte that is not UTF-8, "BOM"
\* the byte order mark: the only three that are not printable ASCII but Blank.
Characters == {"a", "b", Blank, "-", "[", "]", "=", Quote, Backslash, "u", "x", "BOM"}
Printable == Characters \ {Blank, "u", "x", "BOM"}

\* Mutation: a backslash does not escape another.
EscapableTwo == {Quote, "]"}
Escapable == {Quote, Backslash, "]"}

ASSUME ReaderAssumption == Seeds \subseteq Seq(Characters) /\ MaxName \in Nat

-----------------------------------------------------------------------------
VARIABLES pri, timestamp, rest, edits
reader_vars == <<pri, timestamp, rest, edits>>

Timestamps == [t : {"T", "t"}, zone : {"Z", "z", "offset", "none"},
               fraction : {0, 1, 6, 7}, second60 : BOOLEAN]

ReaderTypeOK ==
  /\ pri \in Seq(Digits \cup {NoDigit})
  /\ timestamp \in Timestamps
  /\ rest \in Seq(Characters)

-----------------------------------------------------------------------------
(* The reader.                                                             *)

\* parse::<u16>() of at most three digits.
Value(p) ==
  LET value[i \in 0..Len(p)] == IF i = 0 THEN 0 ELSE 10 * value[i - 1] + p[i]
  IN value[Len(p)]

ValidPri(p) ==
  /\ p # <<>> /\ Len(p) <= 3 /\ ToSet(p) \subseteq Digits
  /\ Len(p) > 1 => p[1] # 0
  /\ Value(p) <= 191

\* What the time library accepts as RFC 3339: both cases, any fraction, and a
\* leap second where one may be.
Parses(ts) == ts.zone # "none"

ValidTimestamp(ts) ==
  /\ ts.t = "T" /\ ts.zone \in {"Z", "offset"} /\ Parses(ts)
  /\ ts.fraction <= 6
  /\ ~ts.second60

is(s, i, c) == i <= Len(s) /\ s[i] = c
utf8(s, i, j) == \A k \in i..j : s[k] # "x"

\* The next of these characters from i on; the end of the text if there is none.
Find(s, i, chars) == Min({n \in i..Len(s) : s[n] \in chars} \cup {Len(s) + 1})

sd_name(s, i, j) ==
  /\ i <= j /\ j - i < MaxName
  /\ \A k \in i..j : s[k] \in Printable \ {"=", "]", Quote}

valid_tail(s, i) ==
  i <= Len(s) => s[i] = Blank /\ (is(s, i + 1, "BOM") => utf8(s, i + 1, Len(s)))

\* The quote that ends the value from i on; 0 if it has none.
ClosingQuote(s) ==
  LET end[i \in 1..(Len(s) + 1)] ==
        IF i > Len(s) \/ is(s, i, "]") THEN 0
        ELSE IF s[i] = Quote THEN i
        ELSE IF s[i] = Backslash /\ i < Len(s) /\ s[i + 1] \in Escapable THEN end[i + 2]
        ELSE end[i + 1]
  IN end

\* The quote that ends the parameter from i on; 0 if it is not valid.
ParameterEnd(s, i) ==
  LET n == Find(s, i + 1, {"="})
      end == IF is(s, n + 1, Quote) THEN ClosingQuote(s)[n + 2] ELSE 0
  IN IF sd_name(s, i + 1, n - 1) /\ utf8(s, n + 2, end - 1) THEN end ELSE 0

\* What follows the parameters from i on; 0 if one is not valid.
AfterParameters(s) ==
  LET after[i \in 1..(Len(s) + 1)] ==
        IF ~is(s, i, Blank) THEN i
        ELSE IF ParameterEnd(s, i) = 0 THEN 0 ELSE after[ParameterEnd(s, i) + 1]
  IN after

\* The element from i on: its id, and the bracket that ends it, 0 if it is not valid.
NameEnd(s, i) == Find(s, i + 1, {Blank, "]"}) - 1
ElementId(s, i) == SubSeq(s, i + 1, NameEnd(s, i))
ElementEnd(s, i) ==
  LET after == AfterParameters(s)[NameEnd(s, i) + 1]
  IN IF sd_name(s, i + 1, NameEnd(s, i)) /\ after > 0 /\ is(s, after, "]")
     THEN after ELSE 0

\* A place in the text, and the ids read before it.
Places(n) == (1..n) \X SUBSET Seq(Characters)

\* The elements from a place on, and what follows them.
ValidElements(s) ==
  LET valid[p \in Places(Len(s) + 1)] ==
        LET i == p[1]
            ids == p[2]
        IN IF ~is(s, i, "[") THEN ids # {} /\ valid_tail(s, i)
           ELSE /\ ElementEnd(s, i) > 0 /\ ElementId(s, i) \notin ids
                /\ valid[<<ElementEnd(s, i) + 1, ids \cup {ElementId(s, i)}>>]
  IN valid

ValidRest(s) ==
  IF is(s, 1, "-") THEN valid_tail(s, 2) ELSE ValidElements(s)[<<1, {}>>]

-----------------------------------------------------------------------------
(* The grammar (RFC 5424, section 6): no code.                             *)

Decimal(n) ==
  IF n < 10 THEN <<n>>
  ELSE IF n < 100 THEN <<n \div 10, n % 10>>
  ELSE <<n \div 100, (n \div 10) % 10, n % 10>>

PRIVAL == {Decimal(n) : n \in 0..191}

TIMESTAMP(ts) ==   \* no lower case, TIME-SECFRAC has 1 to 6 digits, no leap second
  ts \in [t : {"T"}, zone : {"Z", "offset"}, fraction : 0..6, second60 : {FALSE}]

\* A character is escaped when an odd number of backslashes precedes it.
Escaped(s, i) ==
  \E k \in 0..(i - 1) :
    /\ k % 2 = 1
    /\ \A j \in (i - k)..(i - 1) : s[j] = Backslash
    /\ i - k > 1 => s[i - k - 1] # Backslash

\* SP PARAM-NAME "=" <"> PARAM-VALUE <">
SD_PARAM(s, i, j) ==
  \E n \in (i + 2)..(j - 2) :
    /\ s[i] = Blank /\ sd_name(s, i + 1, n - 1) /\ s[n] = "=" /\ s[n + 1] = Quote
    /\ s[j] = Quote /\ ~Escaped(s, j) /\ utf8(s, n + 2, j)
    /\ \A k \in (n + 2)..(j - 1) : s[k] \in {Quote, "]"} => Escaped(s, k)

\* The places from which there are only parameters up to j.
SD_PARAMS(s, j) ==
  LET params[i \in 1..(j + 1)] ==
        i = j + 1 \/ \E n \in i..j : SD_PARAM(s, i, n) /\ params[n + 1]
  IN params

\* The SD-ID of the SD-ELEMENT from i to j, or {} if it is none.
SD_ID(s, i, j) ==
  {SubSeq(s, i + 1, n) : n \in
    {k \in (i + 1)..(j - 1) : /\ s[i] = "[" /\ s[j] = "]"
                             /\ sd_name(s, i + 1, k)
                             /\ SD_PARAMS(s, j - 1)[k + 1]}}

\* The same for elements; their ids differ from each other and from those before.
SD_ELEMENTS(s, j) ==
  LET elements[p \in Places(j + 1)] ==
        LET i == p[1]
            ids == p[2]
        IN \/ i = j + 1 /\ ids # {}
           \/ \E n \in i..j :
                \E id \in SD_ID(s, i, n) \ ids : elements[<<n + 1, ids \cup {id}>>]
  IN elements

\* STRUCTURED-DATA [SP MSG], where MSG is any bytes, or BOM and UTF-8.
STRUCTURED_DATA(s) ==
  \E n \in 1..Len(s) :
    /\ (n = 1 /\ s[1] = "-") \/ SD_ELEMENTS(s, n)[<<1, {}>>]
    /\ \/ n = Len(s)
       \/ s[n + 1] = Blank /\ (n + 1 < Len(s) /\ s[n + 2] = "BOM" => utf8(s, n + 2, Len(s)))

-----------------------------------------------------------------------------
(* The messages compared: a valid one with up to MaxEdits edits.           *)

ReaderInit ==
  /\ pri = <<1, 9>> /\ rest \in Seeds /\ edits = 0
  /\ timestamp = [t |-> "T", zone |-> "Z", fraction |-> 0, second60 |-> FALSE]

Edited(s, chars) ==
  {RemoveAt(s, i) : i \in DOMAIN s}
    \cup {ReplaceAt(s, i, c) : i \in DOMAIN s, c \in chars}
    \cup {InsertAt(s, i, c) : i \in 1..(Len(s) + 1), c \in chars}

EditPri == pri' \in Edited(pri, {0, 1, 2, 9, NoDigit}) /\ UNCHANGED <<timestamp, rest>>
EditTimestamp == timestamp' \in Timestamps /\ UNCHANGED <<pri, rest>>
EditRest == rest' \in Edited(rest, Characters) /\ UNCHANGED <<pri, timestamp>>

ReaderNext ==
  /\ edits < MaxEdits
  /\ edits' = edits + 1
  /\ EditPri \/ EditTimestamp \/ EditRest

ReaderSpec == ReaderInit /\ [][ReaderNext]_reader_vars

-----------------------------------------------------------------------------
(* Properties.                                                             *)

(***************************************************************************)
(* The reader accepts what the grammar derives.  The priority: exactly the *)
(* numbers to 191, written without leading zeros.  The time: the checks    *)
(* around the time library leave exactly the timestamps of RFC 5424, which *)
(* are fewer than those of RFC 3339.  The data: the ends of names, values  *)
(* and elements are found where the grammar has them, for quotes, escapes, *)
(* brackets in values and repeated ids.                                    *)
(***************************************************************************)
ReaderExact ==
  /\ ValidPri(pri) <=> pri \in PRIVAL
  /\ ValidTimestamp(timestamp) <=> TIMESTAMP(timestamp)
  /\ ValidRest(rest) <=> STRUCTURED_DATA(rest)
=============================================================================
