-------------------------------- MODULE Resp --------------------------------
(***************************************************************************)
(* The wire parser (src/parser.rs), the SET arm of the command parser      *)
(* (src/command_parser.rs) and the text of a replicated SET (src/utils.rs) *)
(* on texts: sequences of one-character strings, with "cr" and "lf".       *)
(*                                                                         *)
(* A result is a tagged tuple.  "bad" is an Err of the code, "panic" an    *)
(* index or slice out of bounds.                                           *)
(***************************************************************************)
EXTENDS Integers, Sequences, SequencesExt

Digits == <<"0", "1", "2", "3", "4", "5", "6", "7", "8", "9">>
IsDigit(ch) == ch \in Range(Digits)
DigitValue(ch) == CHOOSE n \in 0 .. 9 : Digits[n + 1] = ch
CrLf == <<"cr", "lf">>

(* to_string of a number that is not negative.                             *)
Decimal[n \in Nat] ==
  IF n < 10 THEN <<Digits[n + 1]>> ELSE Append(Decimal[n \div 10], Digits[(n % 10) + 1])

(* str::parse of an integer: a sign or none, then digits only.             *)
Unsigned(t) == IF t # <<>> /\ t[1] \in {"+", "-"} THEN Tail(t) ELSE t
IsInt(t) == Unsigned(t) # <<>> /\ \A i \in DOMAIN Unsigned(t) : IsDigit(Unsigned(t)[i])
Magnitude(t) ==
  LET value[i \in 0 .. Len(t)] ==
        IF i = 0 THEN 0 ELSE 10 * value[i - 1] + DigitValue(t[i])
  IN  value[Len(t)]
IntOf(t) == IF t[1] = "-" THEN - Magnitude(Unsigned(t)) ELSE Magnitude(Unsigned(t))

(* split("\r\n"): the lines that a line break has ended, and what is behind *)
(* the last of them.  A line break stands where its line feed does.        *)
LastBreak(s, i) ==
  Max({0} \cup {b \in 1 .. i : b > 1 /\ s[b - 1] = "cr" /\ s[b] = "lf"})
Lines(s) ==
  LET ended[i \in 0 .. Len(s)] ==
        LET b == LastBreak(s, i) IN
        IF b = 0 THEN <<>>
        ELSE Append(ended[b - 1], SubSeq(s, LastBreak(s, b - 1) + 1, b - 2))
  IN  Append(ended[Len(s)], SubSeq(s, LastBreak(s, Len(s)) + 1, Len(s)))

Bad == <<"bad">>
Panic == <<"panic">>
Null == <<"null">>
Simple(t) == <<"simple", t>>
Integer(n) == <<"int", n>>
Bulk(t) == <<"bulk", t>>
Array(vs) == <<"array", vs>>
Failed(v) == v \in {Bad, Panic}

-----------------------------------------------------------------------------
ParseSimpleString(s) ==
  IF Len(Lines(s)) < 2 THEN Bad ELSE Simple(Tail(Lines(s)[1]))

ParseInteger(s) ==
  IF Len(Lines(s)) < 2 \/ ~ IsInt(Tail(Lines(s)[1])) THEN Bad
  ELSE Integer(IntOf(Tail(Lines(s)[1])))

(* Line breaks inside the data end it; data shorter than announced cannot  *)
(* be sliced.                                                              *)
ParseBulkString(s) ==
  LET lines == Lines(s)
      length == Tail(lines[1])
  IN  IF Len(lines) < 2 \/ ~ IsInt(length) THEN Bad
      ELSE LET n == IntOf(length) IN
           CASE n = -1                  -> Null
             [] n < -1                  -> Bad
             [] n > Len(lines[2])       -> Panic
             [] n \in 0 .. Len(lines[2]) -> Bulk(SubSeq(lines[2], 1, n))

(* How many more values a line announces; count_qoda does not know whether *)
(* the line is a header or data that looks like one.                       *)
CountQoda(line) ==
  IF Len(line) < 2 \/ line[1] \notin {"$", "*"} \/ ~ IsInt(Tail(line)) THEN 0
  ELSE LET n == IntOf(Tail(line)) IN
       IF n < 0 THEN 0 ELSE IF line[1] = "$" THEN 1 ELSE n

(* parse_array's loop: lines are gathered into the text of one element     *)
(* until all the values they announced are there.                          *)
GatherToTheEnd(acc, line) ==
  LET tmp == acc.tmp \o line \o CrLf
      qoda == acc.qoda + CountQoda(line) - 1
  IN  IF qoda = 0
        THEN [left |-> acc.left - 1, qoda |-> 1, tmp |-> <<>>,
              elements |-> Append(acc.elements, tmp)]
        ELSE [acc EXCEPT !.qoda = qoda, !.tmp = tmp]

Gather(acc, line) ==
  LET tmp == acc.tmp \o line \o CrLf
      qoda == acc.qoda + CountQoda(line) - 1
  IN  IF acc.left = 0 THEN acc
      ELSE IF qoda = 0
        THEN [left |-> acc.left - 1, qoda |-> 1, tmp |-> <<>>,
              elements |-> Append(acc.elements, tmp)]
        ELSE [acc EXCEPT !.qoda = qoda, !.tmp = tmp]

Elements(lines, count) ==
  LET gathered[i \in 0 .. Len(lines)] ==
        IF i = 0 THEN [left |-> count, qoda |-> 1, tmp |-> <<>>, elements |-> <<>>]
        ELSE Gather(gathered[i - 1], lines[i])
  IN  gathered[Len(lines)].elements

(* The first element that fails makes the whole fail.                      *)
AllOrFirstFailure(vs) ==
  IF \E i \in DOMAIN vs : Failed(vs[i])
    THEN vs[SelectInSeq(vs, Failed)]
    ELSE Array(vs)

ParseArray(s, parse) ==
  LET lines == Lines(s)
      length == Tail(lines[1])
  IN  IF ~ IsInt(length) THEN Bad
      ELSE LET n == IntOf(length) IN
           CASE n = -1 -> Null
             [] n < -1 -> Bad
             [] n >= 0 -> LET texts == Elements(Tail(lines), n)
                          IN  AllOrFirstFailure([i \in DOMAIN texts |-> parse[texts[i]]])

(* parse, by the first character; elements are parsed in the same way.     *)
ParseBy(s, parse) ==
  IF s = <<>> THEN Bad
  ELSE CASE s[1] = "+" -> ParseSimpleString(s)
         [] s[1] = ":" -> ParseInteger(s)
         [] s[1] = "$" -> ParseBulkString(s)
         [] s[1] = "*" -> ParseArray(s, parse)
         [] OTHER      -> Bad

(* An element is shorter than its array, so arrays are nested less deep    *)
(* than the text is long; its text ends in a line break anyway.            *)
Parse(s) ==
  LET nested[depth \in 0 .. Len(s)] ==
        [t \in Seq(Range(s) \cup Range(CrLf)) |->
           IF depth = 0 THEN Bad ELSE ParseBy(t, nested[depth - 1])]
  IN  nested[Len(s)][s]

-----------------------------------------------------------------------------
(* parse_multi_array: one step per character.  At the last character the   *)
(* text from pre on is parsed, and only then the character itself is       *)
(* looked at; `*' and the one behind it are read without a bound.          *)
Take(acc, v) ==
  IF Failed(v) THEN [acc EXCEPT !.fate = v] ELSE [acc EXCEPT !.out = Append(@, v)]

AtLast(s, acc, idx) ==
  IF idx = Len(s) THEN Take(acc, Parse(SubSeq(s, acc.pre, Len(s)))) ELSE acc

AtStarSplittingFirst(s, acc, idx) ==
  CASE s[idx] # "*"                      -> acc
    [] s[idx] = "*" /\ idx = Len(s)      -> [acc EXCEPT !.fate = Panic]
    [] s[idx] = "*" /\ idx < Len(s)      ->
         IF ~ IsDigit(s[idx + 1]) \/ idx = 1 THEN acc
         ELSE [Take(acc, Parse(SubSeq(s, acc.pre, idx - 1))) EXCEPT !.pre = idx]

AtStar(s, acc, idx) ==
  CASE s[idx] # "*"                      -> acc
    [] s[idx] = "*" /\ idx = Len(s)      -> [acc EXCEPT !.fate = Panic]
    [] s[idx] = "*" /\ idx < Len(s)      ->
         IF ~ IsDigit(s[idx + 1]) THEN acc
         ELSE IF acc.first THEN [acc EXCEPT !.first = FALSE]
         ELSE [Take(acc, Parse(SubSeq(s, acc.pre, idx - 1))) EXCEPT !.pre = idx]

Fine == <<"fine">>

AtChar(s, acc, idx) ==
  LET mid == IF Failed(acc.fate) THEN acc ELSE AtLast(s, acc, idx)
  IN  IF Failed(mid.fate) THEN mid ELSE AtStar(s, mid, idx)

(* The loop has nothing to do at a character that is no `*' and not the     *)
(* last, so it is taken from one `*' to the next.                           *)
LastStar(s, idx) == Max({0} \cup {i \in 1 .. idx : s[i] = "*"})

ParseMultiArray(s) ==
  LET loop[idx \in 0 .. Len(s)] ==
        IF idx = 0 THEN [first |-> TRUE, pre |-> 1, out |-> <<>>, fate |-> Fine]
        ELSE AtChar(s, loop[LastStar(s, idx - 1)], idx)
  IN  loop[Len(s)]

-----------------------------------------------------------------------------
(* parse_command for SET: the options behind key and value are scanned for *)
(* PX; an unknown option is skipped.                                       *)
SetWord == <<"s", "e", "t">>
PxWord == <<"p", "x">>
NoCommand == <<"none">>

ScanOption(acc, v) ==
  CASE acc.px = NoCommand                       -> acc
    [] acc.px # NoCommand /\ v[1] # "bulk"      -> [acc EXCEPT !.px = NoCommand]
    [] acc.px # NoCommand /\ v[1] = "bulk" /\ acc.wants ->
         IF IsInt(v[2]) /\ v[2][1] # "-" THEN [wants |-> FALSE, px |-> <<"px", IntOf(v[2])>>]
         ELSE [acc EXCEPT !.px = NoCommand]
    [] acc.px # NoCommand /\ v[1] = "bulk" /\ ~ acc.wants ->
         [acc EXCEPT !.wants = v[2] = PxWord]

ParseSet(vs) ==
  LET scanned[i \in 3 .. Len(vs)] ==
        IF i = 3 THEN [wants |-> FALSE, px |-> <<"no px">>]
        ELSE ScanOption(scanned[i - 1], vs[i])
      scan == scanned[Len(vs)]
  IN  IF \/ Len(vs) < 3 \/ \E i \in 1 .. 3 : vs[i][1] # "bulk"
         \/ vs[1] # Bulk(SetWord) \/ scan.wants \/ scan.px = NoCommand
        THEN NoCommand
        ELSE <<"set", vs[2][2], vs[3][2], scan.px>>

(* What connect_master executes of a chunk.                                *)
CommandsIn(value) ==
  LET cmd == IF value[1] = "array" THEN ParseSet(value[2]) ELSE NoCommand
  IN  IF cmd = NoCommand THEN <<>> ELSE <<cmd>>
Commands(values) == FlattenSeq([i \in DOMAIN values |-> CommandsIn(values[i])])

-----------------------------------------------------------------------------
(* Text of an unsigned number, of a bulk string, and generate_resp.        *)
BulkText(t) == <<"$">> \o Decimal[Len(t)] \o CrLf \o t \o CrLf
ArrayText(ts) ==
  <<"*">> \o Decimal[Len(ts)] \o CrLf \o FlattenSeq([i \in DOMAIN ts |-> BulkText(ts[i])])

GenerateRespOptionFirst(key, val, px) ==
  ArrayText(IF px = <<"no px">> THEN <<SetWord, key, val>>
            ELSE <<SetWord, PxWord, Decimal[px[2]], key, val>>)

GenerateResp(key, val, px) ==
  ArrayText(IF px = <<"no px">> THEN <<SetWord, key, val>>
            ELSE <<SetWord, key, val, PxWord, Decimal[px[2]]>>)

(* What connect_master adds to its offset for a SET: to_string().len() is   *)
(* the width of a number.                                                  *)
Width(n) == Len(Decimal[n])

OffsetIncrementWithoutHeader(key, val, px) ==
  4 + (Len(key) + Width(Len(key)) + 5) + (Len(val) + Width(Len(val)) + 5)
    + (IF px = <<"no px">> THEN 0 ELSE 8 + Width(px[2]) + 5)

OffsetIncrement(key, val, px) ==
  4 + (Len(key) + Width(Len(key)) + 5) + (Len(val) + Width(Len(val)) + 5)
    + (IF px = <<"no px">> THEN 0 ELSE 8 + Width(px[2]) + Width(Width(px[2])) + 5)
=============================================================================
