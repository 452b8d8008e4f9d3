----------------------------- MODULE HAL_PRINTF -----------------------------
(***************************************************************************)
(* The two small printf functions of the HAL, reading the same format one  *)
(* character at a time: alt_log_private_printf, with widths and bases, and *)
(* alt_printf, with %x, %c, %s and %% only.  Every number converted is the *)
(* same argument, and so is every string and every character.              *)
(***************************************************************************)
EXTENDS Integers, Sequences, FiniteSets

CONSTANTS
  Nibbles,   \* digits of a word to base 16: 8, scaled down for checking
  Alphabet,  \* the characters of formats
  Numbers,   \* the numbers printed
  MaxLen     \* bound on the length of formats

\* The powers of a base.
Powers(base) == LET power[k \in Nat] == IF k = 0 THEN 1 ELSE base * power[k - 1] IN power
\* One more than the largest word.
Word == Powers(16)[Nibbles]

PrintfAssumption ==
  /\ Nibbles \in Nat \ {0} /\ MaxLen \in Nat /\ Numbers \subseteq 0..Word - 1

Digits == <<"0", "1", "2", "3", "4", "5", "6", "7", "8", "9", "a", "b", "c", "d", "e", "f">>
Capital == <<"0", "1", "2", "3", "4", "5", "6", "7", "8", "9", "A", "B", "C", "D", "E", "F">>
Decimal == {Digits[k] : k \in 1..10}
ValueOf(c) == CHOOSE d \in 0..15 : c \in {Digits[d + 1], Capital[d + 1]}
Text == <<"t", "u">>
Char == "k"
Blank == "blank"

VARIABLES
  fmt,     \* what has been read of the format
  number,  \* the argument of conversions of numbers
  log,     \* alt_log_private_printf: its state, its fmt... variables, what it has printed
  alt,     \* alt_printf: whether the last character was a %, and what it has printed
  field,   \* the last number printed by log, and how it was asked for
  common   \* the format has meant the same to both so far
vars == <<fmt, number, log, alt, field, common>>

Fresh == [zero |-> FALSE, before |-> -1, after |-> -1]
NoField == [chars |-> <<>>, before |-> -1, base |-> 10, signed |-> FALSE]

TypeOK ==
  /\ log.state \in {"chars", "firstFmtChar", "otherFmtChar"} /\ log.spec.zero \in BOOLEAN
  /\ log.spec.before \in -1..Powers(10)[MaxLen] /\ log.spec.after \in -1..Powers(10)[MaxLen]

Init ==
  /\ fmt = <<>> /\ number \in Numbers
  /\ log = [state |-> "chars", spec |-> Fresh, out |-> <<>>]
  /\ alt = [escape |-> FALSE, out |-> <<>>]
  /\ field = NoField /\ common = TRUE

-----------------------------------------------------------------------------
\* alt_log_repchar.
Repeat(c, n) == [k \in 1..n |-> c]
\* The places of v, from the largest power of the base on.
PlacesIn(v, base) ==
  LET power == Powers(base)
      n == CHOOSE k \in 1..Word : power[k] > v /\ (k = 1 \/ power[k - 1] <= v)
  IN [k \in 1..n |-> (v \div power[n - k]) % base]

Base(c) == CASE c = "o" -> 8 [] c \in {"x", "X"} -> 16 [] OTHER -> 10
IsSigned(c) == c \in {"d", "i"}

\* The characters that fill a field up.
Width(spec, places, sign) == spec.before - places - Len(sign)

\* Slip: the most negative number is left out.
Negative_Above(v) == v > Word \div 2
\* The sign bit.
Negative(v) == v >= Word \div 2

\* A number in its field, padded with blanks before the sign or zeros after it.
Number(spec, c) ==
  LET negative == IsSigned(c) /\ Negative(number)
      places == PlacesIn(IF negative THEN Word - number ELSE number, Base(c))
      sign == IF negative THEN <<"-">> ELSE <<>>
      fill == Width(spec, Len(places), sign)
      chars == [k \in 1..Len(places) |-> (IF c = "X" THEN Capital ELSE Digits)[places[k] + 1]]
  IN (IF spec.zero THEN sign \o Repeat("0", fill) ELSE Repeat(Blank, fill) \o sign) \o chars

\* What the letter of a conversion prints; nothing if it is unknown.
Conversion(spec, c) ==
  CASE c \in {"d", "i", "u", "o", "x", "X"} -> Number(spec, c)
    [] c = "c" -> Repeat(Blank, spec.before - 1) \o <<Char>>
    [] c = "s" -> Repeat(Blank, spec.before - Len(Text)) \o Text
    [] OTHER -> <<>>

\* One more digit of a number in the format.
WithDigit(n, c) == IF n < 0 THEN ValueOf(c) ELSE n * 10 + ValueOf(c)

\* After the first character of a conversion.
OtherFmtChar(spec, c) ==
  CASE c = "." -> [state |-> "otherFmtChar", spec |-> [spec EXCEPT !.after = 0], out |-> log.out]
    [] c = "l" -> [state |-> "otherFmtChar", spec |-> spec, out |-> log.out]
    [] c \in Decimal ->
         [state |-> "otherFmtChar", out |-> log.out,
          spec |-> IF spec.after < 0 THEN [spec EXCEPT !.before = WithDigit(@, c)]
                   ELSE [spec EXCEPT !.after = WithDigit(@, c)]]
    [] OTHER -> [state |-> "chars", spec |-> spec, out |-> log.out \o Conversion(spec, c)]

\* alt_log_private_printf reads c.
LogReads(c) ==
  LET plain == [state |-> "chars", spec |-> log.spec, out |-> log.out \o <<c>>] IN
    CASE log.state = "chars" /\ c = "%" -> [log EXCEPT !.state = "firstFmtChar", !.spec = Fresh]
      [] log.state = "chars" /\ c # "%" -> plain
      [] log.state = "firstFmtChar" /\ c = "%" -> plain
      [] log.state = "firstFmtChar" /\ c = "0" ->
           [log EXCEPT !.state = "otherFmtChar", !.spec.zero = TRUE]
      [] OTHER -> OtherFmtChar(log.spec, c)

\* The digits of %x in alt_printf, by shifts from the first that is not zero on.
Nibble(v, k) == (v \div Powers(16)[k - 1]) % 16
HexDigits(v) ==
  IF v = 0 THEN <<"0">>
  ELSE LET top == CHOOSE k \in 1..Nibbles :
                    Nibble(v, k) # 0 /\ \A j \in k + 1..Nibbles : Nibble(v, j) = 0
       IN [k \in 1..top |-> Digits[Nibble(v, top + 1 - k) + 1]]

\* alt_printf reads c.
AltReads(c) ==
  CASE alt.escape -> [escape |-> FALSE, out |-> alt.out \o
         (CASE c = "%" -> <<c>> [] c = "c" -> <<Char>> [] c = "x" -> HexDigits(number)
            [] c = "s" -> Text [] OTHER -> <<>>)]
    [] ~alt.escape /\ c = "%" -> [alt EXCEPT !.escape = TRUE]
    [] OTHER -> [alt EXCEPT !.out = @ \o <<c>>]

Read(c) ==
  /\ Len(fmt) < MaxLen
  /\ fmt' = Append(fmt, c) /\ log' = LogReads(c) /\ alt' = AltReads(c)
  /\ field' = IF log.state # "chars" /\ log'.state = "chars" /\ c \in {"d", "i", "u", "o", "x", "X"}
              THEN [chars |-> Number(log.spec, c), before |-> log.spec.before,
                    base |-> Base(c), signed |-> IsSigned(c)]
              ELSE NoField
  /\ common' = (common /\ (log.state # "chars" => c \in {"%", "c", "x", "s"}))
  /\ UNCHANGED number

Next == \E c \in Alphabet : Read(c)
Spec == Init /\ [][Next]_vars

-----------------------------------------------------------------------------
\* The blanks at the head of a field, and what follows them.
Padding(s) == {k \in 1..Len(s) : \A j \in 1..k : s[j] = Blank}
Unpadded(s) == SubSeq(s, Cardinality(Padding(s)) + 1, Len(s))
Horner(s, base) ==
  LET value[k \in 0..Len(s)] == IF k = 0 THEN 0 ELSE value[k - 1] * base + ValueOf(s[k])
  IN  value[Len(s)]

\* A number printed in a field reads back as the number: its sign stands at
\* the head of its digits, whatever the padding, and the most negative number
\* is no exception.
NumbersReadBack ==
  field # NoField =>
    LET s == Unpadded(field.chars)
        minus == s[1] = "-"
        value == Horner(IF minus THEN Tail(s) ELSE s, field.base)
        Meant == IF field.signed /\ number >= Word \div 2 THEN number - Word ELSE number
    IN (IF minus THEN -value ELSE value) = Meant /\ (minus => value # 0)

\* A field is as wide as the format asks for, or as the number needs, sign
\* included, and blanks stand only in front.
FieldsKeepWidth ==
  field # NoField =>
    LET n == Len(field.chars) IN
      /\ n >= field.before
      /\ n > field.before /\ n > 1 => field.chars[1] \notin {Blank, "0"}
      /\ \A k \in 1..n : field.chars[k] = Blank => k \in Padding(field.chars)

\* Where a format means the same to both functions they print the same.
BothAgree == common => log.out = alt.out
=============================================================================
