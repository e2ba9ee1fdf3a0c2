--------------------------------- MODULE Text ---------------------------------
(***************************************************************************)
(* Strings as sequences of characters: what gateway.cc and its users do    *)
(* with std::string, std::stoi and std::stol.  Positions count from 1.     *)
(***************************************************************************)
EXTENDS Integers, Sequences

\* std::string::npos.
NoPosition == 0

\* The pattern stands in the text, beginning at position i.
OccursAt(pattern, text, i) ==
  /\ i + Len(pattern) - 1 <= Len(text)
  /\ \A k \in 1..Len(pattern) : text[i + k - 1] = pattern[k]

\* Where the pattern stands in the text.
Occurrences(pattern, text) ==
  {i \in 1..Len(text) : OccursAt(pattern, text, i)}

Contains(text, pattern) == Occurrences(pattern, text) # {}

\* std::string::find, for a pattern that is not empty.
Find(pattern, text) ==
  IF Contains(text, pattern)
  THEN CHOOSE i \in Occurrences(pattern, text) :
         \A j \in Occurrences(pattern, text) : i <= j
  ELSE NoPosition

\* std::string::substr, from one position up to before another, or to the end.
Between(text, first, last) == SubSeq(text, first, last - 1)
From(text, first) == SubSeq(text, first, Len(text))

\* The first n values written one after the other with the delimiter between them.
Joined(values, delimiter) ==
  LET first[n \in 0..Len(values)] ==
        IF n = 0 THEN <<>>
        ELSE IF n = 1 THEN values[1]
        ELSE first[n - 1] \o delimiter \o values[n]
  IN first

\* All of them.
Join(values, delimiter) == Joined(values, delimiter)[Len(values)]

\* The parts of the text between the delimiters, from a position on.
PartsFrom(text, delimiter) ==
  LET parts[p \in 1..Len(text) + 1] ==
        LET rest == From(text, p)
            i == Find(delimiter, rest)
        IN IF i = NoPosition THEN <<rest>>
           ELSE <<Between(rest, 1, i)>> \o parts[p + i - 1 + Len(delimiter)]
  IN parts

\* All parts, as they are found from the left.
Split(text, delimiter) == PartsFrom(text, delimiter)[1]

\* The characters that stoi and stol skip, and the digits with what they stand for.
Blanks == {" ", "CR", "LF"}
Numerals == <<"0", "1", "2", "3", "4", "5", "6", "7", "8", "9">>
Digit == [d \in {Numerals[k + 1] : k \in 0..9} |->
            CHOOSE k \in 0..9 : Numerals[k + 1] = d]

\* How many characters at the beginning of the text are in the set.
Leading(text, set) ==
  CHOOSE n \in 0..Len(text) :
    /\ \A i \in 1..n : text[i] \in set
    /\ n < Len(text) => text[n + 1] \notin set

\* What stoi and stol look at: they skip blanks and a sign, and stop after the digits.
Unsigned(text) ==
  LET number == From(text, Leading(text, Blanks) + 1) IN
  IF number # <<>> /\ number[1] \in {"-", "+"} THEN Tail(number) ELSE number
DigitsOf(text) ==
  Between(Unsigned(text), 1, Leading(Unsigned(text), DOMAIN Digit) + 1)

\* The integers that the first n of the digits stand for.
Valued(digits) ==
  LET value[n \in 0..Len(digits)] ==
        IF n = 0 THEN 0 ELSE 10 * value[n - 1] + Digit[digits[n]]
  IN value

\* The integer they return.
ToInteger(text) ==
  LET digits == DigitsOf(text)
      value == Valued(digits)[Len(digits)]
      sign == From(text, Leading(text, Blanks) + 1)[1]
  IN IF sign = "-" THEN -value ELSE value

\* Whether they return one that fits a type whose largest value is max, or throw.
IsInteger(text, max) ==
  DigitsOf(text) # <<>> /\ ToInteger(text) \in (-max - 1)..max

\* The digits of the integers up to n.
Decimals(n) ==
  LET digits[k \in 0..n] ==
        IF k < 10 THEN <<Numerals[k + 1]>>
        ELSE digits[k \div 10] \o <<Numerals[(k % 10) + 1]>>
  IN digits

\* std::to_string.
Decimal(n) == IF n < 0 THEN <<"-">> \o Decimals(-n)[-n] ELSE Decimals(n)[n]
=============================================================================
