----------------------------- MODULE TextTools -----------------------------
(***************************************************************************)
(* The string functions of common_rl/common.cpp on texts, sequences of     *)
(* character codes. A function that throws returns Thrown.                 *)
(***************************************************************************)
EXTENDS Integers, Sequences, SequencesExt

Tab == 9
Newline == 10
Blank == 32
Hash == 35
Percent == 37
Quote == 39
Equals == 61
Backslash == 92

Thrown == <<-1>>

\* string::find: 0 for npos.
Find(s, findme, from) ==
  LET found == {i \in from..(Len(s) - Len(findme) + 1) :
                  SubSeq(s, i, i + Len(findme) - 1) = findme}
  IN IF found = {} THEN 0 ELSE Min(found)

Rest(s, from) == SubSeq(s, from, Len(s))

\* changecase(), for upcase() and downcase().
ChangeCase(s, upper, lower) ==
  [i \in DOMAIN s |-> LET at == Find(lower, <<s[i]>>, 1) IN IF at = 0 THEN s[i] ELSE upper[at]]

Upcase(s) == ChangeCase(s, [i \in 1..26 |-> 64 + i], [i \in 1..26 |-> 96 + i])
Downcase(s) == ChangeCase(s, [i \in 1..26 |-> 96 + i], [i \in 1..26 |-> 64 + i])

Gsub(target, findme, putme) ==
  LET from[i \in 1..Len(target) + 1] ==
        LET where == Find(target, findme, i)
        IN IF where = 0 THEN Rest(target, i)
           ELSE SubSeq(target, i, where - 1) \o putme \o from[where + Len(findme)]
  IN IF findme = <<>> \/ target = <<>> THEN Thrown ELSE from[1]

Split(source, token) ==
  LET from[i \in 1..Len(source) + 1] ==
        LET loc == Find(source, <<token>>, i)
        IN IF loc = 0 THEN <<Rest(source, i)>>
           ELSE <<SubSeq(source, i, loc - 1)>> \o from[loc + 1]
  IN IF source = <<>> THEN <<>> ELSE from[1]

\* A text of nothing but whitespace is left alone.
Trim(s) ==
  LET kept == {i \in DOMAIN s : s[i] \notin {Tab, Newline, Blank}}
  IN IF kept = {} THEN s ELSE SubSeq(s, Min(kept), Max(kept))

\* Mutation of Mconvert: the backslashes that escape are escaped, too.
Mconvert_SlashLast(s) ==
  IF s = <<>> THEN s
  ELSE Gsub(Gsub(Gsub(Gsub(s, <<Quote>>, <<Backslash, Quote>>), <<34>>, <<Backslash, 34>>),
                 <<0>>, <<Backslash, 48>>), <<Backslash>>, <<Backslash, Backslash>>)

Mconvert(s) ==
  IF s = <<>> THEN s
  ELSE Gsub(Gsub(Gsub(Gsub(s, <<Backslash>>, <<Backslash, Backslash>>),
                      <<Quote>>, <<Backslash, Quote>>), <<34>>, <<Backslash, 34>>),
            <<0>>, <<Backslash, 48>>)

Hexits == [i \in 1..16 |-> IF i <= 10 THEN 47 + i ELSE 54 + i]

\* Anything else counts as -1, string::npos.
HexToChar(s) ==
  LET digit(i) == IF i > Len(s) THEN -1 ELSE Find(Hexits, <<Upcase(s)[i]>>, 1) - 1
  IN (16 * digit(1) + digit(2)) % 256

CharToHex(s) ==
  [i \in 1..2 * Len(s) |->
     LET v == s[(i + 1) \div 2]
     IN IF i % 2 = 1 THEN Hexits[(v \div 16) + 1] ELSE Hexits[(v % 16) + 1]]

\* The same, with a "%" before every two digits.
EnHex(s) ==
  [i \in 1..3 * Len(s) |->
     IF i % 3 = 1 THEN Percent ELSE CharToHex(s)[i - (i + 2) \div 3]]

\* One round of http_unhex().
UnHexOnce(s) ==
  LET where == Find(s, <<Percent>>, 1)
      hexchar == SubSeq(s, where + 1, Min({where + 2, Len(s)}))
  IN IF where = 0 THEN s
     ELSE SubSeq(s, 1, where - 1) \o <<HexToChar(hexchar)>> \o Rest(s, where + 3)

\* The search starts again at the front: a decoded "%" is decoded once more. A
\* round brings the first "%" nearer to the end, so that there are no more rounds
\* than characters.
UnHex(s) ==
  LET round[n \in 0..Len(s)] == IF n = 0 THEN s ELSE UnHexOnce(round[n - 1])
  IN round[Len(s)]
=============================================================================
