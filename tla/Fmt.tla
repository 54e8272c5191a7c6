-------------------------------- MODULE Fmt --------------------------------
(***************************************************************************)
(* kernel/src/std/fmt.hh: every message the kernel prints goes through this *)
(* parser of brace specifications and these converters.  A character is a  *)
(* string of length one, a text a sequence of them; the callback that gets *)
(* the characters one at a time is the concatenation of what is returned.  *)
(***************************************************************************)
EXTENDS Integers, Sequences

CONSTANTS
  Word,   \* pow((u32)10, ...) is taken modulo this, 2^32 in the kernel
  Pointer \* the hexadecimal digits of an address, sizeof(void*) * 2

ASSUME FmtAssumption == Word \in Nat \ {0} /\ Pointer \in Nat \ {0}

Glyphs == << "0", "1", "2", "3", "4", "5", "6", "7", "8", "9",
             "a", "b", "c", "d", "e", "f", "g", "h", "i", "j" >>
Units == <<"B", "K", "M", "G", "T", "P", "E">>
Null    == <<"<", "n", "u", "l", "l", ">">>
Invalid == <<"<", "i", "n", "v", "a", "l", "i", "d", ">">>
Nothing == <<"<", "e", "m", "p", "t", "y", ">">>
Dash    == <<" ", "-", " ">>

Fmtflags ==
  [width |-> 0,
   radix |-> 10,        \* a union: the same byte is the scale of a size
   explicit_sign |-> FALSE, unsign |-> FALSE, prefix_radix |-> FALSE,
   align_left |-> FALSE, prefix_zero |-> FALSE, repeat |-> FALSE,
   size |-> FALSE]

Repeated(c, count) == [i \in 1 .. count |-> c]

\* How much is missing when len characters are to fill the width.
Short(f, len) == IF f.width > len THEN f.width - len ELSE 0

\* Blanks on the side away from the text.
fmtpad(f, text) ==
  LET pad == Repeated(" ", Short(f, Len(text)))
  IN  IF f.align_left THEN text \o pad ELSE pad \o text

pow(x, y) == LET p[i \in Nat] == IF i = 0 THEN 1 ELSE p[i - 1] * x % Word IN p[y]

log10(x) == LET l[v \in Nat] == IF v < 10 THEN 0 ELSE 1 + l[v \div 10] IN l[x]

fmtdigit(n) == Glyphs[n + 1]

Digits(n, radix) ==
  LET d[v \in Nat] == IF v = 0 THEN <<>> ELSE Append(d[v \div radix], fmtdigit(v % radix))
  IN  IF n = 0 THEN <<"0">> ELSE d[n]

\* {S} chooses the unit itself, {K} .. {T} have set it.
scale(f, n) ==
  IF f.radix # 0 THEN f.radix
  ELSE LET thousands == log10(n) \div 3 IN IF thousands < 6 THEN thousands ELSE 6

Scaled(f, n) == IF f.size THEN n \div pow(10, scale(f, n) * 3) ELSE n

Unit(f, n) ==
  IF ~ f.size THEN <<>>
  ELSE <<" ", IF scale(f, n) \in 1 .. 6 THEN Units[scale(f, n) + 1] ELSE "B">>

Sign(f, sign) == IF sign THEN <<"-">> ELSE IF f.explicit_sign THEN <<"+">> ELSE <<>>

emit_radix(f, radix) ==
  IF ~ f.prefix_radix THEN <<>>
  ELSE <<"0", CASE radix = 10 -> "d" [] radix = 16 -> "x" [] radix = 8 -> "o"
                [] radix = 2 -> "b" [] OTHER -> "?">>

\* Mutants: what a slip in fmt.hh would make of the definition that follows.
MutFmtMagnitude(f, n, sign) ==
  LET radix  == IF f.size THEN 10 ELSE f.radix
      before == Sign(f, sign) \o emit_radix(f, radix)
      after  == Digits(Scaled(f, n), radix) \o Unit(f, n)
      zeros  == IF f.prefix_zero /\ ~ f.align_left
                THEN Repeated("0", Short(f, Len(after))) ELSE <<>>
  IN  fmtpad(f, before \o zeros \o after)

\* fmt2 for u64 with its sign.  Zeros go between the prefix and the digits,
\* and only when the text is not aligned to the left.
FmtMagnitude(f, n, sign) ==
  LET radix  == IF f.size THEN 10 ELSE f.radix
      before == Sign(f, sign) \o emit_radix(f, radix)
      after  == Digits(Scaled(f, n), radix) \o Unit(f, n)
      zeros  == IF f.prefix_zero /\ ~ f.align_left
                THEN Repeated("0", Short(f, Len(before) + Len(after))) ELSE <<>>
  IN  fmtpad(f, before \o zeros \o after)

\* fmt2 for s64: what {u}, {x}, {o} and {b} show of a negative number is its
\* magnitude.
FmtInteger(f, n) == IF n >= 0 THEN FmtMagnitude(f, n, FALSE) ELSE FmtMagnitude(f, -n, ~ f.unsign)

FmtAddress(f, n) ==
  FmtMagnitude([f EXCEPT !.radix = 16, !.prefix_zero = TRUE, !.unsign = TRUE,
                         !.width = IF f.prefix_radix THEN Pointer + 2 ELSE Pointer],
               n, FALSE)

FmtChar(f, c) == IF f.repeat THEN Repeated(c, f.width) ELSE fmtpad(f, <<c>>)

FmtBool(f, b) == fmtpad(f, IF b THEN <<"t", "r", "u", "e">> ELSE <<"f", "a", "l", "s", "e">>)

\* What the buffer of a span holds before its terminator: the digits of its
\* type, which is not always an address.
SpanBuffer == 8 * 2 * 2 + 3 + 1

SpanText(digits, start, length) ==
  LET f2 == [Fmtflags EXCEPT !.width = digits, !.radix = 16, !.prefix_zero = TRUE]
  IN  FmtInteger(f2, start) \o Dash
      \o (IF length = 0 THEN fmtpad(f2, Nothing) ELSE FmtInteger(f2, start + length))

FmtSpan(f, a) == fmtpad(f, IF a.valid THEN SpanText(a.digits, a.start, a.length) ELSE Invalid)

\* The overloads of fmt2: Optional and Either show what they hold.
fmt2(f, a) ==
  CASE a.type = "integer" -> FmtInteger(f, a.n)
    [] a.type = "address" -> FmtAddress(f, a.n)
    [] a.type = "string"  -> fmtpad(f, a.text)
    [] a.type = "null"    -> fmtpad(f, Null)
    [] a.type = "char"    -> FmtChar(f, a.c)
    [] a.type = "bool"    -> FmtBool(f, a.b)
    [] a.type = "span"    -> FmtSpan(f, a)
-----------------------------------------------------------------------------
Numeral == [c \in {Glyphs[i] : i \in 1 .. 10} |-> CHOOSE i \in 0 .. 9 : Glyphs[i + 1] = c]

isnum(c) == c \in DOMAIN Numeral

\* What a character between the braces does to the flags.  A zero is a flag
\* only while no width has been given, and r turns the width into the radix.
Flag(f, c) ==
  CASE c = "0" /\ f.width = 0 -> [f EXCEPT !.prefix_zero = TRUE]
    [] c = "r" /\ f.width > 1 -> [f EXCEPT !.radix = f.width, !.width = 0]
    [] isnum(c) -> [f EXCEPT !.width = 10 * @ + Numeral[c]]
    [] c = "u" -> [f EXCEPT !.unsign = TRUE]
    [] c = "x" -> [f EXCEPT !.unsign = TRUE, !.radix = 16]
    [] c = "o" -> [f EXCEPT !.unsign = TRUE, !.radix = 8]
    [] c = "b" -> [f EXCEPT !.unsign = TRUE, !.radix = 2]
    [] c = "S" -> [f EXCEPT !.size = TRUE, !.radix = 0]
    [] c = "K" -> [f EXCEPT !.size = TRUE, !.radix = 1]
    [] c = "M" -> [f EXCEPT !.size = TRUE, !.radix = 2]
    [] c = "G" -> [f EXCEPT !.size = TRUE, !.radix = 3]
    [] c = "T" -> [f EXCEPT !.size = TRUE, !.radix = 4]
    [] c = "-" -> [f EXCEPT !.align_left = TRUE]
    [] c = "+" -> [f EXCEPT !.explicit_sign = TRUE]
    [] c = "#" -> [f EXCEPT !.prefix_radix = TRUE]
    [] c = "~" -> [f EXCEPT !.repeat = TRUE]
    [] OTHER -> f

\* Where the parser is: between braces or not, the flags so far, how many
\* arguments it has used, and what it has written.
Parser == [in_brace |-> FALSE, flags |-> Fmtflags, used |-> 0, out |-> <<>>]

\* fmt1 on one character.  The last argument gone, fmt writes the rest as it
\* stands, braces included.
fmt1(p, c, args) ==
  IF p.used = Len(args) THEN [p EXCEPT !.out = Append(@, c)]
  ELSE IF ~ p.in_brace
  THEN IF c = "{" THEN [p EXCEPT !.in_brace = TRUE] ELSE [p EXCEPT !.out = Append(@, c)]
  ELSE CASE c = "}" -> [Parser EXCEPT !.used = p.used + 1,
                                      !.out = p.out \o fmt2(p.flags, args[p.used + 1])]
         [] c = "{" -> [Parser EXCEPT !.used = p.used, !.out = Append(p.out, c)]
         [] OTHER -> [p EXCEPT !.flags = Flag(@, c)]

fmt(s, args) ==
  LET parser[i \in 0 .. Len(s)] == IF i = 0 THEN Parser ELSE fmt1(parser[i - 1], s[i], args)
  IN  parser[Len(s)].out
-----------------------------------------------------------------------------
(* The laws, stated on what is printed and not on how.                     *)

\* The number a text of digits stands for.
Value(text, radix) ==
  LET v[i \in 0 .. Len(text)] ==
        IF i = 0 THEN 0
        ELSE v[i - 1] * radix + CHOOSE d \in 0 .. radix - 1 : Glyphs[d + 1] = text[i]
  IN  v[Len(text)]

IsDigits(text, radix) == \A i \in 1 .. Len(text) : \E d \in 0 .. radix - 1 : Glyphs[d + 1] = text[i]

Magnitude(n) == IF n < 0 THEN -n ELSE n

\* Before the digits: a minus exactly for a negative number that keeps its
\* sign, a plus only when one is asked for, and the letter of the radix.
Prefix(f, n, radix) ==
  (IF n < 0 /\ ~ f.unsign THEN <<"-">> ELSE IF f.explicit_sign THEN <<"+">> ELSE <<>>)
  \o (IF f.prefix_radix
      THEN <<"0", CHOOSE c \in {"b", "o", "d", "x", "?"} :
                    CASE c = "b" -> radix = 2 [] c = "o" -> radix = 8 [] c = "d" -> radix = 10
                      [] c = "x" -> radix = 16 [] OTHER -> radix \notin {2, 8, 10, 16}>>
      ELSE <<>>)

\* A printed number is its prefix and digits that stand for it, without a
\* leading zero; the width is filled with blanks on the side it is not
\* aligned to or with zeros after the prefix, and never cuts the number.
NumberLaw(f, n, text) ==
  \E left, zeros, right \in 0 .. Len(text) :
    LET before == Prefix(f, n, f.radix)
        digits == SubSeq(text, left + Len(before) + zeros + 1, Len(text) - right)
    IN  /\ left + Len(before) + zeros + right < Len(text)
        /\ text = Repeated(" ", left) \o before \o Repeated("0", zeros) \o digits \o Repeated(" ", right)
        /\ IsDigits(digits, f.radix) /\ Value(digits, f.radix) = Magnitude(n)
        /\ digits[1] = "0" => Len(digits) = 1
        /\ (left > 0 => ~ f.align_left /\ ~ f.prefix_zero) /\ (zeros > 0 => f.prefix_zero /\ ~ f.align_left)
        /\ (right > 0 => f.align_left)
        /\ IF left + zeros + right > 0 THEN Len(text) = f.width ELSE Len(text) >= f.width

\* A printed size is the whole number of its unit and fills its width; {S}
\* takes the largest unit of which there is at least one.
Power(u) == LET p[i \in Nat] == IF i = 0 THEN 1 ELSE 1000 * p[i - 1] IN p[u]

SizeLaw(f, n, text) ==
  \E left \in 0 .. Len(text), u \in 0 .. 2 :
    LET digits == SubSeq(text, left + 1, Len(text) - 2)
    IN  /\ left + 2 < Len(text)
        /\ text = Repeated(" ", left) \o digits \o <<" ", Units[u + 1]>>
        /\ IsDigits(digits, 10) /\ Value(digits, 10) = n \div Power(u)
        /\ IF f.radix = 0 THEN u = 2 \/ n < Power(u + 1) ELSE u = f.radix
        /\ f.radix = 0 /\ u > 0 => n >= Power(u)
        /\ IF left > 0 THEN Len(text) = f.width ELSE Len(text) >= f.width

\* Anything else is never cut, and blanks fill the width on one side.
TextLaw(f, shown, text) ==
  \E left, right \in 0 .. Len(text) :
    /\ text = Repeated(" ", left) \o shown \o Repeated(" ", right)
    /\ (left > 0 => ~ f.align_left) /\ (right > 0 => f.align_left)
    /\ IF left + right > 0 THEN Len(text) = f.width ELSE Len(text) >= f.width

\* The two bounds of a span stand in columns of their own, and there is room
\* for them and a terminator.
SpanLaw(a, text) ==
  LET column(i) == SubSeq(text, i, i + a.digits - 1)
  IN  /\ Len(text) = 2 * a.digits + 3 /\ Len(text) < SpanBuffer
      /\ Value(column(1), 16) = a.start
      /\ SubSeq(text, a.digits + 1, a.digits + 3) = Dash
      /\ IF a.length = 0 THEN column(a.digits + 4) = Repeated(" ", a.digits - 7) \o Nothing
         ELSE Value(column(a.digits + 4), 16) = a.start + a.length

\* An address is never shorter or longer than a pointer: columns of them line
\* up.
AddressLaw(f, n, text) ==
  LET before == IF f.prefix_radix THEN <<"0", "x">> ELSE <<>>
      digits == SubSeq(text, Len(before) + 1, Len(text))
  IN  /\ Len(text) = Len(before) + Pointer
      /\ SubSeq(text, 1, Len(before)) = before
      /\ IsDigits(digits, 16) /\ Value(digits, 16) = n
=============================================================================
