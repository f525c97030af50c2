-------------------------------- MODULE Text ---------------------------------
(***************************************************************************)
(* Formatted output: dopr and the conversions of kernel/snprintf.cc.  Text  *)
(* is a sequence of characters; a format is one too.                        *)
(***************************************************************************)
EXTENDS Integers, SequencesExt

CONSTANTS Long,         \* values of a long (2^32)
          Scale,        \* denominator of the values for %f
          NullString    \* the null pointer, for %s

LOCAL Fill(c, n) == [k \in 1 .. n |-> c]
LOCAL Larger(a, b) == IF a >= b THEN a ELSE b
LOCAL Least(a, b) == IF a <= b THEN a ELSE b

Digit == <<"0", "1", "2", "3", "4", "5", "6", "7", "8", "9", "a", "b", "c", "d", "e", "f">>
DIGIT == <<"0", "1", "2", "3", "4", "5", "6", "7", "8", "9", "A", "B", "C", "D", "E", "F">>
IsDigit(c) == \E k \in 1 .. 10 : Digit[k] = c
ToInt(c) == CHOOSE k \in 0 .. 9 : Digit[k + 1] = c

pow10(exp) == 10^exp

(* The do-while loop that fills convert: most significant digit first here, *)
(* at most 19 of them.                                                      *)
RECURSIVE Places(_, _, _, _)
Places(value, base, digits, place) ==
  LET more == IF value < base \/ place = 19 THEN << >>
              ELSE Places(value \div base, base, digits, place + 1)
  IN Append(more, digits[(value % base) + 1])
convert(value, base, digits) == Places(value, base, digits, 1)

SignOf(negative, flags) ==
  IF negative THEN <<"-">> ELSE IF "+" \in flags THEN <<"+">>
  ELSE IF " " \in flags THEN <<" ">> ELSE << >>

(* fmtstr; max counts the padding too.                                      *)
fmtstr(string, flags, min, max) ==
  LET value == IF string = NullString THEN <<"<", "N", "U", "L", "L", ">">> ELSE string
      pad == Fill(" ", Larger(min - Len(value), 0))
      all == IF "-" \in flags THEN value \o pad ELSE pad \o value
  IN SubSeq(all, 1, Least(max, Len(all)))

fmtint(value, base, min, max, flags) ==
  LET signed == "unsigned" \notin flags
      negative == signed /\ value < 0
      digits == convert(IF negative THEN -value ELSE value % Long, base,
                        IF "up" \in flags THEN DIGIT ELSE Digit)
      sign == IF signed THEN SignOf(negative, flags) ELSE << >>
      z == Larger(max - Len(digits), 0)
      s == Larger(min - Larger(Larger(max, 0), Len(digits)) - Len(sign), 0)
      zeros == Fill("0", IF "0" \in flags THEN Larger(z, s) ELSE z)
      spaces == Fill(" ", IF "0" \in flags THEN 0 ELSE s)
  IN IF "-" \in flags THEN sign \o zeros \o digits \o spaces
                      ELSE spaces \o sign \o zeros \o digits

(* fmtfp of value / Scale: the fraction as an integer of max digits,        *)
(* rounded; its digits are printed before the zeros that fill them up.      *)
(* Mutant: a fraction that rounds up to 1 is not carried.                   *)
Rounded(value, max) ==
  LET scaled == pow10(max) * (value % Scale)
  IN scaled \div Scale + (IF 2 * (scaled % Scale) >= Scale THEN 1 ELSE 0)
CarriedNever(value, max) == [int |-> value \div Scale, frac |-> Rounded(value, max)]
Carried(value, max) ==
  IF Rounded(value, max) >= pow10(max)
  THEN [int |-> value \div Scale + 1, frac |-> Rounded(value, max) - pow10(max)]
  ELSE [int |-> value \div Scale, frac |-> Rounded(value, max)]

fmtfp(value, min, precision, flags) ==
  LET max == IF precision < 0 THEN 6 ELSE Least(precision, 9)
      parts == Carried(IF value < 0 THEN -value ELSE value, max)
      sign == SignOf(value < 0, flags)
      int == convert(parts.int, 10, Digit)
      frac == convert(parts.frac, 10, Digit)
      pad == Larger(min - Len(int) - max - 1 - Len(sign), 0)
      number == int \o (IF max > 0 THEN <<".">> \o frac ELSE << >>)
                  \o Fill("0", Larger(max - Len(frac), 0))
  IN IF "-" \in flags THEN sign \o number \o Fill(" ", pad)
     ELSE IF "0" \in flags
     THEN sign \o Fill("0", IF pad > 0 THEN pad - Len(sign) ELSE 0) \o number
     ELSE Fill(" ", pad) \o sign \o number

----------------------------------------------------------------------------
(* dopr: the state machine over the format.  ch is the character in hand,   *)
(* "end" the terminator; i is where format points.                          *)
At(format, i) == IF i <= Len(format) THEN format[i] ELSE "end"
Start(format, args) ==
  [state |-> "DEFAULT", ch |-> At(format, 1), i |-> 2, flags |-> {}, min |-> 0, max |-> -1,
   out |-> << >>, args |-> args, counts |-> << >>]

Go(s, state) == [s EXCEPT !.state = state]
Read(format, s) == [s EXCEPT !.ch = At(format, s.i), !.i = @ + 1]
Arg(s) == Head(s.args)
Used(s) == [s EXCEPT !.args = Tail(@)]
Out(s, text) == [s EXCEPT !.out = @ \o text]

(* %n stores the number of characters so far through its argument; what is  *)
(* stored is kept in counts.                                                *)
Count(s) == [s EXCEPT !.counts = Append(@, Len(s.out))]

(* After a conversion.                                                      *)
Reset(s) == [s EXCEPT !.state = "DEFAULT", !.flags = {}, !.min = 0, !.max = -1]

IntOut(s, base, flags) == Out(Used(s), fmtint(Arg(s), base, s.min, s.max, s.flags \cup flags))

Conversion(format, s, maxlen) ==
  CASE s.ch \in {"d", "i"} -> IntOut(s, 10, {})
    [] s.ch = "o" -> IntOut(s, 8, {"unsigned"})
    [] s.ch = "u" -> IntOut(s, 10, {"unsigned"})
    [] s.ch = "x" -> IntOut(s, 16, {"unsigned"})
    [] s.ch = "X" -> IntOut(s, 16, {"unsigned", "up"})
    [] s.ch = "p" -> IntOut(s, 16, {})
    [] s.ch = "f" -> Out(Used(s), fmtfp(Arg(s), s.min, s.max, s.flags))
    [] s.ch \in {"e", "E", "g", "G"} -> Used(s)
    [] s.ch = "n" -> Count(Used(s))
    [] s.ch = "c" -> Out(Used(s), <<Arg(s)>>)
    [] s.ch = "s" -> Out(Used(s), fmtstr(Arg(s), s.flags, s.min, IF s.max < 0 THEN maxlen ELSE s.max))
    [] s.ch = "%" -> Out(s, <<"%">>)
    [] s.ch = "w" -> Read(format, s)
    [] OTHER -> s

(* What ends the loop.                                                      *)
Stops(s, maxlen) == s.ch = "end" \/ Len(s.out) >= maxlen

(* One round of the while loop.                                             *)
Step(format, s, maxlen) ==
  IF Stops(s, maxlen) THEN Go(s, "DONE")
  ELSE CASE s.state = "DEFAULT" -> Read(format, IF s.ch = "%" THEN Go(s, "FLAGS") ELSE Out(s, <<s.ch>>))
         [] s.state = "FLAGS" ->
              IF s.ch \in {"-", "+", " ", "#", "0"}
              THEN Read(format, [s EXCEPT !.flags = @ \cup {s.ch}]) ELSE Go(s, "MIN")
         [] s.state = "MIN" ->
              IF IsDigit(s.ch) THEN Read(format, [s EXCEPT !.min = 10 * @ + ToInt(s.ch)])
              ELSE IF s.ch = "*" THEN Go(Read(format, Used([s EXCEPT !.min = Arg(s)])), "DOT")
              ELSE Go(s, "DOT")
         [] s.state = "DOT" -> IF s.ch = "." THEN Go(Read(format, s), "MAX") ELSE Go(s, "MOD")
         [] s.state = "MAX" ->
              IF IsDigit(s.ch) THEN Read(format, [s EXCEPT !.max = 10 * Larger(@, 0) + ToInt(s.ch)])
              ELSE IF s.ch = "*" THEN Go(Read(format, Used([s EXCEPT !.max = Arg(s)])), "MOD")
              ELSE Go(s, "MOD")
         [] s.state = "MOD" -> Go(IF s.ch \in {"h", "l", "L"} THEN Read(format, s) ELSE s, "CONV")
         [] s.state = "CONV" -> Read(format, Reset(Conversion(format, s, maxlen)))

RECURSIVE Loop(_, _, _)
Loop(format, s, maxlen) ==
  IF s.state = "DONE" THEN s ELSE Loop(format, Step(format, s, maxlen), maxlen)

dopr(format, args, maxlen) == Loop(format, Start(format, args), maxlen)
==============================================================================
