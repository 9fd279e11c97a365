------------------------------ MODULE Support ------------------------------
(***************************************************************************)
(* The helpers the rest of the library calls for text and for time.        *)
(*                                                                         *)
(* fmt_context collects what fmt is given in a buffer of its own, and from *)
(* the moment that is too small in the caller's string; it tells the two   *)
(* apart by its offset alone.  Characters are the numbers of the pieces    *)
(* they belong to, 0 is what nobody has written.                           *)
(*                                                                         *)
(* The formats given to snprintf, the conversions between UTF-8, UTF-16    *)
(* and UTF-32 and calc_wait_time are functions; spec, text and clock are   *)
(* their inputs.                                                           *)
(***************************************************************************)
EXTENDS Integers, Sequences, SequencesExt

CONSTANTS
  BufSize, Rounding,   \* 2048 and 512 in the code
  Lengths, MaxPieces,  \* lengths and number of the pieces given to fmt
  SpecSize, MaxFlags,  \* 32 in the code; bound on the flags in a spec
  CodePoints, MaxText, \* the characters of the texts converted, bound on their length
  MsPerSec, UsPerMs, NsPerUs, Word  \* the units of time, 2^64

ASSUME SupportAssumption ==
  /\ {BufSize, Rounding, SpecSize, MsPerSec, UsPerMs, NsPerUs, Word} \subseteq Nat \ {0}
  /\ {MaxPieces, MaxFlags, MaxText} \subseteq Nat /\ Lengths \subseteq Nat /\ CodePoints \subseteq Nat

VARIABLES
  offset,  \* offset_
  sbuf,    \* sbuf_, the stack buffer
  joined,  \* joined_, the caller's string
  given,   \* what fmt has been given and has accepted
  asked,   \* the number of pieces so far
  spec,    \* an argument's type and the flags and conversion asked for it
  text,    \* a text, as its code points
  clock    \* the time and the timeout given to calc_wait_time

supportVars == <<offset, sbuf, joined, given, asked, spec, text, clock>>
fmtVars     == <<offset, sbuf, joined, given, asked>>

-----------------------------------------------------------------------------
(* fmt_context *)

fmt_init ==
  /\ offset = 0 /\ sbuf = [i \in 1 .. BufSize |-> 0] /\ joined = <<>>
  /\ given = <<>> /\ asked = 0

Roundup(size) == (size \div Rounding) * Rounding + Rounding

\* std::string::resize
Resize(s, size) == [i \in 1 .. size |-> IF i <= Len(s) THEN s[i] ELSE 0]

\* Slip: filling the buffer to the last character.
SlipRoom(size) == offset + size <= BufSize

\* Is the stack buffer in use, and large enough for size more?
Room(size) == offset + size < BufSize

\* buffer(size): the stack buffer or the string as it will be written to, the
\* latter with the former's content if this is where they change over.
buffer(size) ==
  IF offset < BufSize
    THEN IF Room(size) THEN sbuf ELSE Resize(SubSeq(sbuf, 1, offset), Roundup(offset + size))
    ELSE IF offset + size >= Len(joined) THEN Resize(joined, Roundup(offset + size)) ELSE joined

InBuffer(size) == offset < BufSize /\ Room(size)

\* n characters c written at offset.
Put(s, n, c) == [i \in DOMAIN s |-> IF i \in offset + 1 .. offset + n THEN c ELSE s[i]]

Store(size, s) == IF InBuffer(size) THEN sbuf' = s /\ UNCHANGED joined
                                    ELSE joined' = s /\ UNCHANGED sbuf

Accept(n) ==
  /\ given' = given \o [i \in 1 .. n |-> asked + 1]
  /\ asked < MaxPieces /\ asked' = asked + 1
  /\ offset' = offset + n

append(n) ==
  /\ Store(n, Put(buffer(n), n, asked + 1))
  /\ Accept(n)

\* sprintf tries with the room there is; snprintf writes what fits and a zero
\* after it, and says how much there would have been ...
sprintf_fits(n) ==
  /\ n < Len(buffer(0)) - offset
  /\ Store(0, [Put(buffer(0), n, asked + 1) EXCEPT ![offset + n + 1] = 0])
  /\ Accept(n)

\* ... and a second time, with that much and one more.
sprintf_again(n) ==
  LET first == buffer(0)
      put   == [Put(first, Len(first) - offset - 1, asked + 1) EXCEPT ![Len(first)] = 0]
  IN /\ n >= Len(first) - offset
     /\ IF InBuffer(0)
          THEN /\ sbuf' = put
               /\ joined' = Put(Resize(SubSeq(put, 1, offset), Roundup(offset + n + 1)), n, asked + 1)
          ELSE /\ joined' = Put(Resize(put, IF offset + n + 1 >= Len(put)
                                              THEN Roundup(offset + n + 1) ELSE Len(put)), n, asked + 1)
               /\ UNCHANGED sbuf
     /\ Accept(n)

\* The string cannot grow: the piece is refused and nothing has changed but,
\* where they change over, the string, which is not in use yet.
append_fails(n) ==
  /\ ~InBuffer(n) /\ asked < MaxPieces
  /\ joined' = IF offset < BufSize THEN SubSeq(sbuf, 1, offset) ELSE joined
  /\ asked' = asked + 1
  /\ UNCHANGED <<offset, sbuf, given>>

\* What finish leaves in the caller's string.
finish == IF offset < BufSize THEN SubSeq(sbuf, 1, offset) ELSE Resize(joined, offset)

\* reset: the context is used again.
fmt_reset ==
  /\ offset' = 0 /\ given' = <<>>
  /\ UNCHANGED <<sbuf, joined, asked>>

FmtNext ==
  \/ \E n \in Lengths : append(n) \/ sprintf_fits(n) \/ sprintf_again(n) \/ append_fails(n)
  \/ fmt_reset

-----------------------------------------------------------------------------
(* The format that snprintf is given: a percent sign, what the caller asks *)
(* for in spec, the length of the argument's type and a conversion, put    *)
(* together in a buffer of SpecSize characters.  A literal has a zero at   *)
(* its end, a span need not have one.                                      *)

Zero == "\\0"
Literal(chars) == Append(chars, Zero)

normalize(a) == IF a # <<>> /\ Last(a) = Zero THEN Front(a) ELSE a

\* Slip: no room for the zero after the format.
SlipCopy(room, a) == SubSeq(normalize(a), 1, Min({room, Len(normalize(a))}))

\* What of a is copied into room characters: there is a zero to follow.
smem_cpy(room, a) == SubSeq(normalize(a), 1, Min({room - 1, Len(normalize(a))}))

sbuf_cat(args) ==
  FoldLeft(LAMBDA out, a : out \o smem_cpy(SpecSize - Len(out), a), <<>>, args)

fmt_of(fstr, s) == sbuf_cat(<<Literal(<<"%">>), fstr, s>>)

\* The conversion is the caller's if it is one of conversions, which goes
\* behind the length, and otherwise the type's own.
fmt_by(fstr, l, conversions, own) ==
  LET f == normalize(fstr) IN
  IF fstr = <<>> THEN fmt_of(l, Literal(<<own>>))
  ELSE IF Last(f) \in conversions
    THEN sbuf_cat(<<Literal(<<"%">>), Front(f), l, <<Last(f)>>>>)
    ELSE sbuf_cat(<<Literal(<<"%">>), f, l, Literal(<<own>>)>>)

fmt_of_unsigned(fstr, l) == fmt_by(fstr, l, {"o", "x", "X", "u"}, "u")

fmt_of_signed(fstr, l) ==
  IF fstr # <<>> /\ Last(normalize(fstr)) \in {"o", "x", "X", "u"}
    THEN fmt_of_unsigned(normalize(fstr), l)
    ELSE fmt_by(fstr, l, {}, "d")

fmt_of_float(fstr, l) == fmt_by(fstr, l, {"e", "E", "g", "G"}, "f")

\* to_string: how each type is converted, and its length.
Types == {"short", "int", "long", "long long"} \X {"signed", "unsigned"} \cup
         {"double", "long double"} \X {"float"}

Length(type) ==
  CASE type[1] = "short" -> <<"h">> [] type[1] = "long" -> <<"l">> [] type[1] = "long long" -> <<"l", "l">>
    [] type[1] = "long double" -> <<"L">> [] OTHER -> <<>>

to_string(type, fstr) ==
  LET l == Literal(Length(type)) IN
  CASE type[2] = "signed"   -> fmt_of_signed(fstr, l)
    [] type[2] = "unsigned" -> fmt_of_unsigned(fstr, l)
    [] type[2] = "float"    -> fmt_of_float(fstr, l)

\* The format of a time for put_time, which takes it up to the zero.
as_cstr(fstr) == IF fstr = <<>> \/ Last(fstr) = Zero THEN normalize(fstr) ELSE smem_cpy(SpecSize, fstr)

Conversions(type) == CASE type[2] = "float" -> {"e", "E", "g", "G"} [] OTHER -> {"o", "x", "X", "u"}
Own(type) == CASE type[2] = "signed" -> "d" [] type[2] = "unsigned" -> "u" [] OTHER -> "f"

\* What callers give spec: flags and perhaps a conversion of the argument's
\* type, as a literal.  Without a spec there is not even the zero.
Specs == {s \in [type : Types, flags : 0 .. MaxFlags, conv : {"none", "x", "u", "e", "G"}, given : BOOLEAN] :
  /\ s.conv = "none" \/ s.conv \in Conversions(s.type)
  /\ s.given <=> s.flags > 0 \/ s.conv # "none"}

NoSpec == [type |-> <<"int", "signed">>, flags |-> 0, conv |-> "none", given |-> FALSE]

Flags(s) == [i \in 1 .. s.flags |-> "0"]
Conv(s)  == IF s.conv = "none" THEN <<>> ELSE <<s.conv>>

-----------------------------------------------------------------------------
(* Conversions.  A conversion that fails returns 0, here the empty text.   *)

\* What a unit of the last byte, the one before it, ... stands for, six bits each.
Shift == <<1, 64, 4096, 262144, 16777216, 1073741824>>

\* UTF-32 to UTF-8: how many bytes, then six bits each from the last byte on.
utf8_of(c) ==
  LET up  == <<128, 2048, 65536, 2097152, 67108864>>
      pre == <<0, 192, 224, 240, 248, 252>>
      len == IF c >= up[5] THEN 6 ELSE CHOOSE i \in 1 .. 5 : c < up[i] /\ (i = 1 \/ c >= up[i - 1])
  IN IF c = 0 \/ c > 2147483647 THEN <<>>
     ELSE [i \in 1 .. len |-> IF i = 1 THEN (c \div Shift[len]) + pre[len]
                              ELSE ((c \div Shift[len + 1 - i]) % 64) + 128]

Bad == [len |-> 0, c |-> 0]

\* UTF-8 to UTF-32, the character at i: how many bytes it is and the character.
utf32_of8(s, i) ==
  LET b    == s[i]
      len  == IF b < 224 THEN 2 ELSE IF b < 240 THEN 3 ELSE IF b < 248 THEN 4
              ELSE IF b < 252 THEN 5 ELSE 6
      mask == <<128, 32, 16, 8, 4, 2>>
      bits[j \in 1 .. 6] == IF j = 1 THEN b % mask[len] ELSE bits[j - 1] * 64 + (s[i + j - 1] % 64)
  IN IF b = 0 THEN Bad
     ELSE IF b < 128 THEN [len |-> 1, c |-> b]
     ELSE IF b < 192 \/ b > 253 \/ i + len - 1 > Len(s) THEN Bad
     ELSE IF \E j \in 1 .. len - 1 : s[i + j] \notin 128 .. 191 THEN Bad
     ELSE [len |-> len, c |-> bits[len]]

\* Slip: surrogates that are not moved down by 0x10000.
SlipUtf16(c) ==
  IF c = 0 THEN <<>> ELSE IF c <= 65535 THEN <<c>>
  ELSE IF c <= 983039 THEN <<55296 + c \div 1024, 56320 + (c % 1024)>> ELSE <<>>

\* UTF-32 to UTF-16, up to 0xEFFFF.
utf16_of(c) ==
  IF c = 0 THEN <<>> ELSE IF c <= 65535 THEN <<c>>
  ELSE IF c <= 983039 THEN <<55296 + c \div 1024 - 64, 56320 + (c % 1024)>> ELSE <<>>

utf32_of16(s, i) ==
  LET w == s[i] IN
  IF w = 0 \/ w \in 56320 .. 57343 THEN Bad
  ELSE IF w \notin 55296 .. 56319 THEN [len |-> 1, c |-> w]
  ELSE IF i = Len(s) \/ s[i + 1] \notin 56320 .. 57343 THEN Bad
  ELSE [len |-> 2, c |-> (s[i + 1] % 1024) + ((w % 1024) + 64) * 1024]

\* What the loops see of a text: it ends where it has a zero.
CStr(s) == SubSeq(s, 1, Min({i \in 1 .. Len(s) : s[i] = 0} \cup {Len(s) + 1}) - 1)

\* A UTF-32 text in another form, "utf8" or "utf16": all of it or nothing.
encode(text32, form) ==
  LET s     == CStr(text32)
      units == [i \in 1 .. Len(s) |-> IF form = "utf8" THEN utf8_of(s[i]) ELSE utf16_of(s[i])]
  IN IF \E i \in 1 .. Len(s) : units[i] = <<>> THEN <<>> ELSE FlattenSeq(units)

\* A text in another form as UTF-32, in the same way.
decode(units, form) ==
  LET s == CStr(units)
      from[i \in 1 .. Len(s) + 1] ==
        IF i > Len(s) THEN [ok |-> TRUE, t |-> <<>>]
        ELSE LET x == IF form = "utf8" THEN utf32_of8(s, i) ELSE utf32_of16(s, i) IN
             IF x.len = 0 THEN [ok |-> FALSE, t |-> <<>>]
             ELSE LET rest == from[i + x.len] IN [rest EXCEPT !.t = <<x.c>> \o @]
  IN IF from[1].ok THEN from[1].t ELSE <<>>

\* UTF-8 and UTF-16 into each other, a character at a time by way of UTF-32.
utf8_to_16(s) == encode(decode(s, "utf8"), "utf16")
utf16_to_8(s) == encode(decode(s, "utf16"), "utf8")

TextNext == \E c \in CodePoints : Len(text) < MaxText /\ text' = Append(text, c)

-----------------------------------------------------------------------------
(* calc_wait_time: the time tm milliseconds from now. *)

NsPerMs  == UsPerMs * NsPerUs
NsPerSec == MsPerSec * NsPerMs

\* Slip: the nanoseconds run over.
SlipAdd(ts, add) == [sec |-> ts.sec + add \div NsPerSec, nsec |-> ts.nsec + (add % NsPerSec)]

a0_clock_add(ts, add) ==
  LET sec == ts.sec + add \div NsPerSec  nsec == ts.nsec + (add % NsPerSec) IN
  IF nsec >= NsPerSec THEN [sec |-> sec + 1, nsec |-> nsec - NsPerSec] ELSE [sec |-> sec, nsec |-> nsec]

NoTime == [sec |-> -1, nsec |-> 0]

\* Linux: tm in nanoseconds, in a signed word; a negative one is refused.
wait_time_linux(now, tm) ==
  LET add == (tm * NsPerMs) % Word IN
  IF add >= Word \div 2 THEN NoTime ELSE a0_clock_add(now, add)

\* Elsewhere: seconds and the rest apart, from a clock of microseconds.
wait_time_posix(now, tm) ==
  LET nsec == (now.nsec \div NsPerUs + (tm % MsPerSec) * UsPerMs) * NsPerUs
  IN [sec |-> now.sec + tm \div MsPerSec + nsec \div NsPerSec, nsec |-> nsec % NsPerSec]

Clocks == [tm : 0 .. Word \div NsPerMs - 1, nsec : 0 .. NsPerSec - 1]

-----------------------------------------------------------------------------
(* Properties. *)

\* fmt returns what it was given, piece after piece, wherever the change from
\* the stack buffer to the string falls and however often snprintf had to be
\* called; a piece that was refused leaves no trace.
FmtWhole == finish = given

\* snprintf gets the caller's flags, then the length of the argument's type,
\* then one conversion, the caller's or the type's; a format that does not fit
\* loses its end, and there is room for a zero behind it in any case.  A time's
\* format is not cut.
FormatRight ==
  LET fstr == IF spec.given THEN Literal(Flags(spec) \o Conv(spec)) ELSE <<>>
      conv == IF spec.conv = "none" THEN <<Own(spec.type)>> ELSE Conv(spec)
      want == <<"%">> \o Flags(spec) \o Length(spec.type) \o conv
      got  == to_string(spec.type, fstr)
  IN /\ Len(got) < SpecSize
     /\ IF Len(want) < SpecSize THEN got = want ELSE got = SubSeq(want, 1, SpecSize - 1)
     /\ as_cstr(fstr) = normalize(fstr)

\* A text, to its first zero, comes back from UTF-8 and from UTF-16 as it was,
\* and the two turn into each other, for every character up to 0xEFFFF that is
\* no surrogate; a text with a character above has no UTF-16 form, one with a
\* surrogate does not come back from UTF-16, and one with a character above
\* 0x7FFFFFFF has no UTF-8 form either.
RoundTrip ==
  LET s    == CStr(text)
      Has(S) == \E i \in 1 .. Len(s) : s[i] \in S
      u8   == encode(text, "utf8")  u16 == encode(text, "utf16")
  IN /\ IF Has({c \in CodePoints : c > 2147483647}) THEN u8 = <<>>
        ELSE decode(u8, "utf8") = s /\ utf8_to_16(u8) = u16
     /\ IF Has({c \in CodePoints : c > 983039}) THEN u16 = <<>>
        ELSE Has(55296 .. 57343) \/ (decode(u16, "utf16") = s /\ utf16_to_8(u16) = u8)

\* The deadline is tm after now and a proper time, on both platforms, as long
\* as tm in nanoseconds fits into an unsigned word; what does not fit into a
\* signed one is refused on Linux.
DeadlineRight ==
  LET now == [sec |-> 0, nsec |-> clock.nsec]
      Right(ts, from) == /\ ts.nsec \in 0 .. NsPerSec - 1
                         /\ ts.sec * NsPerSec + ts.nsec = from + clock.tm * NsPerMs
      linux == wait_time_linux(now, clock.tm)
  IN /\ IF clock.tm * NsPerMs >= Word \div 2 THEN linux = NoTime ELSE Right(linux, now.nsec)
     /\ Right(wait_time_posix(now, clock.tm), now.nsec - (now.nsec % NsPerUs))
=============================================================================
