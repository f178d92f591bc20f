----------------------------- MODULE Identifiers -----------------------------
(***************************************************************************)
(* The parsers of include/policy/imsi.hpp, which the subscriber file and   *)
(* the HTTP front's queries share.                                         *)
(*                                                                         *)
(* A field of text is a tagged tuple, so that what the parsers tell apart  *)
(* is visible and its characters are not:                                  *)
(*   <<"num", d, v>>            d decimal digits of value v                *)
(*   <<"plmn", d, m, e, n>>     d digits m, a separator, e digits n        *)
(*   <<"flags", S>>             the names S joined by '|'                  *)
(*   <<"text", s>>              anything else                              *)
(***************************************************************************)
EXTENDS Integers

CONSTANT kU64  \* 2^64 in the code

Num(d, v) == <<"num", d, v>>
Text(s) == <<"text", s>>

kImsiDigits == 15
kImeiDigits == 15

\* std::nullopt: no field has a negative value.
Bad == -1

\* Decimal digits only, at least one and at most max of them.
parse_digits(f, max) == IF f[1] = "num" /\ f[2] <= max THEN f[3] ELSE Bad

parse_imsi(f) == parse_digits(f, kImsiDigits)

parse_imei(f) == IF f = Text("") THEN 0 ELSE parse_digits(f, kImeiDigits)

make_plmn(mcc, mnc) == mcc * 1000 + mnc

\* Bare digits are cut after the third: 5 digits leave a two-digit MNC.
parse_plmn(f) ==
    CASE f[1] = "num" /\ f[2] = 5 -> make_plmn(f[3] \div 100, f[3] % 100)
      [] f[1] = "num" /\ f[2] = 6 -> make_plmn(f[3] \div 1000, f[3] % 1000)
      [] f[1] = "plmn" /\ f[2] = 3 /\ f[4] \in {2, 3} -> make_plmn(f[3], f[5])
      [] OTHER -> Bad

=============================================================================
