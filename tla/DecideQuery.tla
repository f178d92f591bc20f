---------------------------- MODULE DecideQuery ----------------------------
(***************************************************************************)
(* parse_decide_query() of src/http_front.cpp: the query of GET /v1/decide,  *)
(* a sequence of pairs <<key, value>>, becomes a request or is refused.  The *)
(* parsed request has one field per key, and "usage_valid" for               *)
(* kReqFlagUsageValid.                                                       *)
(***************************************************************************)
EXTENDS Identifiers, SequencesExt

CONSTANTS
  DnnNames,   \* rs.dnn_names
  kU32        \* 2^32: the width of out.seq

\* At most twenty digits, with no check for overflow.
parse_u64_sv(v) == IF v[1] = "num" /\ v[2] <= 20 THEN v[3] % kU64 ELSE Bad

InRange(n, lo, hi) == IF n \in lo .. hi THEN n ELSE Bad

IndexOf(v, names) == CHOOSE k \in 1 .. Len(names) : Text(names[k]) = v

Named(v, names) == \E k \in 1 .. Len(names) : Text(names[k]) = v

\* The names of the radio access types, each with those that mean the same.
Rats == <<{"LTE", "lte", "4G"}, {"NR", "nr", "5G"}, {"WLAN", "wlan", "wifi"}>>

RatOf(v) ==
  IF v[1] = "text" /\ \E k \in 1 .. Len(Rats) : v[2] \in Rats[k]
    THEN (CHOOSE k \in 1 .. Len(Rats) : v[2] \in Rats[k]) - 1
    ELSE InRange(parse_u64_sv(v), 0, 2)

DnnOf(v) ==
  IF Named(v, DnnNames) THEN IndexOf(v, DnnNames) - 1
                        ELSE InRange(parse_u64_sv(v), 0, Len(DnnNames) - 1)

Flags == {"tethering", "emergency"}
Keys  == {"imsi", "imei", "plmn", "dnn", "rat", "qos_5qi", "tac", "minute", "usage", "seq"} \cup Flags

\* The number a key's value stands for, or Bad.
ValueOf(key, v) ==
  CASE key = "imsi"            -> IF parse_imsi(v) = 0 THEN Bad ELSE parse_imsi(v)
    [] key = "imei"            -> parse_imei(v)
    [] key = "plmn"            -> parse_plmn(v)
    [] key = "dnn"             -> DnnOf(v)
    [] key = "rat"             -> RatOf(v)
    [] key = "qos_5qi"         -> InRange(parse_u64_sv(v), 1, 255)
    [] key = "tac"             -> InRange(parse_u64_sv(v), 0, 65535)
    [] key = "minute"          -> InRange(parse_u64_sv(v), 0, 1439)
    [] key \in Flags           -> IF v \in {Num(1, 0), Text("false")} THEN 0 ELSE 1
    [] key = "usage"           -> parse_u64_sv(v)
    [] key = "seq"             -> IF parse_u64_sv(v) = Bad THEN Bad ELSE parse_u64_sv(v) % kU32
    [] OTHER                   -> Bad

Defaults ==
  [f \in Keys \cup {"usage_valid"} |-> IF f = "qos_5qi" THEN 9 ELSE IF f = "minute" THEN 720 ELSE 0]

Refused == [f \in Keys \cup {"usage_valid"} |-> Bad]

\* One pair's effect on the request: a flag is only ever set, and a sequence
\* number that is none is ignored.
SetField(req, key, n) ==
  IF (key \in Flags /\ n = 0) \/ (key = "seq" /\ n = Bad)
    THEN req
    ELSE [req EXCEPT ![key] = n, !["usage_valid"] = IF key = "usage" THEN 1 ELSE @]

\* for_each_param(): the first invalid or unknown parameter decides.
Take(req, pair) ==
  LET n == ValueOf(pair[1], pair[2]) IN
  IF req = Refused \/ (n = Bad /\ pair[1] # "seq") THEN Refused ELSE SetField(req, pair[1], n)

parse_decide_query(query) ==
  LET req == FoldLeft(Take, Defaults, query) IN
  IF req["imsi"] = 0 THEN Refused ELSE req
=============================================================================
