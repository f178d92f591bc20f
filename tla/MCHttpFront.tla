---------------------------- MODULE MCHttpFront ----------------------------
(***************************************************************************)
(* TLC instances of HttpFront: a client that pipelines and one that waits   *)
(* for each answer, in several conversations.                               *)
(***************************************************************************)
EXTENDS HttpFront

CONSTANTS piper, waiter

Get(query) == [parts |-> 1, line |-> TRUE, decide |-> TRUE, get |-> TRUE,
               query |-> query, close |-> FALSE, fits |-> TRUE]

Imsi == <<"imsi", Num(15, 5)>>

Simple    == Get(<<Imsi>>)
Full      == [Get(<<Imsi, <<"tethering", Text("")>>, <<"tethering", Num(1, 0)>>, <<"minute", Num(1, 7)>>,
                    <<"seq", Num(4, 5003)>>, <<"usage", Num(1, 3)>>,
                    <<"imei", Text("")>>, <<"plmn", Num(5, 31026)>>, <<"minute", Num(4, 1439)>>,
                    <<"dnn", Text("ims")>>, <<"rat", Text("5G")>>>>) EXCEPT !.parts = 2]
TooLate   == Get(<<Imsi, <<"minute", Num(4, 1440)>>>>)
NoImsi    == Get(<<<<"dnn", Num(1, 1)>>>>)
Unknown   == Get(<<Imsi, <<"color", Text("red")>>>>)
Post      == [Simple EXCEPT !.get = FALSE]
Elsewhere == [Simple EXCEPT !.decide = FALSE]
Garbled   == [Simple EXCEPT !.line = FALSE]
Goodbye   == [Simple EXCEPT !.close = TRUE]
Endless   == [Simple EXCEPT !.parts = 4]

LongName  == [Unknown EXCEPT !.fits = FALSE]
NoNumber  == Get(<<Imsi, <<"seq", Text("x")>>>>)

Catalogue == <<Full, Goodbye, Elsewhere, Simple, Endless, Post, Garbled, TooLate, NoImsi, Unknown,
               LongName, NoNumber>>

\* By the places of the requests in Catalogue: what piper sends, what waiter does.
Conversations ==
  {[c \in Clients |-> IF c = piper THEN s[1] ELSE s[2]] :
     s \in {<< <<1, 2>>, <<>> >>, << <<3>>, <<4>> >>} \cup {<< <<q>>, <<>> >> : q \in 5 .. 10}}

\* Two requests sent without waiting, an unknown parameter with a name too long
\* to be quoted in the response, and a sequence number that is none.
Contradicted == {[c \in Clients |-> s] : s \in {<<4, 4>>, <<11>>, <<12>>}}

Home  == [i \in 0 .. 9 |-> IF i = 0 THEN 0 ELSE 310260]
Names == <<"internet", "ims">>
=============================================================================
