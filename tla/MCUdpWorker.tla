---------------------------- MODULE MCUdpWorker ----------------------------
(***************************************************************************)
(* TLC instances of UdpWorker: two workers, two clients, and datagrams of   *)
(* every kind the receive loop tells apart.                                 *)
(***************************************************************************)
EXTENDS UdpWorker

CONSTANTS c1, c2, known, unknown, garbled, short, oversized

Layout(threads, own, size, readers, offered) ==
  [worker_threads |-> threads, per_worker |-> own, batch_size |-> size,
   reader_slots |-> readers, offered |-> offered]

ServerLayouts ==
  {Layout(1, TRUE, 3, 1, {known, garbled, short}),
   Layout(2, TRUE, 2, 2, {known, unknown}),
   Layout(2, FALSE, 2, 2, {known, short}),
   Layout(2, FALSE, 1, 1, {oversized, short})}

\* c1 sends requests, c2 sends what is not one.
SenderOf    == [d \in Datagrams |-> IF d \in {known, unknown, oversized} THEN c1 ELSE c2]
LengthTable == [d \in Datagrams |->
                  CASE d = short -> 48 [] d = oversized -> 80 [] OTHER -> kWireMsgSize]
MagicTable  == [d \in Datagrams |-> d \notin {garbled, short}]
KnownTable  == [d \in Datagrams |-> d # unknown]
=============================================================================
