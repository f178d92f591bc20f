-------------------------- MODULE MCIoUringWorker --------------------------
(***************************************************************************)
(* TLC instance of IoUringWorker: c1 sends two requests, and between them c2 *)
(* sends a datagram of the wrong length and one with the wrong magic.        *)
(***************************************************************************)
EXTENDS IoUringWorker

CONSTANTS c1, c2

Sender      == <<c1, c2, c2, c1>>
LengthTable == <<kWireMsgSize, 48, kWireMsgSize, kWireMsgSize>>
MagicTable  == <<TRUE, FALSE, FALSE, TRUE>>
=============================================================================
