--------------------------- MODULE MCBodyTransfer ---------------------------
(* Five bytes, asked for at most two at a time; the buffer takes a frame   *)
(* of two bytes and one of one byte, so that a second frame often waits.   *)
EXTENDS BodyTransfer

MCContent == <<1, 2, 3, 4, 5>>
=============================================================================
