------------------------------ MODULE BytePipe ------------------------------
(***************************************************************************)
(* One direction of a byte stream, as AsyncRead promises it to the message *)
(* stream of lib/sickgnal_core (raw_json): the reader takes the bytes the  *)
(* writer put, each of them once and in order.                             *)
(***************************************************************************)
EXTENDS Naturals, Sequences, SequencesExt

VARIABLES
    put,    \* the bytes written so far
    taken   \* the bytes read so far

PipeInit == put = <<>> /\ taken = <<>>

Put ==
    /\ Len(put') > Len(put) /\ IsPrefix(put, put')
    /\ UNCHANGED taken

Take ==
    /\ Len(taken') > Len(taken)
    /\ IsPrefix(taken, taken') /\ IsPrefix(taken', put)
    /\ UNCHANGED put

Pipe == PipeInit /\ [][Put \/ Take]_<<put, taken>>
============================================================================
