------------------------------ MODULE MCSerial ------------------------------
(***************************************************************************)
(* Bounds for Serial: three bytes that between them set and clear every    *)
(* bit the device tests (IER receive/THR enable, LCR DLAB, MCR loop), the  *)
(* loop buffer shrunk to two bytes so that its full case is reached, and   *)
(* one byte of output.                                                     *)
(***************************************************************************)
EXTENDS Serial

\* 0x03: IER receive+THR enable, LCR 8 bits; 0x10: MCR loop;
\* 0x83: LCR with DLAB, IER receive+THR enable.
MCValues == {3, 16, 131}
=============================================================================
