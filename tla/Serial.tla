------------------------------- MODULE Serial -------------------------------
(***************************************************************************)
(* The 8250-style serial device of src/src/test/serial/serial_spec.rs, the *)
(* harness that checks the device against a ghost Configuration.  State is *)
(* the registers (u8, the divisor u16), the loopback buffer, the output of *)
(* the OutWrapper and the ghost configuration.  Every driver access is one *)
(* `write` or `read` of one byte at one offset; the handlers' assertions   *)
(* are stated as invariants below instead of being executed.              *)
(***************************************************************************)
EXTENDS Integers, Sequences, Bitwise

CONSTANTS
  Values,        (* bytes the driver writes                                *)
  Constructors,  (* subset of {"in_out", "out", "sink"}                    *)
  LoopSize,      (* LOOP_SIZE (0x40 in the code)                           *)
  MaxOut         (* bound on the bytes the OutWrapper collects             *)

ASSUME Values \subseteq 0 .. 255 /\ LoopSize \in Nat \ {0} /\ MaxOut \in Nat

VARIABLES
  interrupt_enable, interrupt_identification, line_control, line_status,
  modem_control, modem_status, scratch, baud_divisor,
  in_buffer,     (* VecDeque<u8>                                          *)
  has_out,       (* out.is_some()                                         *)
  output,        (* OutWrapper::output                                    *)
  config         (* the ghost Configuration                               *)

vars == <<interrupt_enable, interrupt_identification, line_control, line_status,
          modem_control, modem_status, scratch, baud_divisor, in_buffer,
          has_out, output, config>>

\* Offsets and bits, lines 13-40.
DATA == 0
IER == 1
LCR == 3
MCR == 4
SCR == 7
DLAB_LOW == 0
DLAB_HIGH == 1
IER_RECV_BIT == 1
IER_THR_BIT == 2
IER_FIFO_BITS == 15
IIR_NONE_BIT == 1
IIR_THR_BIT == 2
IIR_RECV_BIT == 4
LCR_DLAB_BIT == 128
LSR_DATA_BIT == 1
LSR_EMPTY_BIT == 32
LSR_IDLE_BIT == 64
MCR_LOOP_BIT == 16

\* `!b` on a u8.
NotU8(b) == 255 - b

(***************************************************************************)
(* Serial::new (lines 153-177) for the three constructors.                 *)
(***************************************************************************)
Init ==
  \E c \in Constructors :
    /\ has_out = (c # "sink")
    /\ interrupt_enable = IF has_out THEN IER_RECV_BIT ELSE 0
    /\ interrupt_identification = IIR_NONE_BIT
    /\ line_control = 3
    /\ line_status = LSR_EMPTY_BIT | LSR_IDLE_BIT
    /\ modem_control = 8
    /\ modem_status = 176
    /\ scratch = 0
    /\ baud_divisor = 12
    /\ in_buffer = <<>>
    /\ output = <<>>
    /\ config = [erdai |-> has_out, rdai |-> FALSE, ethrei |-> FALSE,
                 theri |-> FALSE, div_low |-> 12, div_high |-> 0, dlab |-> FALSE]

IsDlabSet == line_control & LCR_DLAB_BIT # 0
IsLoop == modem_control & MCR_LOOP_BIT # 0

\* add_intr_bit and del_intr_bit on the identification register.
AddIntrBit(iir, bit) == (iir & NotU8(IIR_NONE_BIT)) | bit

\* Mutant: no fallback to IIR_NONE_BIT when the last bit is cleared.
DelIntrBitNoNone(iir, bit) == iir & NotU8(bit)

DelIntrBit(iir, bit) ==
  IF (iir & NotU8(bit)) = 0 THEN IIR_NONE_BIT ELSE iir & NotU8(bit)

\* thr_empty_interrupt and recv_data_interrupt, when enabled in `ier`.
ThrEmptyInterrupt(iir, ier) ==
  IF ier & IER_THR_BIT # 0 THEN AddIntrBit(iir, IIR_THR_BIT) ELSE iir
RecvDataInterrupt(iir, ier) ==
  IF ier & IER_RECV_BIT # 0 THEN AddIntrBit(iir, IIR_RECV_BIT) ELSE iir

\* The two halves of the divisor latch.
DivisorLow(bd, v) == (bd & 65280) | v
\* Mutant: the old high byte is not masked off.
DivisorHighNoMask(bd, v) == bd | (v * 256)

DivisorHigh(bd, v) == (bd & 255) | (v * 256)

(***************************************************************************)
(* handle_write (lines 289-348), one action per arm of its match.          *)
(***************************************************************************)
WriteDivisorLow(v) ==
  /\ IsDlabSet
  /\ config' = [config EXCEPT !.div_low = v]
  /\ baud_divisor' = DivisorLow(baud_divisor, v)
  /\ UNCHANGED <<interrupt_enable, interrupt_identification, line_control, line_status,
                 modem_control, modem_status, scratch, in_buffer, has_out, output>>

WriteDivisorHigh(v) ==
  /\ IsDlabSet
  /\ config' = [config EXCEPT !.div_high = v]
  /\ baud_divisor' = DivisorHigh(baud_divisor, v)
  /\ UNCHANGED <<interrupt_enable, interrupt_identification, line_control, line_status,
                 modem_control, modem_status, scratch, in_buffer, has_out, output>>

\* Mutant: the full test is `<=` instead of `<`.
WriteLoopDataPastFull(v) ==
  /\ ~IsDlabSet /\ IsLoop
  /\ Len(in_buffer) <= LoopSize
  /\ in_buffer' = Append(in_buffer, v)
  /\ interrupt_identification' = RecvDataInterrupt(interrupt_identification, interrupt_enable)
  /\ line_status' = line_status | LSR_DATA_BIT
  /\ UNCHANGED <<interrupt_enable, line_control, modem_control, modem_status, scratch,
                 baud_divisor, has_out, output, config>>

\* DATA in loopback mode: queue the byte and raise a receive interrupt,
\* unless the loop buffer is full.
WriteLoopData(v) ==
  /\ ~IsDlabSet /\ IsLoop
  /\ Len(in_buffer) < LoopSize
  /\ in_buffer' = Append(in_buffer, v)
  /\ interrupt_identification' = RecvDataInterrupt(interrupt_identification, interrupt_enable)
  /\ line_status' = line_status | LSR_DATA_BIT
  /\ UNCHANGED <<interrupt_enable, line_control, modem_control, modem_status, scratch,
                 baud_divisor, has_out, output, config>>

\* DATA otherwise: send the byte to out, then the THR-empty interrupt.
WriteOutData(v) ==
  /\ ~IsDlabSet /\ ~IsLoop
  /\ Len(output) < MaxOut
  /\ output' = IF has_out THEN Append(output, v) ELSE output
  /\ interrupt_identification' = ThrEmptyInterrupt(interrupt_identification, interrupt_enable)
  /\ UNCHANGED <<interrupt_enable, line_control, line_status, modem_control, modem_status,
                 scratch, baud_divisor, in_buffer, has_out, config>>

WriteIer(v) ==
  /\ ~IsDlabSet
  /\ config' = [config EXCEPT !.erdai = (v & 1 # 0), !.ethrei = (v & 2 # 0)]
  /\ interrupt_enable' = v & IER_FIFO_BITS
  /\ UNCHANGED <<interrupt_identification, line_control, line_status, modem_control,
                 modem_status, scratch, baud_divisor, in_buffer, has_out, output>>

WriteLcr(v) ==
  /\ config' = [config EXCEPT !.dlab = (v & 128 # 0)]
  /\ line_control' = v
  /\ UNCHANGED <<interrupt_enable, interrupt_identification, line_status, modem_control,
                 modem_status, scratch, baud_divisor, in_buffer, has_out, output>>

WriteMcr(v) ==
  /\ modem_control' = v
  /\ UNCHANGED <<interrupt_enable, interrupt_identification, line_control, line_status,
                 modem_status, scratch, baud_divisor, in_buffer, has_out, output, config>>

WriteScr(v) ==
  /\ scratch' = v
  /\ UNCHANGED <<interrupt_enable, interrupt_identification, line_control, line_status,
                 modem_control, modem_status, baud_divisor, in_buffer, has_out, output, config>>

\* Serial::write with a one-byte slice (other lengths return unchanged);
\* offsets IIR, LSR, MSR and those past SCR fall to `_ => {}`.
Write(offset, v) ==
  CASE offset = DLAB_LOW /\ IsDlabSet  -> WriteDivisorLow(v)
    [] offset = DLAB_HIGH /\ IsDlabSet -> WriteDivisorHigh(v)
    [] offset = DATA                  -> WriteLoopData(v) \/ WriteOutData(v)
    [] offset = IER                   -> WriteIer(v)
    [] offset = LCR                   -> WriteLcr(v)
    [] offset = MCR                   -> WriteMcr(v)
    [] offset = SCR                   -> WriteScr(v)
    [] OTHER                          -> FALSE

(***************************************************************************)
(* handle_read (lines 351-396): only DATA and IIR change state; the other  *)
(* offsets return a register.                                              *)
(***************************************************************************)
\* Mutant: the data-ready bit is cleared only when the buffer is empty.
LineStatusAfterReadEmptyOnly(ls, n) == IF n < 1 THEN ls & NotU8(LSR_DATA_BIT) ELSE ls

\* The data-ready bit once a DATA read finds n bytes buffered.
LineStatusAfterRead(ls, n) == IF n <= 1 THEN ls & NotU8(LSR_DATA_BIT) ELSE ls

\* DATA: clear the receive interrupt, clear the data-ready bit when at most
\* one byte is left, pop the oldest byte (0 when empty).
ReadData ==
  /\ ~IsDlabSet
  /\ interrupt_identification' = DelIntrBit(interrupt_identification, IIR_RECV_BIT)
  /\ line_status' = LineStatusAfterRead(line_status, Len(in_buffer))
  /\ in_buffer' = IF in_buffer = <<>> THEN <<>> ELSE Tail(in_buffer)
  /\ UNCHANGED <<interrupt_enable, line_control, modem_control, modem_status, scratch,
                 baud_divisor, has_out, output, config>>

\* IIR: return the register with the FIFO bits, then iir_reset.
ReadIir ==
  /\ interrupt_identification' = IIR_NONE_BIT
  /\ config' = [config EXCEPT !.rdai = FALSE, !.theri = FALSE]
  /\ UNCHANGED <<interrupt_enable, line_control, line_status, modem_control, modem_status,
                 scratch, baud_divisor, in_buffer, has_out, output>>

Next ==
  \/ \E offset \in DATA .. SCR, v \in Values : Write(offset, v)
  \/ ReadData
  \/ ReadIir

Spec == Init /\ [][Next]_vars

(***************************************************************************)
(* Properties.                                                             *)
(***************************************************************************)
TypeOK ==
  /\ {interrupt_enable, interrupt_identification, line_control, line_status,
      modem_control, modem_status, scratch} \subseteq 0 .. 255
  /\ baud_divisor \in 0 .. 65535
  /\ Len(in_buffer) <= LoopSize /\ Len(output) <= MaxOut
  /\ has_out \in BOOLEAN

\* equiv_config (lines 444-464), the register half: the ghost dlab, erdai,
\* ethrei and divisor bytes follow LCR, IER and the divisor latch through
\* any sequence of driver writes and reads.
GhostRegistersAgree ==
  /\ config.dlab = IsDlabSet
  /\ config.erdai = (interrupt_enable & IER_RECV_BIT # 0)
  /\ config.ethrei = (interrupt_enable & IIR_THR_BIT # 0)
  /\ config.div_low = baud_divisor % 256
  /\ config.div_high = baud_divisor \div 256

\* equiv_config, the pending half: the ghost rdai and theri say whether a
\* receive or THR-empty interrupt is pending in IIR.
GhostPendingAgrees ==
  /\ config.rdai = (interrupt_identification & IIR_RECV_BIT # 0
                    /\ interrupt_identification & IIR_NONE_BIT = 0)
  /\ config.theri = (interrupt_identification & IIR_THR_BIT # 0
                     /\ interrupt_identification & IIR_NONE_BIT = 0)

\* The identification register that add_intr_bit, del_intr_bit and
\* iir_reset maintain: the high nibble is clear (asserted on every handler
\* entry) and the "no interrupt" bit is set exactly when no interrupt bit is.
IirWellFormed ==
  /\ interrupt_identification & 240 = 0
  /\ (interrupt_identification & IIR_NONE_BIT # 0) <=>
       (interrupt_identification & (IIR_THR_BIT | IIR_RECV_BIT) = 0)

\* LSR reports data ready exactly when the loop buffer holds a byte: set by
\* recv_data_interrupt, cleared by the DATA read that takes the last byte.
DataBitMatchesBuffer == (line_status & LSR_DATA_BIT # 0) <=> in_buffer # <<>>

=============================================================================
