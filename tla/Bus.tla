--------------------------------- MODULE Bus ---------------------------------
(***************************************************************************)
(* The registers and memories of the SX1302, seen from the host: register  *)
(* fields (loragw_reg.c) over the communication layer (loragw_com.c) over   *)
(* the SPI bus of the ESP32 (loragw_spi.c); the USB transport is compiled  *)
(* out.  Tasks take turns with mx_concent, so operations do not overlap.    *)
(*                                                                         *)
(* An operation is a sequence of transactions on the bus, each of which    *)
(* may fail.  A command to a radio goes through the concentrator, that to   *)
(* the sx1261 past it, both as one chunk.                                  *)
(***************************************************************************)
EXTENDS Integers, Sequences, FiniteSets

CONSTANTS Bits,        \* of a byte
          Size,        \* bytes of the memory
          RegisterMap, \* registers: [addr, offs, leng, sign, rdon]
          Chunk,       \* LGW_BURST_CHUNK
          Radios,      \* the radios, each with the last byte written to it
          Values,      \* written into fields
          MaxFaults    \* failing transactions

Byte == 0 .. 2^Bits - 1

Register == [addr : 0 .. Size - 1, offs : 0 .. Bits - 1, leng : 1 .. Bits, sign : BOOLEAN, rdon : BOOLEAN]

ASSUME BusAssumption ==
  /\ Bits \in Nat \ {0} /\ Size \in Nat \ {0} /\ Chunk \in Nat \ {0} /\ MaxFaults \in Nat
  /\ Values \subseteq Int /\ RegisterMap \subseteq {f \in Register : f.offs + f.leng <= Bits}
  /\ \A f, g \in RegisterMap : f # g /\ f.addr = g.addr =>
       f.offs + f.leng <= g.offs \/ g.offs + g.leng <= f.offs

VARIABLES regs,      \* the bytes of the concentrator
          radios,    \* what each radio was set to
          target,    \* _lgw_com_target is not NULL
          held,      \* the bus is acquired
          op,        \* the operation under way, or the last one
          buf,       \* bytes read so far
          faults,    \* transactions that failed
          burst      \* one of them was of a burst

busVars == <<regs, radios, target, held, op, buf, faults, burst>>

\* Operations: the bytes from addr on, or the field of a byte; fifo keeps the
\* address in reads; before is what the memory held.
Idle == [name |-> "none", state |-> "ok"]

BusInit == /\ regs = [a \in 0 .. Size - 1 |-> 0]
           /\ radios = [r \in Radios |-> 0]
           /\ target = FALSE /\ held = FALSE /\ faults = 0 /\ burst = FALSE
           /\ op = Idle /\ buf = <<>>

Ready == op.state \in {"ok", "error"}

----------------------------------------------------------------------------
(* Fields of bytes.                                                           *)

Piece(byte, f) == (byte \div 2^f.offs) % 2^f.leng

\* reg_r: the aligned bits, with the sign bit extended.
FieldValue(byte, f) ==
  IF f.sign /\ Piece(byte, f) >= 2^(f.leng - 1) THEN Piece(byte, f) - 2^f.leng ELSE Piece(byte, f)

\* lgw_spi_rmw: the old bits around the new ones.
Mixed(byte, f, v) == (byte - Piece(byte, f) * 2^f.offs) + (v % 2^f.leng) * 2^f.offs

Direct(f) == f.leng = Bits /\ f.offs = 0

----------------------------------------------------------------------------
(* The operations, called with the bus free or held by a failed burst.     *)

\* lgw_com_open and the version check of lgw_connect.
Connect == /\ Ready /\ ~target
           /\ target' = TRUE
           /\ \/ op' = [name |-> "connect", state |-> "ok"] /\ UNCHANGED faults
              \/ /\ faults < MaxFaults /\ faults' = faults + 1
                 /\ op' = [name |-> "connect", state |-> "error"]
           /\ UNCHANGED <<regs, radios, held, buf, burst>>

\* lgw_com_close.  What becomes of a bus that is held when its device is removed
\* is left out.
Disconnect == /\ Ready /\ ~held
              /\ target' = FALSE
              /\ op' = [name |-> "disconnect", state |-> IF target THEN "ok" ELSE "error"]
              /\ UNCHANGED <<regs, radios, held, buf, faults, burst>>

Refuse(o) == op' = [o EXCEPT !.state = "error"] /\ UNCHANGED <<regs, radios, target, held, buf, faults, burst>>

Begin(o) == op' = o /\ buf' = <<>> /\ UNCHANGED <<regs, radios, target, held, faults, burst>>

CallRegWrite(f, v) ==
  /\ Ready
  /\ LET o == [name |-> "reg_w", field |-> f, value |-> v, before |-> regs,
               state |-> IF Direct(f) THEN "write" ELSE "read"]
     IN  IF f.rdon \/ ~target THEN Refuse(o) ELSE Begin(o)

CallRegRead(f) ==
  /\ Ready
  /\ LET o == [name |-> "reg_r", field |-> f, before |-> regs, state |-> "read"]
     IN  IF target THEN Begin(o) ELSE Refuse(o)

CallMemWrite(a, data) ==
  /\ Ready /\ a + Len(data) <= Size
  /\ LET o == [name |-> "mem_wb", addr |-> a, data |-> data, before |-> regs, done |-> 0, state |-> "acquire"]
     IN  IF data = <<>> \/ ~target THEN Refuse(o) ELSE Begin(o)

CallMemRead(a, n, fifo) ==
  /\ Ready /\ a + n <= Size
  /\ LET o == [name |-> "mem_rb", addr |-> a, size |-> n, fifo |-> fifo, before |-> regs, done |-> 0,
               state |-> "acquire"]
     IN  IF n = 0 \/ ~target THEN Refuse(o) ELSE Begin(o)

\* sx1250_com_w, sx125x_com_w, sx1261_com_w and their reads: a command that does
\* not fit a chunk with its header is refused.
CallRadio(name, r, v, fits) ==
  /\ Ready
  /\ LET o == [name |-> name, radio |-> r, value |-> v, before |-> radios, regs |-> regs, state |-> "acquire"]
     IN  IF fits /\ target THEN Begin(o) ELSE Refuse(o)

----------------------------------------------------------------------------
(* The transactions.                                                       *)

Fails == faults < MaxFaults /\ faults' = faults + 1

\* lgw_spi_r, which does not acquire the bus for more than the transfer.  A
\* write that follows a failed read mixes the new bits with zeros, and reports
\* an error all the same.
SpiR == /\ op.state = "read"
        /\ \/ buf' = <<regs[op.field.addr]>> /\ UNCHANGED faults
              /\ op' = [op EXCEPT !.state = IF op.name = "reg_r" THEN "ok" ELSE "write"]
           \/ Fails /\ buf' = <<>>
              /\ op' = [op EXCEPT !.state = IF op.name = "reg_r" THEN "error" ELSE "write"]
        /\ UNCHANGED <<regs, radios, target, held, burst>>

\* Mutant: a failed transfer leaves the bus acquired.
SpiWHolding == /\ op.state = "write" /\ ~held
               /\ LET f == op.field
                  IN  \/ /\ regs' = [regs EXCEPT ![f.addr] =
                                       IF Direct(f) THEN op.value % 2^Bits
                                       ELSE Mixed(IF buf = <<>> THEN 0 ELSE buf[1], f, op.value)]
                         /\ op' = [op EXCEPT !.state = IF Direct(f) \/ buf # <<>> THEN "ok" ELSE "error"]
                         /\ UNCHANGED <<faults, held>>
                      \/ Fails /\ op' = [op EXCEPT !.state = "error"] /\ held' = TRUE /\ UNCHANGED regs
               /\ UNCHANGED <<radios, target, buf, burst>>

\* lgw_spi_w acquires the bus, transfers and releases it.
SpiW == /\ op.state = "write" /\ ~held
        /\ LET f == op.field
           IN  \/ /\ regs' = [regs EXCEPT ![f.addr] =
                                IF Direct(f) THEN op.value % 2^Bits
                                ELSE Mixed(IF buf = <<>> THEN 0 ELSE buf[1], f, op.value)]
                  /\ op' = [op EXCEPT !.state = IF Direct(f) \/ buf # <<>> THEN "ok" ELSE "error"]
                  /\ UNCHANGED faults
               \/ Fails /\ op' = [op EXCEPT !.state = "error"] /\ UNCHANGED regs
        /\ UNCHANGED <<radios, target, held, buf, burst>>

Total == IF op.name = "mem_wb" THEN Len(op.data) ELSE op.size

Left == Total - op.done

\* A chunk of a memory operation acquires the bus.
Acquire == /\ op.state = "acquire" /\ ~held
           /\ held' = TRUE
           /\ op' = [op EXCEPT !.state = "transfer"]
           /\ UNCHANGED <<regs, radios, target, buf, faults, burst>>

\* Where a chunk begins: reads of a FIFO stay at its address.
ChunkAddress == IF op.name = "mem_rb" /\ op.fifo THEN op.addr ELSE op.addr + op.done

\* One chunk, after which the bus is released, but not when the transfer fails;
\* the status of the operation is that of its last chunk.
Transfer ==
  /\ op.state = "transfer" /\ op.name \in {"mem_wb", "mem_rb"}
  /\ LET n    == IF Left > Chunk THEN Chunk ELSE Left
         goes == IF Left > n THEN "acquire" ELSE "ok"
     IN  \/ /\ IF op.name = "mem_wb"
                 THEN regs' = [a \in DOMAIN regs |-> IF a \in ChunkAddress .. ChunkAddress + n - 1
                                                       THEN op.data[op.done + 1 + a - ChunkAddress] ELSE regs[a]]
                      /\ UNCHANGED buf
                 ELSE buf' = buf \o [i \in 1 .. n |-> regs[IF op.fifo THEN op.addr ELSE ChunkAddress + i - 1]]
                      /\ UNCHANGED regs
            /\ held' = FALSE
            /\ op' = [op EXCEPT !.state = goes, !.done = @ + n]
            /\ UNCHANGED <<faults, burst>>
         \/ /\ Fails /\ burst' = TRUE
            /\ op' = [op EXCEPT !.state = IF goes = "ok" THEN "error" ELSE "acquire", !.done = @ + n]
            /\ UNCHANGED <<regs, held, buf>>
  /\ UNCHANGED <<radios, target>>

\* radio_spi_wb, radio_spi_rb: as for a chunk, the bus stays held after a failure.
RadioTransfer ==
  /\ op.state = "transfer" /\ op.name \in {"radio_w", "radio_r"}
  /\ \/ /\ IF op.name = "radio_w"
             THEN radios' = [radios EXCEPT ![op.radio] = op.value] /\ UNCHANGED buf
             ELSE buf' = <<radios[op.radio]>> /\ UNCHANGED radios
        /\ held' = FALSE
        /\ op' = [op EXCEPT !.state = "ok"]
        /\ UNCHANGED <<faults, burst>>
     \/ /\ Fails /\ burst' = TRUE
        /\ op' = [op EXCEPT !.state = "error"]
        /\ UNCHANGED <<radios, held, buf>>
  /\ UNCHANGED <<regs, target>>

BusNext == \/ Connect \/ Disconnect
           \/ \E f \in RegisterMap : CallRegRead(f) \/ \E v \in Values : CallRegWrite(f, v)
           \/ \E a \in 0 .. Size - 1 :
                \/ \E n \in 0 .. Size : \E data \in [1 .. n -> {0, 2^Bits - 2}] : CallMemWrite(a, data)
                \/ \E n \in 0 .. Size, fifo \in BOOLEAN : CallMemRead(a, n, fifo)
           \/ \E r \in Radios, fits \in BOOLEAN :
                \/ \E v \in {0, 1} : CallRadio("radio_w", r, v, fits)
                \/ CallRadio("radio_r", r, 0, fits)
           \/ SpiR \/ SpiW \/ Acquire \/ Transfer \/ RadioTransfer

----------------------------------------------------------------------------

\* An operation that reports success did what the register map promises: a
\* field written holds the value, cut to its length, no other field of the byte
\* was touched and no other byte; a field or a memory read is what it held, and
\* the FIFO was read at one address (loragw_spi.c:187, loragw_reg.c:1343).
DoneAsAsked ==
  op.name \notin {"none", "connect", "disconnect"} /\ op.state = "ok" =>
    /\ op.name = "reg_w" =>
         /\ (FieldValue(regs[op.field.addr], op.field) - op.value) % 2^op.field.leng = 0
         /\ \A f \in RegisterMap \ {op.field} :
              FieldValue(regs[f.addr], f) = FieldValue(op.before[f.addr], f)
    /\ op.name = "mem_wb" =>
         regs = [a \in DOMAIN regs |-> IF a \in op.addr .. op.addr + Len(op.data) - 1
                                         THEN op.data[a - op.addr + 1] ELSE op.before[a]]
    /\ op.name = "mem_rb" =>
         buf = [i \in 1 .. op.size |-> op.before[IF op.fifo THEN op.addr ELSE op.addr + i - 1]]
    /\ op.name \in {"reg_r", "mem_rb"} => regs = op.before
    /\ op.name = "radio_w" => radios = [op.before EXCEPT ![op.radio] = op.value] /\ regs = op.regs
    /\ op.name = "radio_r" => buf = <<op.before[op.radio]>> /\ regs = op.regs

\* Between two operations the bus is free, unless the transfer of a chunk
\* failed: an error of a single access never blocks the accesses that follow
\* (loragw_spi.c:142).
BusFree == Ready /\ held => burst

\* What an access reports of itself is true, and it leaves the bus to the next.
BusSound == DoneAsAsked /\ BusFree
=============================================================================
