------------------------------- MODULE Input -------------------------------
(***************************************************************************)
(* Keyboard and mouse input: the scan-code ring buffer                     *)
(* (kernel/src/interrupts/mod.rs), the PS/2 packet decoder                 *)
(* (kernel/src/interrupts/mouse.rs), the two interrupt handlers            *)
(* (kernel/src/interrupts/idt.rs), and the consumers: poll_next            *)
(* (kernel/src/syscalls/input.rs) and the keyboard device of devfs.        *)
(*                                                                         *)
(* The consumers are system calls and run with interrupts off, so each is  *)
(* one step; the interrupts come at any moment in between.                 *)
(***************************************************************************)
EXTENDS Integers, Sequences

CONSTANTS Size,      \* slots of ScancodeBuffer::buf
          Codes,     \* the scan codes the keyboard sends
          Packets,   \* the packets the mouse sends
          MaxRead,   \* bound: the longest read of the keyboard device
          DeltaMax   \* the largest value of an accumulated delta (i16)

ASSUME SizeAssumption == Size \in Nat /\ Size > 1
ASSUME CodesAssumption == Codes \subseteq 0..255
ASSUME PacketsAssumption == \A p \in Packets : p \in [1..3 -> 0..255]
ASSUME MaxReadAssumption == MaxRead \in Nat
ASSUME DeltaMaxAssumption == DeltaMax \in Nat

VARIABLES buf, head, tail,              \* ScancodeBuffer
          buttons, dx, dy, packet,      \* MouseState; packet holds packet_idx bytes
          taken,     \* the scan codes the last consumer popped
          event,     \* the kind of event the last poll_input returned
          wire,      \* the bytes of a packet the mouse has still to send
          hung       \* poll_next waits for the lock it holds itself

ring == <<buf, head, tail>>
mouse == <<buttons, dx, dy, packet>>
vars == <<buf, head, tail, buttons, dx, dy, packet, taken, event, wire, hung>>

Init ==
  /\ buf = [i \in 0 .. Size - 1 |-> 0]
  /\ head = 0 /\ tail = 0
  /\ buttons = 0 /\ dx = 0 /\ dy = 0 /\ packet = <<>>
  /\ taken = <<>> /\ event = "none"
  /\ wire = <<>> /\ hung = FALSE

-----------------------------------------------------------------------------
(***************************************************************************)
(* ScancodeBuffer: push drops the code when only one slot is left; pop of  *)
(* n codes, one after the other.                                           *)
(***************************************************************************)
\* Mutant: push overwrites the oldest code of a full buffer.
PushAlways(code) ==
  /\ buf' = [buf EXCEPT ![head] = code]
  /\ head' = (head + 1) % Size
  /\ UNCHANGED tail

Push(code) ==
  LET next == (head + 1) % Size IN
  /\ IF next # tail
     THEN buf' = [buf EXCEPT ![head] = code] /\ head' = next
     ELSE UNCHANGED <<buf, head>>
  /\ UNCHANGED tail

Count == IF tail <= head THEN head - tail ELSE head - tail + Size

Oldest(n) == [i \in 1..n |-> buf[(tail + i - 1) % Size]]

Pop(n) ==
  /\ tail' = (tail + n) % Size
  /\ taken' = Oldest(n)
  /\ UNCHANGED <<buf, head>>

KeyboardInterrupt(code) ==
  /\ ~hung
  /\ Push(code)
  /\ UNCHANGED <<buttons, dx, dy, packet, taken, event, wire, hung>>

-----------------------------------------------------------------------------
(***************************************************************************)
(* MouseState.  A packet is a status byte (Y and X overflow, Y and X sign, *)
(* 1, middle, right, left) and two signed bytes.                           *)
(***************************************************************************)
Bit(byte, k)     == (byte \div 2^k) % 2 = 1
SignedByte(byte) == IF byte >= 128 THEN byte - 256 ELSE byte

\* External: the mouse sets the bit by which on_byte knows a status byte.
ASSUME StatusAssumption == \A p \in Packets : Bit(p[1], 3)

DeltaX(p) == CASE Bit(p[1], 6) /\ Bit(p[1], 4)  -> -256
               [] Bit(p[1], 6) /\ ~Bit(p[1], 4) -> 255
               [] OTHER -> SignedByte(p[2])

DeltaY(p) == CASE Bit(p[1], 7) /\ Bit(p[1], 5)  -> 255
               [] Bit(p[1], 7) /\ ~Bit(p[1], 5) -> -256
               [] OTHER -> -SignedByte(p[3])

\* Mutant: the sum wraps around.
WrappingAdd(a, b) == ((a + b + DeltaMax + 1) % (2 * DeltaMax + 2)) - DeltaMax - 1

SaturatingAdd(a, b) ==
  CASE a + b > DeltaMax      -> DeltaMax
    [] a + b < -DeltaMax - 1 -> -DeltaMax - 1
    [] OTHER                 -> a + b

CompletePacket(p) ==
  /\ dx' = SaturatingAdd(dx, DeltaX(p))
  /\ dy' = SaturatingAdd(dy, DeltaY(p))
  /\ buttons' = p[1] % 8
  /\ packet' = <<>>

\* Mutant: packet_idx is not reset after a packet.
OnByteForever(byte) ==
  /\ packet' = Append(packet, byte)
  /\ UNCHANGED <<buttons, dx, dy>>

OnByte(byte) ==
  CASE packet = <<>> /\ ~Bit(byte, 3) -> UNCHANGED mouse
    [] Len(packet) = 2                -> CompletePacket(Append(packet, byte))
    [] OTHER -> packet' = Append(packet, byte) /\ UNCHANGED <<buttons, dx, dy>>

MouseInterrupt ==
  /\ ~hung
  /\ wire # <<>>
  /\ OnByte(Head(wire))
  /\ wire' = Tail(wire)
  /\ UNCHANGED <<buf, head, tail, taken, event, hung>>

(***************************************************************************)
(* External: the mouse starts to send another packet.                      *)
(***************************************************************************)
MouseMoves(p) ==
  /\ ~hung
  /\ wire = <<>>
  /\ wire' = p
  /\ UNCHANGED <<buf, head, tail, buttons, dx, dy, packet, taken, event, hung>>

-----------------------------------------------------------------------------
(***************************************************************************)
(* poll_next: a scan code first, then the mouse.  The guard of             *)
(* SCANCODE_BUFFER.lock() lives until the end of the if let, so that the   *)
(* recursive call after a prefix finds the lock taken and spins for ever,  *)
(* with interrupts off.                                                    *)
(***************************************************************************)
Prefixes == {224, 225}

PollKey ==
  /\ ~hung
  /\ head # tail
  /\ buf[tail] \notin Prefixes
  /\ Pop(1)
  /\ event' = "key"
  /\ UNCHANGED <<buttons, dx, dy, packet, wire, hung>>

PollPrefix ==
  /\ ~hung
  /\ head # tail
  /\ buf[tail] \in Prefixes
  /\ Pop(1)
  /\ hung' = TRUE
  /\ UNCHANGED <<buttons, dx, dy, packet, event, wire>>

\* Mutant: the vertical motion is reported and kept.
PollMouseKeepsY ==
  /\ ~hung
  /\ head = tail
  /\ event' = IF dx # 0 \/ dy # 0 \/ buttons # 0 THEN "mouse" ELSE "none"
  /\ dx' = 0
  /\ UNCHANGED <<buf, head, tail, buttons, dy, packet, taken, wire, hung>>

PollMouse ==
  /\ ~hung
  /\ head = tail
  /\ event' = IF dx # 0 \/ dy # 0 \/ buttons # 0 THEN "mouse" ELSE "none"
  /\ dx' = 0 /\ dy' = 0
  /\ UNCHANGED <<buf, head, tail, buttons, packet, taken, wire, hung>>

(***************************************************************************)
(* A read of up to n bytes from the keyboard device.                       *)
(***************************************************************************)
DevfsRead(n) ==
  /\ ~hung
  /\ head # tail
  /\ Pop(IF n < Count THEN n ELSE Count)
  /\ UNCHANGED <<buttons, dx, dy, packet, event, wire, hung>>

(***************************************************************************)
(* The CPU spins on the lock.                                              *)
(***************************************************************************)
Hung == hung /\ UNCHANGED vars

-----------------------------------------------------------------------------
Next ==
  \/ \E code \in Codes : KeyboardInterrupt(code)
  \/ MouseInterrupt
  \/ \E p \in Packets : MouseMoves(p)
  \/ PollKey \/ PollPrefix \/ PollMouse
  \/ \E n \in 1..MaxRead : DevfsRead(n)
  \/ Hung

Spec == Init /\ [][Next]_vars

=============================================================================
