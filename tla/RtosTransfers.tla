---------------------------- MODULE RtosTransfers ----------------------------
(***************************************************************************)
(* Blocking transfers with a timeout over an event group: Write and        *)
(* Receive of the STM32H5 UART, ReadMemory of its I2C (both in DmaRtos     *)
(* mode, on FreeRTOS), and Write and Receive of the simulated UART.  A     *)
(* call that times out leaves its transfer running; the answer may come    *)
(* at any time after.  Time is abstracted: a Wait may end whenever its     *)
(* bits are down.                                                          *)
(***************************************************************************)
EXTENDS Naturals, Sequences, SequencesExt

CONSTANT Calls   \* how often each operation is called, a bound
ASSUME CallsAssumption == Calls \in Nat

VARIABLES
  driver,  \* which driver the program uses
  at,      \* where the task of each operation is
  call,    \* the number of its current or last call, and of its buffer
  busy,    \* the call whose transfer the hardware is at, or 0
  bits,    \* the driver's event group
  daemon,  \* bits on their way from an interrupt to the event group
  into,    \* the UART's rx_buf, by the call it belongs to
  rx_data, \* what the UART has received, by the call whose buffer it is in
  result,  \* what the last call returned
  done,    \* transfers that have succeeded: <<operation, call>>
  failed,  \* transfers that the hardware has given up
  lost,    \* transfers whose bit FreeRTOS refused to pass on
  stale    \* operations that began with somebody else's answer under way or up

callVars == <<at, call, result>>
ghostVars == <<done, failed, lost, stale>>
transferVars == <<driver, callVars, busy, bits, daemon, into, rx_data, ghostVars>>

Ops == {"write", "receive", "read"}
OpsOf(d) == IF d = "h5 i2c" THEN {"read"} ELSE {"write", "receive"}
BitsOf(op) ==
    [write |-> {"tx"}, receive |-> {"rx"}, read |-> {"rx", "error"}][op]

TransfersInit(drivers) ==
    /\ driver \in drivers
    /\ at = [op \in Ops |-> "idle"] /\ call = [op \in Ops |-> 0]
    /\ result = [op \in Ops |-> "none"] /\ busy = [op \in Ops |-> 0]
    /\ bits = {} /\ daemon = <<>> /\ into = 0 /\ rx_data = 0
    /\ done = {} /\ failed = {} /\ lost = {} /\ stale = {}

-----------------------------------------------------------------------------
(* An earlier transfer of the operation can still answer; a bit that is up *)
(* already counts only where the code does not clear it first.             *)
Unanswered(op) ==
    \/ busy[op] # 0 \/ BitsOf(op) \cap Range(daemon) # {}
    \/ op # "read" /\ BitsOf(op) \cap bits # {}

(* A task calls an operation and comes to a place in it. *)
Call(op, place) ==
    /\ op \in OpsOf(driver) /\ at[op] = "idle" /\ call[op] < Calls
    /\ at' = [at EXCEPT ![op] = place]
    /\ call' = [call EXCEPT ![op] = @ + 1]
    /\ stale' = IF Unanswered(op) THEN stale \union {op} ELSE stale \ {op}
    /\ UNCHANGED <<driver, result, done, failed, lost, daemon>>
Advance(op, from, to) ==
    /\ at[op] = from /\ at' = [at EXCEPT ![op] = to]
    /\ UNCHANGED <<driver, call, bits, daemon, ghostVars>>

(* A start is refused while a transfer is under way. *)
Start(op, n) == busy' = IF busy[op] = 0 THEN [busy EXCEPT ![op] = n] ELSE busy

(* Write: the result of HAL_UART_Transmit_DMA is not looked at. *)
Write ==
    /\ driver = "h5 uart" /\ Call("write", "waiting")
    /\ Start("write", call["write"] + 1)
    /\ UNCHANGED <<bits, into, rx_data>>

(* Receive: rx_data, rx_buf and the start in turn, interrupts in between. *)
Receive ==
    /\ driver = "h5 uart" /\ Call("receive", "reset")
    /\ rx_data' = 0
    /\ UNCHANGED <<busy, bits, into>>
ReceiveInto ==
    /\ Advance("receive", "reset", "armed")
    /\ into' = call["receive"]
    /\ UNCHANGED <<busy, rx_data, result>>
StartReceive ==
    /\ Advance("receive", "armed", "waiting")
    /\ Start("receive", call["receive"])
    /\ UNCHANGED <<into, rx_data, result>>

(* ReadMemory: the bits are cleared first; a start that fails, because a   *)
(* transfer is under way or for another reason, is reported.               *)
(* Mutant: the bits are left.                                              *)
ReadMemoryKeepsBits ==
    /\ driver = "h5 i2c" /\ Call("read", "cleared")
    /\ UNCHANGED <<busy, bits, into, rx_data>>
ReadMemory ==
    /\ driver = "h5 i2c" /\ Call("read", "cleared")
    /\ bits' = bits \ BitsOf("read")
    /\ UNCHANGED <<busy, into, rx_data>>
StartRead ==
    /\ busy["read"] = 0
    /\ Advance("read", "cleared", "waiting")
    /\ Start("read", call["read"])
    /\ UNCHANGED <<into, rx_data, result>>
FailedToStartRead ==
    /\ Advance("read", "cleared", "idle")
    /\ result' = [result EXCEPT !["read"] = "not started"]
    /\ UNCHANGED <<busy, into, rx_data>>

(* The simulated UART: Write does nothing if the event of an earlier one   *)
(* is pending; Receive only stores the buffer.                             *)
SilWrite ==
    /\ driver = "sil uart" /\ Call("write", "waiting")
    /\ Start("write", call["write"] + 1)
    /\ UNCHANGED <<bits, into, rx_data>>
SilReceive ==
    /\ driver = "sil uart" /\ Call("receive", "waiting")
    /\ into' = call["receive"] + 1
    /\ UNCHANGED <<busy, bits, rx_data>>

(* EventGroup::Wait, which clears the bits it has waited for.              *)
(* Mutant: it clears the whole group.                                      *)
WaitClearsAll(op) ==
    /\ at[op] = "waiting" /\ at' = [at EXCEPT ![op] = "idle"]
    /\ LET got == bits \cap BitsOf(op) IN
         result' = [result EXCEPT ![op] = IF got = {} THEN "timeout"
                                          ELSE IF "error" \in got THEN "error" ELSE "ok"]
    /\ bits' = {}
    /\ UNCHANGED <<driver, call, busy, daemon, into, rx_data, ghostVars>>

Wait(op) ==
    /\ at[op] = "waiting" /\ at' = [at EXCEPT ![op] = "idle"]
    /\ LET got == bits \cap BitsOf(op) IN
         result' = [result EXCEPT ![op] = IF got = {} THEN "timeout"
                                          ELSE IF "error" \in got THEN "error" ELSE "ok"]
    /\ bits' = bits \ BitsOf(op)
    /\ UNCHANGED <<driver, call, busy, daemon, into, rx_data, ghostVars>>

-----------------------------------------------------------------------------
(* SetBitsFromInterrupt hands the bit to FreeRTOS's daemon, whose queue    *)
(* may be full: the driver is not told.  In the simulation it is SetBits.  *)
SetBitsFromInterrupt(bit, transfer) ==
    \/ daemon' = Append(daemon, bit) /\ UNCHANGED <<bits, lost>>
    \/ lost' = lost \union {transfer} /\ UNCHANGED <<bits, daemon>>
SetBits ==
    /\ daemon # <<>>
    /\ bits' = bits \union {Head(daemon)} /\ daemon' = Tail(daemon)
    /\ UNCHANGED <<driver, callVars, busy, into, rx_data, ghostVars>>

(* The hardware ends a transfer of the STM32H5. *)
TransferEnds(op, outcome) ==
    /\ driver # "sil uart" /\ busy[op] # 0
    /\ busy' = [busy EXCEPT ![op] = 0]
    /\ IF outcome = "done" THEN done' = done \union {<<op, busy[op]>>} /\ failed' = failed
       ELSE failed' = failed \union {<<op, busy[op]>>} /\ done' = done
    /\ UNCHANGED <<driver, callVars, into, stale>>

TransmitComplete ==
    /\ TransferEnds("write", "done") /\ rx_data' = rx_data
    /\ SetBitsFromInterrupt("tx", <<"write", busy["write"]>>)
ReceiveComplete ==
    /\ TransferEnds("receive", "done") /\ rx_data' = into
    /\ SetBitsFromInterrupt("rx", <<"receive", busy["receive"]>>)
(* An error on the line aborts a reception; the driver has no callback.    *)
ReceiveAborted ==
    /\ TransferEnds("receive", "failed") /\ UNCHANGED <<rx_data, bits, daemon, lost>>
MemRxComplete ==
    /\ TransferEnds("read", "done") /\ rx_data' = rx_data
    /\ SetBitsFromInterrupt("rx", <<"read", busy["read"]>>)
Error ==
    /\ TransferEnds("read", "failed") /\ rx_data' = rx_data
    /\ SetBitsFromInterrupt("error", <<"read", busy["read"]>>)

(* The external events of the simulated UART.  A reception fills rx_buf    *)
(* whether or not a Receive is waiting.                                    *)
SilTxEvent ==
    /\ driver = "sil uart" /\ busy["write"] # 0
    /\ busy' = [busy EXCEPT !["write"] = 0]
    /\ done' = done \union {<<"write", busy["write"]>>}
    /\ bits' = bits \union {"tx"}
    /\ UNCHANGED <<driver, callVars, daemon, into, rx_data, failed, lost, stale>>
SilRxEvent ==
    /\ driver = "sil uart" /\ into # 0
    /\ done' = done \union {<<"receive", into>>}
    /\ rx_data' = into
    /\ bits' = bits \union {"rx"}
    /\ UNCHANGED <<driver, callVars, busy, daemon, into, failed, lost, stale>>

TransfersNext ==
    \/ Write \/ Receive \/ ReceiveInto \/ StartReceive
    \/ ReadMemory \/ StartRead \/ FailedToStartRead
    \/ SilWrite \/ SilReceive
    \/ \E op \in Ops : Wait(op)
    \/ TransmitComplete \/ ReceiveComplete \/ ReceiveAborted \/ MemRxComplete \/ Error
    \/ SetBits \/ SilTxEvent \/ SilRxEvent

-----------------------------------------------------------------------------
(* The types of the transfers. *)
TransfersTypeOK ==
    /\ at \in [Ops -> {"idle", "waiting", "reset", "armed", "cleared"}]
    /\ call \in [Ops -> 0..Calls] /\ busy \in [Ops -> 0..Calls]
    /\ bits \subseteq {"tx", "rx", "error"} /\ daemon \in Seq({"tx", "rx", "error"})
    /\ into \in 0..Calls /\ rx_data \in 0..into
    /\ result \in [Ops -> {"none", "ok", "error", "timeout", "not started"}]
    /\ {done, failed, lost} \subseteq SUBSET (Ops \X (0..Calls)) /\ stale \subseteq Ops

Returns(op, r) == at[op] = "waiting" /\ at'[op] = "idle" /\ result'[op] = r
This(op) == <<op, call[op]>>

(* A call that reports success has done its own transfer (a Receive has    *)
(* the data in its own buffer), and one that reports an error has failed,  *)
(* unless it began with something that can be taken for its own answer: an *)
(* earlier transfer under way, its bit with the daemon, or, for Write and  *)
(* Receive, a bit left over from one or from a reception nobody asked for. *)
OwnAnswer ==
    [][\A op \in Ops \ stale :
         /\ Returns(op, "ok") => /\ This(op) \in done
                                 /\ op = "receive" => rx_data = call[op]
         /\ Returns(op, "error") => This(op) \in failed]_transferVars

(* A call times out only if its transfer has not ended: unless the answer  *)
(* is with FreeRTOS's daemon, was refused by it, or is a reception that    *)
(* an error of the line has aborted.                                       *)
NoAnswerMissed ==
    [][\A op \in Ops :
         Returns(op, "timeout")
           => \/ This(op) \notin done \union failed
              \/ This(op) \in lost \/ BitsOf(op) \cap Range(daemon) # {}
              \/ op = "receive" /\ This(op) \in failed]_transferVars
=============================================================================
