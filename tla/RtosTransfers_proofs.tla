------------------------ MODULE RtosTransfers_proofs ------------------------
(***************************************************************************)
(* Proofs about RtosTransfers for any number of calls: what a blocking     *)
(* call that returns may conclude from the bits of its event group.        *)
(***************************************************************************)
EXTENDS RtosTransfers, TLAPS

Bits == {"tx", "rx", "error"}
Places == {"idle", "waiting", "reset", "armed", "cleared"}

(* The bits of an operation that are up, or on their way to the group.     *)
Up == bits \union Range(daemon)
Answers(op) == BitsOf(op) \cap Up

(* A call that has not come to its Wait yet. *)
Starting(op) == at[op] \notin {"idle", "waiting"}

-----------------------------------------------------------------------------
(* The inductive invariant. *)

ControlInv ==
  /\ at \in [Ops -> Places] /\ call \in [Ops -> Nat] /\ busy \in [Ops -> Nat]
  /\ \A op \in Ops : busy[op] <= call[op] /\ call[op] <= Calls
DataInv ==
  /\ bits \subseteq Bits /\ daemon \in Seq(Bits)
  /\ into \in Nat /\ rx_data \in Nat /\ into <= call["receive"] /\ rx_data <= into
NumbersInv ==
  \A op \in Ops : \A n \in Nat : <<op, n>> \in done \union failed => n <= call[op]

TypeInv == ControlInv /\ DataInv /\ NumbersInv

(* The operations of another driver rest; where each call can be.          *)
PlaceInv ==
  /\ \A op \in Ops \ OpsOf(driver) : at[op] = "idle" /\ busy[op] = 0
  /\ driver = "sil uart" => busy["receive"] = 0 /\ \A op \in Ops : ~Starting(op)
  /\ ~Starting("write")
  /\ Starting("read") => at["read"] = "cleared"
  /\ at["receive"] # "cleared"
  /\ at["receive"] \in {"armed", "waiting"} => into = call["receive"]

(* While a call that began with nothing unanswered is under way, the       *)
(* hardware is at its transfer and no bit of it is up, or the bits that    *)
(* are up say how its transfer ended.                                      *)
Own(op) ==
  op \notin stale /\ at[op] # "idle" =>
    /\ Starting(op) => busy[op] = 0 /\ Answers(op) = {}
    /\ busy[op] # 0 => busy[op] = call[op] /\ Answers(op) = {}
    /\ {"tx", "rx"} \cap Answers(op) # {} => This(op) \in done
    /\ "error" \in Answers(op) => This(op) \in failed
    /\ op = "receive" /\ Answers(op) # {} => rx_data = call[op]

(* The transfer of a call ends after the call has begun to wait, and its   *)
(* bit stays up or on its way until the Wait returns.                      *)
Ended(op) ==
  /\ Starting(op) => busy[op] < call[op] /\ This(op) \notin done \union failed
  /\ at[op] = "waiting" /\ This(op) \in done \union failed
       => \/ This(op) \in lost \/ Answers(op) # {}
          \/ op = "receive" /\ This(op) \in failed

(* Results, and what is remembered of transfers and of calls. *)
Results == {"none", "ok", "error", "timeout", "not started"}
HistoryInv ==
  /\ result \in [Ops -> Results] /\ stale \subseteq Ops
  /\ done \subseteq Ops \X (0..Calls) /\ failed \subseteq Ops \X (0..Calls)
  /\ lost \subseteq Ops \X (0..Calls)

TransfersInv ==
  /\ TypeInv /\ PlaceInv /\ HistoryInv
  /\ \A op \in Ops : Own(op) /\ Ended(op)

-----------------------------------------------------------------------------
(* Lemmas about the event group and the queue of the daemon. *)

LEMMA RangeAppend ==
  ASSUME NEW S, NEW s \in Seq(S), NEW e \in S
  PROVE  Append(s, e) \in Seq(S) /\ Range(Append(s, e)) = Range(s) \union {e}
<1>1. DOMAIN Append(s, e) = DOMAIN s \union {Len(s) + 1} /\ Append(s, e)[Len(s) + 1] = e
  OBVIOUS
<1>2. \A i \in DOMAIN s : i # Len(s) + 1 /\ Append(s, e)[i] = s[i]
  OBVIOUS
<1>. QED BY <1>1, <1>2 DEF Range

LEMMA RangeTail ==
  ASSUME NEW S, NEW s \in Seq(S), s # <<>>
  PROVE  /\ Tail(s) \in Seq(S) /\ Head(s) \in S
         /\ Range(s) = {Head(s)} \union Range(Tail(s))
<1>1. /\ Tail(s) \in Seq(S) /\ Head(s) \in S /\ Head(s) = s[1] /\ 1 \in DOMAIN s
      /\ DOMAIN Tail(s) = 1..(Len(s) - 1) /\ DOMAIN s = 1..Len(s) /\ Len(s) \in Nat
      /\ \A i \in DOMAIN Tail(s) : Tail(s)[i] = s[i + 1]
  OBVIOUS
<1>2. \A i \in DOMAIN s : i # 1 => i - 1 \in DOMAIN Tail(s) /\ Tail(s)[i - 1] = s[i]
  BY <1>1
<1>3. \A i \in DOMAIN Tail(s) : i + 1 \in DOMAIN s
  BY <1>1
<1>. QED BY <1>1, <1>2, <1>3 DEF Range

LEMMA BitsOfOps ==
  /\ BitsOf("write") = {"tx"} /\ BitsOf("receive") = {"rx"}
  /\ BitsOf("read") = {"rx", "error"}
BY DEF BitsOf

(* SetBits only moves a bit from the daemon's queue to the group.          *)
LEMMA DaemonSetsBits ==
  ASSUME TypeInv, SetBits
  PROVE  Up' = Up /\ bits' \subseteq Bits /\ daemon' \in Seq(Bits)
<1>1. /\ Head(daemon) \in Bits /\ Tail(daemon) \in Seq(Bits)
      /\ Range(daemon) = {Head(daemon)} \union Range(Tail(daemon))
  BY RangeTail DEF TypeInv, DataInv, SetBits
<1>. QED BY <1>1 DEF TypeInv, DataInv, SetBits, Up

(* SetBitsFromInterrupt leaves the group alone; the bit is on its way, or  *)
(* the transfer is one whose bit was refused.                              *)
LEMMA InterruptSetsBits ==
  ASSUME TypeInv, NEW bit \in Bits, NEW transfer, SetBitsFromInterrupt(bit, transfer)
  PROVE  /\ bits' = bits /\ daemon' \in Seq(Bits)
         /\ \/ Up' = Up \union {bit} /\ lost' = lost
            \/ Up' = Up /\ lost' = lost \union {transfer}
<1>1. Append(daemon, bit) \in Seq(Bits) /\ Range(Append(daemon, bit)) = Range(daemon) \union {bit}
  BY RangeAppend DEF TypeInv, DataInv
<1>2. CASE daemon' = Append(daemon, bit) /\ UNCHANGED <<bits, lost>>
  BY <1>1, <1>2 DEF TypeInv, DataInv, Up
<1>3. CASE lost' = lost \union {transfer} /\ UNCHANGED <<bits, daemon>>
  BY <1>3 DEF TypeInv, DataInv, Up
<1>. QED BY <1>2, <1>3 DEF SetBitsFromInterrupt

(* A call of an operation that was not called in vain. *)
Calling(op) ==
  \/ op = "write" /\ (Write \/ SilWrite)
  \/ op = "receive" /\ (Receive \/ SilReceive)
  \/ op = "read" /\ ReadMemory
Starts(op) ==
  \/ op = "receive" /\ (ReceiveInto \/ StartReceive)
  \/ op = "read" /\ (StartRead \/ FailedToStartRead)
EndsTransfer(op) ==
  \/ op = "write" /\ TransmitComplete
  \/ op = "receive" /\ (ReceiveComplete \/ ReceiveAborted)
  \/ op = "read" /\ (MemRxComplete \/ Error)

LEMMA StepsOfTransfers ==
  TransfersNext =>
    \/ \E op \in Ops : Calling(op) \/ Starts(op) \/ Wait(op) \/ EndsTransfer(op)
    \/ SetBits \/ SilTxEvent \/ SilRxEvent
BY DEF TransfersNext, Calling, Starts, EndsTransfer, Ops

-----------------------------------------------------------------------------
(* What each kind of step does to the operations. *)
LEMMA CallingEffect ==
  ASSUME NEW op \in Ops, Calling(op)
  PROVE  /\ op \in OpsOf(driver) /\ at[op] = "idle" /\ call[op] < Calls
         /\ \E place \in Places : at' = [at EXCEPT ![op] = place]
         /\ call' = [call EXCEPT ![op] = call[op] + 1]
         /\ \/ busy' = busy
            \/ /\ busy[op] = 0 /\ busy' = [busy EXCEPT ![op] = call[op] + 1]
               /\ at' = [at EXCEPT ![op] = "waiting"]
         /\ bits' = IF op = "read" THEN bits \ BitsOf(op) ELSE bits
         /\ stale' = IF Unanswered(op) THEN stale \union {op} ELSE stale \ {op}
         /\ op # "receive" => UNCHANGED <<into, rx_data>>
         /\ \/ into' = into /\ rx_data' \in {0, rx_data}
            \/ op = "receive" /\ into' = call[op] + 1 /\ rx_data' = rx_data
         /\ UNCHANGED <<driver, daemon, done, failed, lost>>
<1> USE DEF Call, Start, Places
<1>1. CASE op = "write" /\ (Write \/ SilWrite)
  BY <1>1 DEF Write, SilWrite
<1>2. CASE op = "receive" /\ (Receive \/ SilReceive)
  BY <1>2 DEF Receive, SilReceive
<1>3. CASE op = "read" /\ ReadMemory
  BY <1>3 DEF ReadMemory
<1>. QED BY <1>1, <1>2, <1>3 DEF Calling

LEMMA StartsEffect ==
  ASSUME NEW op \in Ops, Starts(op)
  PROVE  /\ Starting(op)
         /\ \E place \in Places : at' = [at EXCEPT ![op] = place]
         /\ \/ busy' = busy
            \/ /\ busy[op] = 0 /\ busy' = [busy EXCEPT ![op] = call[op]]
               /\ at' = [at EXCEPT ![op] = "waiting"]
         /\ into' = into \/ (op = "receive" /\ into' = call[op])
         /\ UNCHANGED <<driver, call, bits, daemon, rx_data, done, failed, lost, stale>>
<1> USE DEF Advance, Start, Places, Starting, ghostVars
<1>1. CASE op = "receive" /\ (ReceiveInto \/ StartReceive)
  BY <1>1 DEF ReceiveInto, StartReceive
<1>2. CASE op = "read" /\ (StartRead \/ FailedToStartRead)
  BY <1>2 DEF StartRead, FailedToStartRead
<1>. QED BY <1>1, <1>2 DEF Starts

LEMMA EndsEffect ==
  ASSUME NEW op \in Ops, EndsTransfer(op)
  PROVE  /\ driver # "sil uart" /\ busy[op] # 0 /\ busy' = [busy EXCEPT ![op] = 0]
         /\ \/ done' = done \union {<<op, busy[op]>>} /\ failed' = failed
            \/ failed' = failed \union {<<op, busy[op]>>} /\ done' = done
         /\ rx_data' = rx_data \/ (op = "receive" /\ rx_data' = into)
         /\ UNCHANGED <<driver, at, call, into, stale>>
<1> USE DEF TransferEnds, callVars
<1>1. CASE op = "write" /\ TransmitComplete
  BY <1>1 DEF TransmitComplete
<1>2. CASE op = "receive" /\ (ReceiveComplete \/ ReceiveAborted)
  BY <1>2 DEF ReceiveComplete, ReceiveAborted
<1>3. CASE op = "read" /\ (MemRxComplete \/ Error)
  BY <1>3 DEF MemRxComplete, Error
<1>. QED BY <1>1, <1>2, <1>3 DEF EndsTransfer

(* Either a reception is aborted, or a bit that says how the transfer has   *)
(* ended is on its way, or that bit was refused.                            *)
Aborted(op) ==
  /\ op = "receive" /\ UNCHANGED <<bits, daemon, lost, rx_data>>
  /\ failed' = failed \union {<<op, busy[op]>>} /\ done' = done
Answered(op, bit) ==
  /\ bits' = bits /\ daemon' \in Seq(Bits)
  /\ \/ Up' = Up \union {bit} /\ lost' = lost
     \/ Up' = Up /\ lost' = lost \union {<<op, busy[op]>>}
  /\ rx_data' = IF op = "receive" THEN into ELSE rx_data
  /\ IF bit = "error" THEN failed' = failed \union {<<op, busy[op]>>} /\ done' = done
     ELSE done' = done \union {<<op, busy[op]>>} /\ failed' = failed

LEMMA EndsBits ==
  ASSUME TypeInv, NEW op \in Ops, EndsTransfer(op)
  PROVE  Aborted(op) \/ \E bit \in BitsOf(op) : Answered(op, bit)
<1> USE BitsOfOps DEF TransferEnds
<1>1. CASE op = "write" /\ TransmitComplete
  <2>1. Answered("write", "tx")
    BY <1>1, InterruptSetsBits DEF TransmitComplete, Answered, Bits
  <2>. QED BY <1>1, <2>1
<1>2. CASE op = "receive" /\ ReceiveComplete
  <2>1. Answered("receive", "rx")
    BY <1>2, InterruptSetsBits DEF ReceiveComplete, Answered, Bits
  <2>. QED BY <1>2, <2>1
<1>3. CASE op = "receive" /\ ReceiveAborted
  BY <1>3 DEF ReceiveAborted, Aborted
<1>4. CASE op = "read" /\ MemRxComplete
  <2>1. Answered("read", "rx")
    BY <1>4, InterruptSetsBits DEF MemRxComplete, Answered, Bits
  <2>. QED BY <1>4, <2>1
<1>5. CASE op = "read" /\ Error
  <2>1. Answered("read", "error")
    BY <1>5, InterruptSetsBits DEF Error, Answered, Bits
  <2>. QED BY <1>5, <2>1
<1>. QED BY <1>1, <1>2, <1>3, <1>4, <1>5 DEF EndsTransfer

LEMMA SilEventEffect ==
  ASSUME SilTxEvent \/ SilRxEvent
  PROVE  /\ driver = "sil uart"
         /\ busy' = busy \/ busy' = [busy EXCEPT !["write"] = 0]
         /\ bits' \in {bits \union {"tx"}, bits \union {"rx"}}
         /\ \/ done' = done \union {<<"write", busy["write"]>>}
            \/ done' = done \union {<<"receive", into>>}
         /\ rx_data' \in {rx_data, into}
         /\ UNCHANGED <<driver, at, call, daemon, into, failed, lost, stale>>
BY DEF SilTxEvent, SilRxEvent, callVars

-----------------------------------------------------------------------------
(* Types. *)
LEMMA TypeStep ==
  ASSUME TypeInv, TransfersNext
  PROVE  TypeInv'
<1> USE DEF TypeInv
<1>1. ASSUME NEW op \in Ops, Calling(op) PROVE TypeInv'
  <2>1. PICK place \in Places : at' = [at EXCEPT ![op] = place]
    BY <1>1, CallingEffect, Zenon
  <2>2. /\ call[op] < Calls /\ call' = [call EXCEPT ![op] = call[op] + 1]
        /\ \/ busy' = busy
           \/ busy[op] = 0 /\ busy' = [busy EXCEPT ![op] = call[op] + 1]
    BY <1>1, CallingEffect, Zenon
  <2>3. /\ bits' = IF op = "read" THEN bits \ BitsOf(op) ELSE bits
        /\ UNCHANGED <<daemon, done, failed>>
        /\ \/ into' = into /\ rx_data' \in {0, rx_data}
           \/ op = "receive" /\ into' = call[op] + 1 /\ rx_data' = rx_data
    BY <1>1, CallingEffect, Zenon
  <2>4. ControlInv'
    BY <2>1, <2>2, CallsAssumption DEF ControlInv
  <2>5. DataInv'
    BY <2>2, <2>3 DEF DataInv, ControlInv, Ops
  <2>6. NumbersInv'
    BY <2>2, <2>3 DEF NumbersInv, ControlInv
  <2>. QED BY <2>4, <2>5, <2>6
<1>2. ASSUME NEW op \in Ops, Starts(op) PROVE TypeInv'
  <2>1. PICK place \in Places : at' = [at EXCEPT ![op] = place]
    BY <1>2, StartsEffect, Zenon
  <2>2. \/ busy' = busy
        \/ busy[op] = 0 /\ busy' = [busy EXCEPT ![op] = call[op]]
    BY <1>2, StartsEffect, Zenon
  <2>3. /\ into' = into \/ (op = "receive" /\ into' = call[op])
        /\ UNCHANGED <<call, bits, daemon, rx_data, done, failed>>
    BY <1>2, StartsEffect, Zenon
  <2>4. ControlInv'
    BY <2>1, <2>2, <2>3 DEF ControlInv
  <2>5. DataInv'
    BY <2>3 DEF DataInv, ControlInv
  <2>6. NumbersInv'
    BY <2>3 DEF NumbersInv
  <2>. QED BY <2>4, <2>5, <2>6
<1>3. ASSUME NEW op \in Ops, Wait(op) PROVE TypeInv'
  BY <1>3 DEF Wait, ghostVars, Places, ControlInv, DataInv, NumbersInv
<1>4. ASSUME NEW op \in Ops, EndsTransfer(op) PROVE TypeInv'
  <2>1. busy' = [busy EXCEPT ![op] = 0] /\ UNCHANGED <<at, call, into>>
    BY <1>4, EndsEffect, Zenon
  <2>2. \/ done' = done \union {<<op, busy[op]>>} /\ failed' = failed
        \/ failed' = failed \union {<<op, busy[op]>>} /\ done' = done
    BY <1>4, EndsEffect, Zenon
  <2>3. rx_data' \in {rx_data, into}
    BY <1>4, EndsEffect, Zenon
  <2>4. bits' = bits /\ daemon' \in Seq(Bits)
    BY <1>4, EndsBits DEF Aborted, Answered, DataInv
  <2>5. ControlInv'
    BY <2>1 DEF ControlInv
  <2>6. DataInv'
    BY <2>1, <2>3, <2>4 DEF DataInv
  <2>7. NumbersInv'
    BY <2>1, <2>2 DEF NumbersInv, ControlInv
  <2>. QED BY <2>5, <2>6, <2>7
<1>5. CASE SetBits
  BY <1>5, DaemonSetsBits DEF SetBits, callVars, ghostVars, ControlInv, DataInv, NumbersInv
<1>6. CASE SilTxEvent \/ SilRxEvent
  <2>1. /\ busy' = busy \/ busy' = [busy EXCEPT !["write"] = 0]
        /\ UNCHANGED <<at, call, daemon, into, failed>>
        /\ bits' \in {bits \union {"tx"}, bits \union {"rx"}} /\ rx_data' \in {rx_data, into}
        /\ \/ done' = done \union {<<"write", busy["write"]>>}
           \/ done' = done \union {<<"receive", into>>}
    BY <1>6, SilEventEffect, Zenon
  <2>2. ControlInv'
    BY <2>1 DEF ControlInv
  <2>3. DataInv'
    BY <2>1 DEF DataInv, Bits
  <2>4. NumbersInv'
    BY <2>1 DEF NumbersInv, ControlInv, DataInv, Ops
  <2>. QED BY <2>2, <2>3, <2>4
<1>. QED BY <1>1, <1>2, <1>3, <1>4, <1>5, <1>6, StepsOfTransfers

LEMMA PlaceStep ==
  ASSUME TypeInv, PlaceInv, TransfersNext
  PROVE  PlaceInv'
<1> USE DEF TypeInv, ControlInv, PlaceInv, Ops, OpsOf, Starting
<1>1. CASE Write \/ SilWrite
  BY <1>1 DEF Write, SilWrite, Call, Start
<1>2. CASE Receive
  BY <1>2 DEF Receive, Call
<1>3. CASE SilReceive
  BY <1>3 DEF SilReceive, Call
<1>4. CASE ReadMemory
  BY <1>4 DEF ReadMemory, Call
<1>5. CASE ReceiveInto
  BY <1>5 DEF ReceiveInto, Advance
<1>6. CASE StartReceive
  BY <1>6 DEF StartReceive, Advance, Start
<1>7. CASE StartRead
  BY <1>7 DEF StartRead, Advance, Start
<1>8. CASE FailedToStartRead
  BY <1>8 DEF FailedToStartRead, Advance
<1>9. ASSUME NEW op \in Ops, Wait(op) PROVE PlaceInv'
  BY <1>9 DEF Wait
<1>10. ASSUME NEW op \in Ops, EndsTransfer(op) PROVE PlaceInv'
  BY <1>10, EndsEffect
<1>11. CASE SetBits
  BY <1>11 DEF SetBits, callVars
<1>12. CASE SilTxEvent \/ SilRxEvent
  BY <1>12, SilEventEffect
<1>. QED
  BY <1>1, <1>2, <1>3, <1>4, <1>5, <1>6, <1>7, <1>8, <1>9, <1>10, <1>11, <1>12, StepsOfTransfers
     DEF Calling, Starts

-----------------------------------------------------------------------------
(* The bits of two operations of one driver differ. *)
LEMMA BitsDiffer ==
  ASSUME NEW op \in OpsOf(driver), NEW q \in OpsOf(driver), op # q
  PROVE  BitsOf(op) \cap BitsOf(q) = {}
<1>1. \/ op = "write" /\ q = "receive"
      \/ op = "receive" /\ q = "write"
  BY DEF OpsOf
<1>. QED BY <1>1, BitsOfOps

(* A step of one operation disturbs no other's call.                       *)
LEMMA OwnOther ==
  ASSUME TypeInv, NEW q \in Ops, Own(q),
         at[q] = at'[q], call[q] = call'[q], busy[q] = busy'[q],
         q \in stale <=> q \in stale', Answers(q)' \subseteq Answers(q),
         This(q) \in done => This(q) \in done', This(q) \in failed => This(q) \in failed',
         q = "receive" => rx_data' = rx_data
  PROVE  Own(q)'
<1>1. This(q)' = This(q)
  BY DEF This
<1>2. Starting(q)' <=> Starting(q)
  BY DEF Starting
<1>. QED BY <1>1, <1>2, Zenon DEF Own

LEMMA EndedOther ==
  ASSUME TypeInv, NEW q \in Ops, Ended(q),
         at[q] = at'[q], call[q] = call'[q], busy[q] = busy'[q],
         at[q] # "idle" => Answers(q) \subseteq Answers(q)',
         lost \subseteq lost', This(q) \in failed => This(q) \in failed',
         This(q) \in done' \union failed' => This(q) \in done \union failed
  PROVE  Ended(q)'
<1>1. This(q)' = This(q)
  BY DEF This
<1>2. Starting(q)' <=> Starting(q)
  BY DEF Starting
<1>. QED BY <1>1, <1>2 DEF Ended

LEMMA CallingKeeps ==
  ASSUME TransfersInv, NEW op \in Ops, Calling(op), NEW q \in Ops
  PROVE  Own(q)' /\ Ended(q)'
<1>1. PICK place \in Places : at' = [at EXCEPT ![op] = place]
  BY CallingEffect, Zenon
<1>2. /\ op \in OpsOf(driver) /\ at[op] = "idle"
      /\ call' = [call EXCEPT ![op] = call[op] + 1]
      /\ \/ busy' = busy
         \/ /\ busy[op] = 0 /\ busy' = [busy EXCEPT ![op] = call[op] + 1]
            /\ at' = [at EXCEPT ![op] = "waiting"]
  BY CallingEffect, Zenon
<1>3. /\ bits' = IF op = "read" THEN bits \ BitsOf(op) ELSE bits
      /\ stale' = IF Unanswered(op) THEN stale \union {op} ELSE stale \ {op}
      /\ op # "receive" => rx_data' = rx_data
      /\ UNCHANGED <<driver, daemon, done, failed, lost>>
  BY CallingEffect, Zenon
<1>4. ControlInv /\ NumbersInv /\ Own(q) /\ Ended(q)
  BY DEF TransfersInv, TypeInv
<1>5. CASE q = op
  <2>1. This(op)' = <<op, call[op] + 1>> /\ This(op)' \notin done' \union failed'
    BY <1>2, <1>3, <1>4 DEF This, ControlInv, NumbersInv
  <2>2. busy'[op] # 0 => at'[op] = "waiting" \/ busy[op] # 0
    BY <1>2, <1>4 DEF ControlInv
  <2>3. ASSUME op \notin stale' PROVE Answers(op)' = {} /\ busy[op] = 0
    <3>1. ~Unanswered(op)
      BY <1>3, <2>3
    <3>. QED BY <1>3, <3>1 DEF Unanswered, Answers, Up
  <2>4. busy'[op] \in {busy[op], call'[op]}
    BY <1>2, <1>4 DEF ControlInv
  <2>5. Own(op)'
    BY <2>2, <2>3, <2>4 DEF Own, Starting
  <2>6. Starting(op)' => busy'[op] < call'[op]
    <3>1. ASSUME Starting(op)' PROVE busy' = busy
      BY <1>1, <1>2, <1>4, <3>1 DEF Starting, ControlInv
    <3>. QED BY <3>1, <1>2, <1>4 DEF ControlInv
  <2>. QED BY <1>5, <2>1, <2>5, <2>6 DEF Ended
<1>6. CASE q # op
  <2>1. at'[q] = at[q] /\ call'[q] = call[q] /\ busy'[q] = busy[q]
    BY <1>1, <1>2, <1>4, <1>6 DEF ControlInv
  <2>2. Answers(q)' \subseteq Answers(q)
    BY <1>3 DEF Answers, Up
  <2>3. at[q] # "idle" => Answers(q)' = Answers(q)
    <3>1. at[q] # "idle" => q \in OpsOf(driver)
      BY DEF TransfersInv, PlaceInv
    <3>. QED BY <1>2, <1>3, <1>6, <3>1, BitsDiffer DEF Answers, Up
  <2>4. q = "receive" => rx_data' = rx_data
    BY <1>3, <1>6
  <2>5. Own(q)'
    BY <1>3, <1>4, <1>6, <2>1, <2>2, <2>4, OwnOther DEF TransfersInv
  <2>. QED BY <1>3, <1>4, <2>1, <2>3, <2>5, EndedOther DEF TransfersInv
<1>. QED BY <1>5, <1>6

LEMMA StartsKeeps ==
  ASSUME TransfersInv, NEW op \in Ops, Starts(op), NEW q \in Ops
  PROVE  Own(q)' /\ Ended(q)'
<1>1. PICK place \in Places : at' = [at EXCEPT ![op] = place]
  BY StartsEffect, Zenon
<1>2. /\ Starting(op)
      /\ \/ busy' = busy
         \/ /\ busy[op] = 0 /\ busy' = [busy EXCEPT ![op] = call[op]]
            /\ at' = [at EXCEPT ![op] = "waiting"]
  BY StartsEffect, Zenon
<1>3. UNCHANGED <<driver, call, bits, daemon, rx_data, done, failed, lost, stale>>
  BY StartsEffect, Zenon
<1>4. ControlInv /\ Own(q) /\ Ended(q) /\ Answers(q)' = Answers(q) /\ This(q)' = This(q)
  BY <1>3 DEF TransfersInv, TypeInv, Answers, Up, This
<1>5. CASE q = op
  <2>1. Own(op)'
    BY <1>1, <1>2, <1>3, <1>4, <1>5 DEF Own, Starting, ControlInv
  <2>2. Ended(op)'
    BY <1>1, <1>2, <1>3, <1>4, <1>5 DEF Ended, Starting, ControlInv
  <2>. QED BY <1>5, <2>1, <2>2
<1>6. CASE q # op
  <2>1. at'[q] = at[q] /\ call'[q] = call[q] /\ busy'[q] = busy[q]
    BY <1>1, <1>2, <1>3, <1>4, <1>6 DEF ControlInv
  <2>2. Own(q)'
    BY <1>3, <1>4, <2>1, OwnOther DEF TransfersInv
  <2>. QED BY <1>3, <1>4, <2>1, <2>2, EndedOther DEF TransfersInv
<1>. QED BY <1>5, <1>6

LEMMA WaitKeeps ==
  ASSUME TransfersInv, NEW op \in Ops, Wait(op), NEW q \in Ops
  PROVE  Own(q)' /\ Ended(q)'
<1>1. /\ at[op] = "waiting" /\ at' = [at EXCEPT ![op] = "idle"] /\ bits' = bits \ BitsOf(op)
      /\ UNCHANGED <<driver, call, busy, daemon, into, rx_data, done, failed, lost, stale>>
  BY DEF Wait, ghostVars
<1>2. ControlInv /\ Own(q) /\ Ended(q)
  BY DEF TransfersInv, TypeInv
<1>3. CASE q = op
  BY <1>1, <1>2, <1>3 DEF Own, Ended, Starting, ControlInv
<1>4. CASE q # op
  <2>1. at'[q] = at[q]
    BY <1>1, <1>2, <1>4 DEF ControlInv
  <2>2. Answers(q)' \subseteq Answers(q)
    BY <1>1 DEF Answers, Up
  <2>3. at[q] # "idle" => Answers(q)' = Answers(q)
    <3>1. op \in OpsOf(driver) /\ (at[q] # "idle" => q \in OpsOf(driver))
      BY <1>1 DEF TransfersInv, PlaceInv
    <3>. QED BY <1>1, <1>4, <3>1, BitsDiffer DEF Answers, Up
  <2>4. Own(q)'
    BY <1>1, <1>2, <2>1, <2>2, OwnOther DEF TransfersInv
  <2>. QED BY <1>1, <1>2, <2>1, <2>3, <2>4, EndedOther DEF TransfersInv
<1>. QED BY <1>3, <1>4

LEMMA EndsKeeps ==
  ASSUME TransfersInv, NEW op \in Ops, EndsTransfer(op), NEW q \in Ops
  PROVE  Own(q)' /\ Ended(q)'
<1>1. /\ busy[op] # 0 /\ busy' = [busy EXCEPT ![op] = 0]
      /\ UNCHANGED <<driver, at, call, into, stale>>
  BY EndsEffect, Zenon
<1>2. Aborted(op) \/ \E bit \in BitsOf(op) : Answered(op, bit)
  BY EndsBits DEF TransfersInv
<1>3. /\ TypeInv /\ ControlInv /\ NumbersInv /\ Own(q) /\ Ended(q) /\ This(q)' = This(q)
      /\ op \in OpsOf(driver)
  BY <1>1 DEF TransfersInv, TypeInv, PlaceInv, This
<1>4. Starting(q)' <=> Starting(q)
  BY <1>1 DEF Starting
<1>5. CASE q = op
  <2>1. busy'[op] = 0 /\ busy[op] \in Nat /\ busy[op] <= call[op]
    BY <1>1, <1>3 DEF ControlInv
  <2>2. op \notin stale /\ at[op] # "idle" => This(op) = <<op, busy[op]>> /\ Answers(op) = {} /\ ~Starting(op)
    BY <1>1, <1>3, <1>5 DEF Own, This
  <2>5. ASSUME Starting(op)
        PROVE  /\ at'[op] # "waiting" /\ busy'[op] < call'[op] /\ This(op) \notin done \union failed
               /\ <<op, busy[op]>> # This(op)
    <3>1. busy[op] < call[op] /\ This(op) \notin done \union failed
      BY <1>3, <1>5, <2>5 DEF Ended
    <3>2. at[op] # "waiting"
      BY <2>5 DEF Starting
    <3>. QED BY <1>1, <1>3, <2>1, <3>1, <3>2 DEF This, ControlInv
  <2>3. CASE Aborted(op)
    <3>1. Answers(op)' = Answers(op)
      BY <2>3 DEF Aborted, Answers, Up
    <3>2. Own(op)'
      BY <1>1, <1>3, <1>4, <1>5, <2>1, <2>2, <3>1 DEF Own
    <3>3. ~Starting(op) => Ended(op)'
      BY <1>1, <1>3, <1>4, <1>5, <2>3, <3>1 DEF Ended, Aborted
    <3>4. Starting(op) => Ended(op)'
      BY <1>1, <1>3, <1>4, <1>5, <2>3, <2>5 DEF Ended, Aborted
    <3>. QED BY <1>5, <3>2, <3>3, <3>4
  <2>4. ASSUME NEW bit \in BitsOf(op), Answered(op, bit) PROVE Own(op)' /\ Ended(op)'
    <3>1. \/ Answers(op)' = Answers(op) \union {bit} /\ lost' = lost
          \/ Answers(op)' = Answers(op) /\ <<op, busy[op]>> \in lost' /\ lost \subseteq lost'
      BY <2>4 DEF Answered, Answers
    <3>2. ASSUME op \notin stale', at'[op] # "idle" PROVE Own(op)'
      <4>1. This(op) = <<op, busy[op]>> /\ Answers(op)' \subseteq {bit} /\ ~Starting(op)
        BY <1>1, <2>2, <3>1, <3>2
      <4>2. op = "receive" => rx_data' = call'[op]
        BY <1>1, <2>4, <3>2, <4>1 DEF Answered, TransfersInv, PlaceInv, Starting, TypeInv, ControlInv, Places
      <4>3. IF bit = "error" THEN This(op)' \in failed' ELSE This(op)' \in done'
        BY <1>3, <1>5, <2>4, <4>1 DEF Answered
      <4>4. op # "read" => bit # "error"
        BY BitsOfOps DEF Ops
      <4>. QED BY <1>1, <1>4, <1>5, <2>1, <4>1, <4>2, <4>3 DEF Own
    <3>3. Own(op)'
      BY <3>2 DEF Own
    <3>4. ~Starting(op) => Ended(op)'
      BY <1>1, <1>3, <1>4, <1>5, <2>1, <2>4, <3>1 DEF Ended, Answered, This
    <3>5. Starting(op) => Ended(op)'
      BY <1>1, <1>3, <1>4, <1>5, <2>4, <2>5 DEF Ended, Answered
    <3>. QED BY <3>3, <3>4, <3>5
  <2>. QED BY <1>2, <1>5, <2>3, <2>4
<1>6. CASE q # op
  <2>1. busy'[q] = busy[q] /\ at'[q] = at[q] /\ call'[q] = call[q]
    BY <1>1, <1>3, <1>6 DEF ControlInv
  <2>2. /\ <<op, busy[op]>> # This(q) /\ done \subseteq done' /\ failed \subseteq failed'
        /\ lost \subseteq lost'
        /\ done' \union failed' \subseteq done \union failed \union {<<op, busy[op]>>}
    BY <1>2, <1>6 DEF This, Aborted, Answered
  <2>3. at[q] # "idle" => Answers(q)' = Answers(q)
    <3>1. at[q] # "idle" => q \in OpsOf(driver)
      BY DEF TransfersInv, PlaceInv
    <3>2. at[q] # "idle" => BitsOf(op) \cap BitsOf(q) = {}
      BY <1>3, <1>6, <3>1, BitsDiffer
    <3>. QED BY <1>2, <3>2 DEF Aborted, Answered, Answers, Up
  <2>4. q = "receive" => rx_data' = rx_data
    BY <1>2, <1>6 DEF Aborted, Answered
  <2>5. Own(q)'
    <3>1. CASE at[q] = "idle"
      BY <2>1, <3>1 DEF Own
    <3>2. CASE at[q] # "idle"
      BY <1>1, <1>3, <2>1, <2>2, <2>3, <2>4, <3>2, OwnOther
    <3>. QED BY <3>1, <3>2
  <2>. QED BY <1>3, <2>1, <2>2, <2>3, <2>5, EndedOther
<1>. QED BY <1>5, <1>6

LEMMA SetBitsKeeps ==
  ASSUME TransfersInv, SetBits, NEW q \in Ops
  PROVE  Own(q)' /\ Ended(q)'
<1>1. Answers(q)' = Answers(q)
  BY DaemonSetsBits DEF TransfersInv, Answers
<1>2. UNCHANGED <<driver, callVars, busy, into, rx_data, ghostVars>>
  BY DEF SetBits
<1>3. Own(q) /\ Ended(q) /\ This(q)' = This(q)
  BY <1>2 DEF TransfersInv, This, callVars
<1>. QED BY <1>1, <1>2, <1>3, Zenon DEF Own, Ended, Starting, callVars, ghostVars

LEMMA SilEventKeeps ==
  ASSUME TransfersInv, SilTxEvent \/ SilRxEvent, NEW q \in Ops
  PROVE  Own(q)' /\ Ended(q)'
<1>1. /\ ControlInv /\ NumbersInv /\ Own(q) /\ Ended(q) /\ This(q)' = This(q)
      /\ ~Starting(q) /\ ~Starting(q)' /\ (at[q] # "idle" => q \in {"write", "receive"})
      /\ busy["receive"] = 0 /\ Up \subseteq Up'
      /\ at["receive"] = "waiting" => into = call["receive"]
  BY SilEventEffect DEF TransfersInv, TypeInv, PlaceInv, This, OpsOf, Starting, Up
<1>2. CASE SilTxEvent
  <2>1. /\ busy["write"] # 0 /\ busy' = [busy EXCEPT !["write"] = 0]
        /\ done' = done \union {<<"write", busy["write"]>>} /\ Up' = Up \union {"tx"}
        /\ UNCHANGED <<at, call, rx_data, failed, lost, stale>>
    BY <1>2 DEF SilTxEvent, callVars, Up
  <2>2. CASE q = "write"
    <3>1. Answers(q)' = Answers(q) \union {"tx"} /\ "error" \notin Answers(q)'
      BY <2>1, <2>2, BitsOfOps DEF Answers
    <3>. QED BY <1>1, <2>1, <2>2, <3>1 DEF Own, Ended, ControlInv, This
  <2>3. CASE q # "write"
    <3>1. Answers(q)' = Answers(q)
      BY <2>1, <2>3, BitsOfOps DEF Answers, Ops
    <3>2. busy'[q] = busy[q] /\ This(q) # <<"write", busy["write"]>>
      BY <1>1, <2>1, <2>3 DEF ControlInv, This
    <3>. QED BY <1>1, <2>1, <2>3, <3>1, <3>2 DEF Own, Ended
  <2>. QED BY <2>2, <2>3
<1>3. CASE SilRxEvent
  <2>1. /\ done' = done \union {<<"receive", into>>} /\ Up' = Up \union {"rx"} /\ rx_data' = into
        /\ UNCHANGED <<at, call, busy, failed, lost, stale>>
    BY <1>3 DEF SilRxEvent, callVars, Up
  <2>2. CASE q = "receive"
    <3>1. Answers(q)' = Answers(q) \union {"rx"} /\ "error" \notin Answers(q)'
      BY <2>1, <2>2, BitsOfOps DEF Answers
    <3>2. at["receive"] # "idle" => at["receive"] = "waiting"
      BY <1>1, <2>2 DEF Starting
    <3>. QED BY <1>1, <2>1, <2>2, <3>1, <3>2 DEF Own, Ended, This
  <2>3. CASE q = "write"
    <3>1. Answers(q)' = Answers(q)
      BY <2>1, <2>3, BitsOfOps DEF Answers
    <3>2. This(q) # <<"receive", into>>
      BY <2>3 DEF This
    <3>. QED BY <1>1, <2>1, <2>3, <3>1, <3>2 DEF Own, Ended
  <2>4. CASE at[q] = "idle"
    BY <1>1, <2>1, <2>4 DEF Own, Ended
  <2>. QED BY <1>1, <2>2, <2>3, <2>4
<1>. QED BY <1>2, <1>3

-----------------------------------------------------------------------------
(* The invariant, and what it says of the operations' results. *)
LEMMA InitTransfers ==
  ASSUME NEW drivers, TransfersInit(drivers)
  PROVE  TransfersInv
<1> USE DEF TransfersInit
<1>1. ControlInv
  BY CallsAssumption DEF ControlInv, Places
<1>2. DataInv
  BY DEF DataInv, Ops
<1>3. NumbersInv
  BY DEF NumbersInv
<1>4. PlaceInv
  BY DEF PlaceInv, Starting, Ops
<1>5. \A op \in Ops : Own(op) /\ Ended(op)
  BY DEF Own, Ended, Starting
<1>6. HistoryInv
  BY DEF HistoryInv, Results
<1>. QED BY <1>1, <1>2, <1>3, <1>4, <1>5, <1>6 DEF TransfersInv, TypeInv

LEMMA TransfersTyped ==
  ASSUME TransfersInv
  PROVE  TransfersTypeOK
<1>1. ControlInv /\ DataInv /\ HistoryInv
  BY DEF TransfersInv, TypeInv
<1>2. at \in [Ops -> {"idle", "waiting", "reset", "armed", "cleared"}]
  BY <1>1 DEF ControlInv, Places
<1>3. call \in [Ops -> 0..Calls] /\ busy \in [Ops -> 0..Calls]
  <2>1. /\ call \in [Ops -> Nat] /\ busy \in [Ops -> Nat]
        /\ \A op \in Ops : busy[op] <= call[op] /\ call[op] <= Calls
    BY <1>1 DEF ControlInv
  <2>2. \A op \in Ops : call[op] \in 0..Calls /\ busy[op] \in 0..Calls
    BY <2>1, CallsAssumption
  <2>. QED BY <2>1, <2>2
<1>4. into \in 0..Calls /\ rx_data \in 0..into
  <2>1. call["receive"] \in 0..Calls
    BY <1>3 DEF Ops
  <2>. QED BY <1>1, <2>1, CallsAssumption DEF DataInv
<1>. QED BY <1>1, <1>2, <1>3, <1>4 DEF TransfersTypeOK, DataInv, Bits, HistoryInv, Results

LEMMA HistoryStep ==
  ASSUME TypeInv, HistoryInv, TransfersNext
  PROVE  HistoryInv'
<1>1. \A op \in Ops : <<op, busy[op]>> \in Ops \X (0..Calls) /\ <<op, into>> \in Ops \X (0..Calls)
  BY CallsAssumption DEF TypeInv, ControlInv, DataInv, Ops
<1>2. ASSUME NEW op \in Ops, Calling(op) PROVE HistoryInv'
  <2>1. UNCHANGED <<result, done, failed, lost>> /\ stale' \subseteq stale \union {op}
    BY <1>2 DEF Calling, Write, SilWrite, Receive, SilReceive, ReadMemory, Call
  <2>. QED BY <2>1 DEF HistoryInv
<1>3. ASSUME NEW op \in Ops, Starts(op) PROVE HistoryInv'
  <2>1. UNCHANGED ghostVars /\ (result' = result \/ result' = [result EXCEPT !["read"] = "not started"])
    BY <1>3 DEF Starts, ReceiveInto, StartReceive, StartRead, FailedToStartRead, Advance
  <2>. QED BY <2>1 DEF HistoryInv, ghostVars, Results
<1>4. ASSUME NEW op \in Ops, Wait(op) PROVE HistoryInv'
  BY <1>4 DEF Wait, HistoryInv, ghostVars, Results
<1>5. ASSUME NEW op \in Ops, EndsTransfer(op) PROVE HistoryInv'
  <2>1. UNCHANGED <<result, stale>>
    BY <1>5 DEF EndsTransfer, TransmitComplete, ReceiveComplete, ReceiveAborted, MemRxComplete,
       Error, TransferEnds, callVars
  <2>2. /\ done' \subseteq done \union {<<op, busy[op]>>}
        /\ failed' \subseteq failed \union {<<op, busy[op]>>}
    BY <1>5, EndsEffect
  <2>3. lost' \subseteq lost \union {<<op, busy[op]>>}
    BY <1>5 DEF EndsTransfer, TransmitComplete, ReceiveComplete, ReceiveAborted, MemRxComplete,
       Error, SetBitsFromInterrupt
  <2>. QED BY <1>1, <2>1, <2>2, <2>3 DEF HistoryInv
<1>6. CASE SetBits
  BY <1>6 DEF SetBits, callVars, ghostVars, HistoryInv
<1>7. CASE SilTxEvent \/ SilRxEvent
  <2>1. /\ UNCHANGED <<result, failed, lost, stale>>
        /\ \/ done' = done \union {<<"write", busy["write"]>>}
           \/ done' = done \union {<<"receive", into>>}
    BY <1>7 DEF SilTxEvent, SilRxEvent, callVars
  <2>2. "write" \in Ops /\ "receive" \in Ops
    BY DEF Ops
  <2>. QED BY <1>1, <2>1, <2>2 DEF HistoryInv
<1>. QED BY <1>2, <1>3, <1>4, <1>5, <1>6, <1>7, StepsOfTransfers

LEMMA NextTransfers ==
  ASSUME TransfersInv, [TransfersNext]_transferVars
  PROVE  TransfersInv'
<1>1. CASE TransfersNext
  <2>1. TypeInv' /\ PlaceInv'
    BY <1>1, TypeStep, PlaceStep DEF TransfersInv
  <2>2. \A q \in Ops : Own(q)' /\ Ended(q)'
    BY <1>1, StepsOfTransfers, CallingKeeps, StartsKeeps, WaitKeeps, EndsKeeps, SetBitsKeeps,
       SilEventKeeps
  <2>3. HistoryInv'
    BY <1>1, HistoryStep DEF TransfersInv
  <2>. QED BY <2>1, <2>2, <2>3 DEF TransfersInv
<1>2. CASE UNCHANGED transferVars
  BY <1>2 DEF transferVars, callVars, ghostVars, TransfersInv, TypeInv, ControlInv, DataInv,
     NumbersInv, HistoryInv, PlaceInv, Own, Ended, Starting, Answers, Up, This
<1>. QED BY <1>1, <1>2

(* Only the Wait of an operation returns its result. *)
LEMMA ReturnIsWait ==
  ASSUME TransfersInv, [TransfersNext]_transferVars, NEW op \in Ops, NEW r, Returns(op, r)
  PROVE  Wait(op)
<1>1. at[op] = "waiting" /\ at'[op] = "idle" /\ ControlInv
  BY DEF Returns, TransfersInv, TypeInv
<1>2. TransfersNext
  BY <1>1 DEF transferVars, callVars
<1>3. ASSUME NEW q \in Ops, Calling(q) PROVE FALSE
  <2>1. at[q] = "idle" /\ \E place \in Places : at' = [at EXCEPT ![q] = place]
    BY <1>3, CallingEffect, Zenon
  <2>. QED BY <1>1, <2>1 DEF ControlInv
<1>4. ASSUME NEW q \in Ops, Starts(q) PROVE FALSE
  <2>1. Starting(q) /\ \E place \in Places : at' = [at EXCEPT ![q] = place]
    BY <1>4, StartsEffect, Zenon
  <2>. QED BY <1>1, <2>1 DEF ControlInv, Starting
<1>5. ASSUME NEW q \in Ops, EndsTransfer(q) PROVE FALSE
  BY <1>1, <1>5, EndsEffect
<1>6. CASE SetBits \/ SilTxEvent \/ SilRxEvent
  BY <1>1, <1>6 DEF SetBits, SilTxEvent, SilRxEvent, callVars
<1>7. ASSUME NEW q \in Ops, Wait(q) PROVE Wait(op)
  BY <1>1, <1>7 DEF Wait, ControlInv
<1>. QED BY <1>2, <1>3, <1>4, <1>5, <1>6, <1>7, StepsOfTransfers

LEMMA ReturnsOfWait ==
  ASSUME TransfersInv, NEW op \in Ops, Wait(op)
  PROVE  /\ at[op] = "waiting"
         /\ result'[op] = IF bits \cap BitsOf(op) = {} THEN "timeout"
                          ELSE IF "error" \in bits \cap BitsOf(op) THEN "error" ELSE "ok"
BY DEF Wait, TransfersInv, HistoryInv

LEMMA ReturnsOwnAnswer ==
  ASSUME TransfersInv, [TransfersNext]_transferVars, NEW op \in Ops \ stale
  PROVE  /\ Returns(op, "ok") => /\ This(op) \in done
                                 /\ op = "receive" => rx_data = call[op]
         /\ Returns(op, "error") => This(op) \in failed
<1>1. Own(op)
  BY DEF TransfersInv
<1>2. ASSUME Returns(op, "ok")
      PROVE  This(op) \in done /\ (op = "receive" => rx_data = call[op])
  <2>1. /\ at[op] = "waiting" /\ bits \cap BitsOf(op) # {} /\ "error" \notin bits \cap BitsOf(op)
        /\ bits \subseteq Bits
    BY <1>2, ReturnIsWait, ReturnsOfWait DEF Returns, TransfersInv, TypeInv, DataInv
  <2>2. {"tx", "rx"} \cap Answers(op) # {}
    BY <2>1 DEF Answers, Up, Bits
  <2>. QED BY <1>1, <2>1, <2>2 DEF Own
<1>3. ASSUME Returns(op, "error") PROVE This(op) \in failed
  <2>1. at[op] = "waiting" /\ "error" \in Answers(op)
    BY <1>3, ReturnIsWait, ReturnsOfWait DEF Returns, Answers, Up
  <2>. QED BY <1>1, <2>1 DEF Own
<1>. QED BY <1>2, <1>3

LEMMA TimeoutMissesNothing ==
  ASSUME TransfersInv, [TransfersNext]_transferVars, NEW op \in Ops, Returns(op, "timeout")
  PROVE  \/ This(op) \notin done \union failed
         \/ This(op) \in lost \/ BitsOf(op) \cap Range(daemon) # {}
         \/ op = "receive" /\ This(op) \in failed
<1>1. at[op] = "waiting" /\ bits \cap BitsOf(op) = {}
  BY ReturnIsWait, ReturnsOfWait DEF Returns
<1>2. Ended(op)
  BY DEF TransfersInv
<1>. QED BY <1>1, <1>2 DEF Ended, Answers, Up
=============================================================================
