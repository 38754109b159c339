---------------------------- MODULE Stm32Drivers ----------------------------
(***************************************************************************)
(* Programs on the drivers of two STM32 families: start-up, transfers and  *)
(* interrupts.  On the STM32H7 two programs run, one on each core, from    *)
(* when the cores have booted (H7Cores).  A third kind of program makes    *)
(* blocking transfers from the tasks of an RTOS (RtosTransfers).           *)
(***************************************************************************)
EXTENDS DriversG0, DriversH7, H7Cores, RtosTransfers

CONSTANTS G0Boards, H7Boards, Watched

(* Programs: a list of channels, pins that each have one use, one core on  *)
(* the STM32G0, and on the STM32H7 no more streams and channels than there *)
(* are, which the source does not check.  A constructor for a DMA mode     *)
(* takes a controller, so the core of such a driver has one.               *)
ASSUME PortsAssumption == \A p \in Pins : Port(p) \notin Devices
ASSUME BoardsAssumption ==
    \A b \in G0Boards \union H7Boards :
      /\ b.dma \in Seq(Requests)
      /\ \A d \in Devices :
           b.mode[d] \in DmaModes
             => \E c \in Controllers : b.mode[c] # "off" /\ b.core[c] = b.core[d]
      /\ b.pinout \subseteq [dev : Devices, signal : STRING, pin : Pins]
      /\ \A p, q \in b.pinout : p.pin = q.pin => p = q
ASSUME G0BoardsAssumption ==
    \A b \in G0Boards : /\ \A d, e \in Devices : b.core[d] = b.core[e]
                        /\ b.refused \subseteq G0Tims
ASSUME H7BoardsAssumption ==
    \A b \in H7Boards :
      /\ b.core \in [Devices -> Cores] /\ b.refused = {}
      /\ Cardinality({i \in DOMAIN b.dma : ~H7IsBdmaChannel(b.dma[i])}) <= 16
      /\ Cardinality({i \in DOMAIN b.dma : H7IsBdmaChannel(b.dma[i])}) <= 8

VARIABLE family

driverVars == <<family, halVars, coreVars, transferVars>>

NoBoard == [mode |-> [d \in Devices |-> "off"], pinout |-> {}, dma |-> <<>>,
            careful |-> TRUE, refused |-> {}]
OneCore == [boots |-> "alone", notifies |-> 0]

DriversInit ==
    \/ /\ family = "g0" /\ HalInit({b \in G0Boards : G0Compiles(b)})
       /\ CoresInit({OneCore}) /\ TransfersInit({"none"})
    \/ /\ family = "h7" /\ HalInit({b \in H7Boards : H7Compiles(b)})
       /\ CoresInit(board.uses) /\ TransfersInit({"none"})
    \/ /\ family = "rtos" /\ HalInit({NoBoard}) /\ CoresInit({OneCore})
       /\ TransfersInit({"h5 uart", "h5 i2c", "sil uart"})

(* A step of the drivers, of the hardware, or of the boot and the          *)
(* notifications.                                                          *)
G0(action) == family = "g0" /\ action /\ UNCHANGED <<family, coreVars, transferVars>>
H7(action) == family = "h7" /\ action /\ UNCHANGED <<family, coreVars, transferVars>>
H7Core(action) == family = "h7" /\ action /\ UNCHANGED <<family, halVars, transferVars>>
Rtos(action) == family = "rtos" /\ action /\ UNCHANGED <<family, halVars, coreVars>>

Finish(r) == G0(G0Finish(r)) \/ H7(H7Finish(r))
H7DriverStep(c) == Awake(c) /\ H7Program(c)

DriversNext ==
    \/ G0(G0Program) \/ G0(G0Edges) \/ G0(G0Interrupts)
    \/ \E c \in Cores : H7(H7DriverStep(c)) \/ H7(H7Interrupts(c))
    \/ \E r \in Requests : Finish(r)
    \/ H7Core(BootNext)
    \/ \E c \in Cores : H7Core(NotifyNext(c))
    \/ Rtos(TransfersNext)

DriversSafe == DriversInit /\ [][DriversNext]_driverVars

(* Watched transfers end, pending interrupts are taken, the cores run. *)
DriversSpec ==
    /\ DriversSafe
    /\ \A r \in Watched : WF_driverVars(Finish(r))
    /\ \A i \in {1, 2, 4} : WF_driverVars(G0(G0DmaIrqHandler(G0DmaLine(i))))
    /\ \A line \in {G0UartIrqn(d) : d \in G0Uarts} : WF_driverVars(G0(G0UartIrqHandler(line)))
    /\ \A c \in Cores :
         /\ SF_driverVars(H7(H7Interrupts(c)))
         /\ WF_driverVars(H7Core(Release(c)))
         /\ WF_driverVars(H7Core(HsemIrqHandler(c) \/ FreeCallback(c)))
    /\ WF_driverVars(H7Core(WaitUntilCortexM4Ready \/ WakeUpCortexM4 \/ CortexM4Woken))
    /\ WF_driverVars(H7Core(CortexM4Boots))

-----------------------------------------------------------------------------
(* Types: of the drivers (but for the names in clocked and lines and the   *)
(* signals on the pins), of the cores and of the transfers; board, use and *)
(* driver never change.  An interrupt is pending only for a request that   *)
(* is under way: whoever stops a timer or a transfer takes its flags down. *)
Faults == {"reentry", "channel not set up", "no handler"}
DriversTypeOK ==
    /\ family \in {"g0", "h7", "rtos"} /\ hung \in Faults \union {"none"}
    /\ built \subseteq InUse /\ building \subseteq InUse /\ spoilt \subseteq Devices
    /\ link \in [Requests -> 0..Len(board.dma)] /\ stage \in [Requests -> 0..2]
    /\ DOMAIN pins = Pins
    /\ \A x \in raised : x[1] \in Requests /\ stage[x[1]] # 0
    /\ {rx_buf, handed} \subseteq [Devices -> Buffers \union {NoBuffer}]
    /\ filled \in [Requests -> Buffers \union {NoBuffer}]
    /\ CoresTypeOK /\ TransfersTypeOK

(* A channel of the list that a driver sets up; and that those that share  *)
(* a line with one are set up as well.                                     *)
G0Kept(r) == G0NeedsChannel(board, r) /\ r[1] \notin board.refused
G0LinesKept ==
    \A i, j \in DOMAIN board.dma :
      G0DmaLine(i) = G0DmaLine(j) /\ G0Kept(board.dma[i]) => G0Kept(board.dma[j])
(* What brings a processor down: a handler that enters an unfinished       *)
(* constructor, only in a program that uses drivers before it has          *)
(* constructed all of them or has pin interrupts (whose lines open within  *)
(* the constructor); a handler that serves a channel nobody has set up,    *)
(* only on the STM32G0 and in such a program without regard to pin         *)
(* interrupts, or with a channel in the list that no driver uses on a line *)
(* that is used; an interrupt that has no handler (TIM3_TIM4, and three    *)
(* UARTs of the STM32H7), only with a device on such a line.               *)
FaultsExplained ==
    /\ hung = "reentry" => ~board.careful \/ board.mode["exti"] # "off"
    /\ hung = "channel not set up" => family = "g0" /\ (~board.careful \/ ~G0LinesKept)
    /\ hung = "no handler" =>
         \/ family = "g0" /\ "tim3" \in InUse
         \/ family = "h7" /\ \E d \in Using({"usart6", "uart7", "uart8"}) : board.mode[d] = "irq"

(* The pins that the code is known to leave unusable: the clock pin of a   *)
(* receiving SPI of the STM32G0, ports J and K of the STM32H7.             *)
Neglected(p) ==
    \/ family = "g0" /\ p.dev \in G0Spis /\ board.spi[p.dev] = "rx" /\ p.signal = "sck"
    \/ family = "h7" /\ Port(p.pin) \notin H7Ports
(* What a constructed driver was given as pins carries its signals, on a   *)
(* port with a clock, whichever drivers were constructed in between.       *)
PinsRouted ==
    \A p \in board.pinout :
      (p.dev \in built \ board.refused /\ ~Neglected(p))
         => pins[p.pin] = <<p.dev, p.signal>> /\ Port(p.pin) \in clocked

(* The buffer that a receive callback is given, remembered in rx_buf since *)
(* the call, is the one that the DMA has filled, whatever is received,     *)
(* sent and constructed in between: only a further Receive of the device   *)
(* can spoil it, which the HAL refuses after it has changed rx_buf.        *)
CallbackBuffer ==
    \A d \in IF family = "g0" THEN G0Uarts ELSE H7Spis :
      <<d, "rx">> \in Requests /\ stage[<<d, "rx">>] = 0 /\ d \notin spoilt
        => handed[d] = filled[<<d, "rx">>]

(* A burst of duty cycles ends with the interrupt of its channel; only a   *)
(* program that also counts with interrupts cuts it short, for there       *)
(* PeriodElapsedCallback, the end of the burst, runs on every update.      *)
BurstIntegrity ==
    [][\A r \in {x \in Requests : x[2] = "burst"} :
         (stage[r] # 0 /\ stage'[r] = 0)
           => \/ \E line \in lines : <<r, line>> \in raised
              \/ stage[<<r[1], "update">>] # 0]_driverVars

(* A transfer that was started comes to its end, through all stages: each  *)
(* has a channel, a clock, an enabled line and a handler that serves it.   *)
(* Circular transfers go on for ever.                                      *)
RequestsComplete ==
    \A r \in Watched :
      []<>(stage[r] = 0 \/ board.mode[r[1]] = "circular" \/ hung # "none")

(* A core that keeps taking an interrupt that is for the other core to     *)
(* serve gets out of it: of two cores that are pending, the one that owns  *)
(* the first line in the vector table is free to serve it.                 *)
StormsEnd == \A c \in Cores : []<>~H7Stormed(c)
=============================================================================
