----------------------------- MODULE DriversG0 -----------------------------
(***************************************************************************)
(* The drivers of the STM32G0 (impl/stm32g0_old): UART, SPI, I2S, timers   *)
(* with PWM channels, pin interrupts, the DMA list and the interrupt       *)
(* handlers.                                                               *)
(***************************************************************************)
EXTENDS Stm32Hal

G0Uarts == {"usart1", "usart2", "usart3", "lpuart2"}
G0Spis == {"spi1", "spi2"}
G0I2s == {"i2s1"}
G0Tims == {"tim2", "tim3"}

G0UartIrqn(d) ==
    CASE d = "usart1" -> "USART1"
      [] d \in {"usart2", "lpuart2"} -> "USART2_LPUART2"
      [] OTHER -> "USART3_4_5_6_LPUART1"
G0TimIrqn(d) == IF d = "tim2" THEN "TIM2" ELSE "TIM3_TIM4"
G0ExtiIrqn(num) ==
    IF num <= 1 THEN "EXTI0_1" ELSE IF num <= 3 THEN "EXTI2_3" ELSE "EXTI4_15"

-----------------------------------------------------------------------------
(* Pins: each initialisation clocks the port and routes the signal.        *)
G0EnablePortClk(p) == [NoSetup EXCEPT !.clocks = {Port(p.pin)}]
Routed(p) == [NoSetup EXCEPT !.pinned = {<<p.pin, <<p.dev, p.signal>>>>}]
G0InitializeAlternate(p) == Both(G0EnablePortClk(p), Routed(p))
G0Alternate(ps) == AllOf({G0InitializeAlternate(p) : p \in ps})
G0InitializeInterrupt(p) == Both(G0EnablePortClk(p), Routed(p))

(* Gpi and Gpo: Pin::Initialize. *)
G0Initialize(p) == Both(G0EnablePortClk(p), Routed(p))

-----------------------------------------------------------------------------
(* DMA: the n-th channel of the list is the n-th channel of the hardware.  *)
G0DmaLine(i) ==
    CASE i = 1 -> "DMA1_Channel1"
      [] i \in {2, 3} -> "DMA1_Channel2_3"
      [] OTHER -> "DMA1_Ch4_7_DMA2_Ch1_5"

(* SetupDma. *)
G0DmaSetup ==
    LET n == Len(board.dma)
    IN [NoSetup EXCEPT !.clocks = (IF n > 0 THEN {"dma1"} ELSE {})
                                     \union (IF n > 7 THEN {"dma2"} ELSE {}),
                       !.irqs = (IF n > 0 THEN {G0DmaLine(1)} ELSE {})
                                   \union (IF n > 1 THEN {G0DmaLine(2)} ELSE {})
                                   \union (IF n > 3 THEN {G0DmaLine(4)} ELSE {})]

(* GetDmaRequestId, with the request that each driver names. *)
G0GetDmaRequestId(req) ==
    CASE req[1] \in G0Tims -> <<req[1], "update">>
      [] req[1] \in G0I2s -> <<"spi1", "tx">>
      [] OTHER -> req

G0ChannelEnabled(b, req) == Index(b.dma, req) # 0
G0ChannelInUse(line) == {i \in DOMAIN board.dma : G0DmaLine(i) = line}

(* SetupChannel with the request's handle. *)
G0SetupChannel(req) == [NoSetup EXCEPT !.links = {req}]

-----------------------------------------------------------------------------
(* The constructors and the assertions in them. *)
G0TimHasChannel(tim, signal) == tim \in G0Tims /\ signal \in {"ch1", "ch2", "ch3", "ch4"}

(* The modes that there are drivers for, and the pins that they ask for.   *)
G0Drivers ==
    {<<"dma", "dma">>, <<"gpi", "in">>, <<"gpo", "out">>}
    \union ({"exti"} \X {"rise", "fall", "both"})
    \union (G0Uarts \X {"poll", "irq", "dma"}) \union (G0Spis \X {"poll", "dma"})
    \union (G0I2s \X {"poll", "dma", "circular"}) \union (G0Tims \X {"pwm", "dma", "multi"})
G0Signals(b, d) ==
    CASE d \in G0Uarts -> {"tx", "rx"} \union (IF d \in b.rs485 THEN {"de"} ELSE {})
      [] d \in G0Spis -> IF b.spi[d] = "duplex" THEN {"mosi", "miso", "sck"}
                         ELSE IF b.spi[d] = "rx" THEN {"miso", "sck"} ELSE {"mosi", "sck"}
      [] d \in G0I2s -> {"ck", "sd", "ws"}
      [] d \in G0Tims -> IF b.mode[d] = "multi" THEN {"ch1", "ch2"} ELSE {"ch1"}
      [] d \in {"gpi", "exti"} -> {"in"}
      [] d = "gpo" -> {"out"}
      [] OTHER -> {}

G0NeedsChannel(b, r) ==
    /\ b.mode[r[1]] \in DmaModes
    /\ \/ r[1] \in G0Uarts /\ r[2] \in {"tx", "rx"}
       \/ r[1] \in G0Spis /\ r[2] \in {"tx", "rx"} /\ b.spi[r[1]] \in {"duplex", "half", r[2]}
       \/ r[1] \in G0I2s /\ r[2] = "tx"
       \/ r[1] \in G0Tims /\ r[2] = "burst"
G0Compiles(b) ==
    /\ \A d \in Devices :
         b.mode[d] # "off" =>
           /\ <<d, b.mode[d]>> \in G0Drivers
           /\ d \in G0Spis => b.spi[d] \in SpiTransmissions
           /\ \A p \in b.pinout : p.dev = d => p.signal \in G0Signals(b, d)
    /\ \A p \in b.pinout : p.dev \in G0Tims => G0TimHasChannel(p.dev, p.signal)
    /\ \A r \in Requests : G0NeedsChannel(b, r) => G0ChannelEnabled(b, r)
G0UartPinout(d) ==
    G0Alternate(PinsOf(d, {"tx", "rx"}))
(* Mutant: the driver-enable pin is forgotten.                             *)
G0UartPinoutNoDe(d) == G0UartPinout(d)
G0UartPinoutRs485(d) ==
    G0Alternate(PinsOf(d, {"tx", "rx", "de"}))
G0EnableUartClk(d) == [NoSetup EXCEPT !.clocks = {d}]
G0SetupUart(d) ==
    Both(G0EnableUartClk(d),
         IF d \in board.rs485 THEN G0UartPinoutRs485(d) ELSE G0UartPinout(d))
G0InitializeUartForInterruptMode(d) == [NoSetup EXCEPT !.irqs = {G0UartIrqn(d)}]
G0UartSetup(d) ==
    Both(G0SetupUart(d),
         IF board.mode[d] = "irq" THEN G0InitializeUartForInterruptMode(d) ELSE NoSetup)
(* Mutant: the channel of the reception is not set up.                     *)
G0UartSetupTxDma(d) ==
    Both(Both(G0SetupUart(d), G0InitializeUartForInterruptMode(d)), G0SetupChannel(<<d, "tx">>))
G0UartSetupDma(d) ==
    Both(Both(G0SetupUart(d), G0InitializeUartForInterruptMode(d)),
         Both(G0SetupChannel(<<d, "tx">>), G0SetupChannel(<<d, "rx">>)))

(* The pins of each transmission type; receive-only looks its clock up in  *)
(* the table of the MISO pins and dereferences what it does not find.      *)
G0SpiDuplexPins(d) == G0Alternate(PinsOf(d, {"mosi", "miso", "sck"}))
G0SpiTxPins(d) == G0Alternate(PinsOf(d, {"mosi", "sck"}))
G0SpiRxPins(d) ==
    Both(G0Alternate(PinsOf(d, {"miso"})),
         G0Alternate({[p EXCEPT !.signal = "miso"] : p \in PinsOf(d, {"sck"})}))
G0EnableSpiClk(d) == [NoSetup EXCEPT !.clocks = {d}]
G0SetupSpiMaster(d) ==
    Both(G0EnableSpiClk(d), CASE board.spi[d] = "duplex" -> G0SpiDuplexPins(d)
                              [] board.spi[d] = "rx" -> G0SpiRxPins(d)
                              [] OTHER -> G0SpiTxPins(d))     \* half duplex too

(* The DMA mode enables no interrupt of the SPI itself. *)
G0SpiSetupDma(d) ==
    Both(G0SetupSpiMaster(d),
         Both(IF board.spi[d] # "rx" THEN G0SetupChannel(<<d, "tx">>) ELSE NoSetup,
              IF board.spi[d] # "tx" THEN G0SetupChannel(<<d, "rx">>) ELSE NoSetup))

G0I2sPinout(d) == G0Alternate(PinsOf(d, {"ck", "sd", "ws"}))
G0SetupI2s(d) == Both([NoSetup EXCEPT !.clocks = {d}], G0I2sPinout(d))
G0I2sSetupDma(d) == Both(G0SetupI2s(d), G0SetupChannel(<<d, "tx">>))

(* TimPwmOutputChannel: the pin, and with DMA the request of the update    *)
(* and the interrupt; TimMultiplePwmOutputChannel: the same for several    *)
(* channels in a row, with DMA always.                                     *)
G0ConfigureChannel(d) == G0Alternate(PinsOf(d, {"ch1"}))
G0EnableTimInterrupt(d) == [NoSetup EXCEPT !.irqs = {G0TimIrqn(d)}]
G0ConfigureChannelDma(d) ==
    Both(G0ConfigureChannel(d), Both(G0SetupChannel(<<d, "burst">>), G0EnableTimInterrupt(d)))
G0ConfigureChannels(d) == G0Alternate(PinsOf(d, {"ch1", "ch2"}))
G0ConfigureMultiple(d) ==
    Both(G0ConfigureChannels(d), Both(G0SetupChannel(<<d, "burst">>), G0EnableTimInterrupt(d)))
G0EnableTimClock(d) == [NoSetup EXCEPT !.clocks = {d}]
(* The HAL may refuse the timer, or its (only) channel: the constructor    *)
(* then goes no further.                                                   *)
G0TimSetup(d) ==
    IF d \in board.refused THEN G0EnableTimClock(d)
    ELSE Both(G0EnableTimClock(d),
              CASE board.mode[d] = "dma" -> G0ConfigureChannelDma(d)
                [] board.mode[d] = "multi" -> G0ConfigureMultiple(d)
                [] OTHER -> G0ConfigureChannel(d))

G0ExtiSetup ==
    LET ps == PinsOf("exti", {"in"})
    IN Both(AllOf({G0InitializeInterrupt(p) : p \in ps}),
            [NoSetup EXCEPT !.clocks = {"exti"}, !.irqs = {G0ExtiIrqn(p.pin[2]) : p \in ps}])

G0Setups ==
    [d \in InUse |->
       CASE d = "dma" -> G0DmaSetup
         [] d = "exti" -> G0ExtiSetup
         [] d \in {"gpi", "gpo"} -> AllOf({G0Initialize(p) : p \in PinsOf(d, {"in", "out"})})
         [] d \in G0Uarts -> IF board.mode[d] = "dma" THEN G0UartSetupDma(d)
                             ELSE G0UartSetup(d)
         [] d \in G0Spis -> IF board.mode[d] = "dma" THEN G0SpiSetupDma(d)
                            ELSE G0SetupSpiMaster(d)
         [] d \in G0I2s -> IF board.mode[d] = "poll" THEN G0SetupI2s(d)
                           ELSE G0I2sSetupDma(d)
         [] d \in G0Tims -> G0TimSetup(d)]

-----------------------------------------------------------------------------
(* Calls.  In poll mode they return when the hardware is done. *)
G0Write(d) ==
    /\ d \in Using(G0Uarts) /\ HalMayCall(d)
    /\ board.mode[d] \in {"irq", "dma"}
    /\ HalStart(<<d, "tx">>, {}, NoBuffer)
    /\ UNCHANGED <<board, building, setVars, raised, rx_buf, spoilt, handed, hung>>

(* Nothing is tested: rx_buf is set whether or not the HAL accepts.        *)
G0Receive(d, into) ==
    /\ d \in Using(G0Uarts) /\ HalMayCall(d)
    /\ board.mode[d] = "dma"
    /\ HalReceive(d, {}, into)
    /\ UNCHANGED <<board, building, setVars, raised, handed, hung>>

(* One handle for both directions; rx_buf is never set. *)
G0SpiReceive(d, into) ==
    /\ d \in Using(G0Spis) /\ HalMayCall(d)
    /\ board.mode[d] = "dma" /\ board.spi[d] # "tx"
    /\ HalStart(<<d, "rx">>, {<<d, "tx">>}, into)
    /\ UNCHANGED <<board, building, setVars, raised, rx_buf, spoilt, handed, hung>>
G0SpiTransmit(d) ==
    /\ d \in Using(G0Spis) /\ HalMayCall(d)
    /\ board.mode[d] = "dma" /\ board.spi[d] # "rx"
    /\ HalStart(<<d, "tx">>, {<<d, "rx">>}, NoBuffer)
    /\ UNCHANGED <<board, building, setVars, raised, rx_buf, spoilt, handed, hung>>

G0I2sTransmit(d) ==
    /\ d \in Using(G0I2s) /\ HalMayCall(d)
    /\ board.mode[d] \in {"dma", "circular"}
    /\ HalStart(<<d, "tx">>, {}, NoBuffer)
    /\ UNCHANGED <<board, building, setVars, raised, rx_buf, spoilt, handed, hung>>
G0I2sEndTransmit(d) ==
    /\ d \in Using(G0I2s) /\ HalMayCall(d)
    /\ board.mode[d] = "circular"
    /\ HalStop({<<d, "tx">>})
    /\ UNCHANGED <<board, building, setVars, rx_buf, filled, spoilt, handed, hung>>

(* Start and StartWithInterrupt are refused while the timer is busy; the   *)
(* end of a burst makes it look ready.                                     *)
G0TimStart(d) ==
    /\ d \in Using(G0Tims) /\ HalMayCall(d)
    /\ HalStart(<<d, "count">>, {}, NoBuffer)
    /\ UNCHANGED <<board, building, setVars, raised, rx_buf, spoilt, handed, hung>>
G0TimStartWithInterrupt(d) ==
    /\ d \in Using(G0Tims) /\ HalMayCall(d)
    /\ stage[<<d, "count">>] = 0 \/ board.mode[d] \in DmaModes
    /\ stage' = [stage EXCEPT ![<<d, "count">>] = 1, ![<<d, "update">>] = 1]
    /\ UNCHANGED <<board, building, setVars, raised, rx_buf, filled, spoilt, handed, hung>>
(* Mutants: a flag survives; the burst is stopped too.                     *)
G0TimStopKeepsFlag(d) ==
    /\ d \in Using(G0Tims) /\ HalMayCall(d)
    /\ stage' = [stage EXCEPT ![<<d, "count">>] = 0, ![<<d, "update">>] = 0]
    /\ UNCHANGED <<board, building, setVars, raised, rx_buf, filled, spoilt, handed, hung>>
G0TimStopsBurst(d) ==
    /\ d \in Using(G0Tims) /\ HalMayCall(d)
    /\ HalStop({<<d, "count">>, <<d, "burst">>})
    /\ UNCHANGED <<board, building, setVars, rx_buf, filled, spoilt, handed, hung>>
G0TimStop(d) ==
    /\ d \in Using(G0Tims) /\ HalMayCall(d)
    /\ HalStop({<<d, "count">>}) \/ HalStop({<<d, "count">>, <<d, "update">>})
    /\ UNCHANGED <<board, building, setVars, rx_buf, filled, spoilt, handed, hung>>

(* SetPeriod takes the update flag down. *)
G0SetPeriod(d) ==
    /\ d \in Using(G0Tims) /\ HalMayCall(d)
    /\ raised' = {x \in raised : x[1] # <<d, "update">>}
    /\ UNCHANGED <<board, building, setVars, stage, rx_buf, filled, spoilt, handed, hung>>
G0TimEnableInterrupt(d) ==
    /\ d \in Using(G0Tims) /\ HalMayCall(d)
    /\ lines' = lines \union {G0TimIrqn(d)}
    /\ UNCHANGED <<board, building, built, clocked, link, pins, ioVars, hung>>
G0TimDisableInterrupt(d) ==
    /\ d \in Using(G0Tims) /\ HalMayCall(d)
    /\ lines' = lines \ {G0TimIrqn(d)}
    /\ UNCHANGED <<board, building, built, clocked, link, pins, ioVars, hung>>
G0SetDmaData(d) ==
    /\ d \in Using(G0Tims) /\ HalMayCall(d)
    /\ board.mode[d] \in DmaModes /\ link[<<d, "burst">>] # 0
    /\ HalStart(<<d, "burst">>, {}, NoBuffer)
    /\ UNCHANGED <<board, building, setVars, raised, rx_buf, spoilt, handed, hung>>

(* The lines of the pins are enabled within the constructor. *)
G0EnableExtiInterrupt ==
    /\ hung = "none" /\ "exti" \in building /\ "exti" \notin clocked
    /\ clocked' = clocked \union G0ExtiSetup.clocks
    /\ lines' = lines \union G0ExtiSetup.irqs
    /\ UNCHANGED <<board, building, built, link, pins, ioVars, hung>>

(* An edge that the pin is configured for. *)
G0Edge(edge) ==
    /\ hung = "none" /\ "exti" \in clocked
    /\ board.mode["exti"] \in {edge, "both"}
    /\ HalStart(<<"exti", edge>>, {}, NoBuffer)
    /\ UNCHANGED <<board, building, setVars, raised, rx_buf, spoilt, handed, hung>>

-----------------------------------------------------------------------------
(* The line on which a request's next interrupt comes.  A transmission by  *)
(* DMA ends with the interrupt of the UART; a reception ends with that of  *)
(* the channel, or of the UART when the line falls idle.                   *)
G0Lines(r) ==
    LET d == r[1]
        dma == {G0DmaLine(link[r])}
        own == {G0UartIrqn(d)}
    IN CASE d \in G0Uarts -> IF board.mode[d] = "irq" \/ stage[r] = 2 THEN own
                            ELSE IF r[2] = "tx" THEN dma ELSE dma \union own
         [] d \in G0Tims -> IF r[2] = "update" THEN {G0TimIrqn(d)}
                            ELSE IF r[2] = "burst" THEN dma ELSE {}
         [] d = "exti" -> {G0ExtiIrqn(p.pin[2]) : p \in PinsOf("exti", {"in"})}
         [] OTHER -> dma
G0Finish(r) ==
    /\ r[1] \in InUse
    /\ r[2] \in {"burst", "update"} => stage[<<r[1], "count">>] # 0
    /\ link[r] # 0 => G0GetDmaRequestId(r) = HwRequest(r)
    /\ \E line \in G0Lines(r) : HwFinish(r, line)

(* The callbacks of the vendor's HAL compare the handle with that of every *)
(* peripheral in use, and so call instance() of each.                      *)
Ends(ended, kind, dirs) == \E r \in ended : r[1] \in kind /\ r[2] \in dirs
G0RxEvent(ended) == IF Ends(ended, G0Uarts, {"rx"}) THEN Using(G0Uarts) ELSE {}
G0TxCplt(ended) == IF Ends(ended, G0Uarts, {"tx"}) THEN Using(G0Uarts) ELSE {}
G0SpiRxCplt(ended) == IF Ends(ended, G0Spis, {"rx"}) THEN Using(G0Spis) ELSE {}
G0TimCallback(ended) ==
    IF Ends(ended, G0Tims, {"burst", "update"}) THEN Using(G0Tims) ELSE {}
G0TouchedBy(ended) ==
    G0RxEvent(ended) \union G0TxCplt(ended) \union G0SpiRxCplt(ended)
      \union G0TimCallback(ended)

(* ReceiveComplete hands out rx_buf. *)
G0ReceiveComplete(ended) ==
    [d \in {r[1] : r \in {x \in ended : x[2] = "rx"}} |-> rx_buf[d]]

(* PeriodElapsed: every channel's callback stops the burst. *)
G0PeriodElapsed(tims) == {<<d, "burst">> : d \in tims}

(* DMA1_Channel1_IRQHandler and the two others: each channel of the line   *)
(* that the list is long enough for is served; the handle of one that was  *)
(* not set up yet has no registers to go to.                               *)
G0DmaIrqHandler(line) ==
    /\ Takes(line)
    /\ LET served == Pending(line)
           next   == {r \in served : r[1] \in G0Uarts /\ r[2] = "tx"}
           again  == {r \in served : board.mode[r[1]] = "circular"}
           ended  == served \ (next \union again)
           setup  == G0Setups
       IN \/ /\ \E i \in G0ChannelInUse(line) : link[board.dma[i]] = 0
             /\ HalDown("channel not set up")
          \/ HalServe(line, ended, next, G0ReceiveComplete(ended),
                      G0TouchedBy(ended), setup)

G0UartIrqHandler(line) ==
    /\ Takes(line)
    /\ LET ended == Pending(line)
           there == {d \in Using(G0Uarts) : G0UartIrqn(d) = line}
       IN HalServe(line, ended, {}, G0ReceiveComplete(ended),
                   there \union G0TouchedBy(ended), G0Setups)

(* TIM2_IRQHandler and its like: an update ends the burst too. *)
G0TimIrqHandler(line) ==
    /\ Takes(line)
    /\ LET tims == {r[1] : r \in Pending(line)}
       IN HalServe(line, G0PeriodElapsed(tims), {}, <<>>, G0TimCallback(Pending(line)), G0Setups)

(* The handler of TIM3 and TIM4 is misspelt, TIM3_TIM4_IRQHandle: the      *)
(* vector table has the default handler, an endless loop.                  *)
G0NoHandler == Takes("TIM3_TIM4") /\ HalDown("no handler")

G0ExtiIrqHandler(line) ==
    Takes(line) /\ HalServe(line, Pending(line), {}, <<>>, {"exti"}, G0Setups)

-----------------------------------------------------------------------------
(* The program runs when no interrupt is pending. *)
G0Program ==
    /\ \A line \in lines : Pending(line) = {}
    /\ \/ \E d \in InUse : HalBegin(d) \/ HalEnd(d, G0Setups)
       \/ \E d \in Using(G0Uarts) :
            G0Write(d) \/ \E b \in Buffers : G0Receive(d, b)
       \/ \E d \in Using(G0Spis) :
            G0SpiTransmit(d) \/ \E b \in Buffers : G0SpiReceive(d, b)
       \/ \E d \in Using(G0I2s) : G0I2sTransmit(d) \/ G0I2sEndTransmit(d)
       \/ \E d \in Using(G0Tims) :
            \/ G0TimStart(d) \/ G0TimStartWithInterrupt(d) \/ G0TimStop(d)
            \/ G0SetPeriod(d) \/ G0SetDmaData(d)
            \/ G0TimEnableInterrupt(d) \/ G0TimDisableInterrupt(d)
       \/ G0EnableExtiInterrupt
G0Edges == \E edge \in {"rise", "fall"} : G0Edge(edge)

G0DmaIrqs == \E i \in {1, 2, 4} : G0DmaIrqHandler(G0DmaLine(i))
G0UartIrqs == \E d \in G0Uarts : G0UartIrqHandler(G0UartIrqn(d))
G0Interrupts ==
    \/ G0DmaIrqs \/ G0UartIrqs
    \/ G0TimIrqHandler("TIM2") \/ G0NoHandler
    \/ \E num \in {0, 2, 4} : G0ExtiIrqHandler(G0ExtiIrqn(num))
=============================================================================
