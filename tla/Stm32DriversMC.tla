--------------------------- MODULE Stm32DriversMC ---------------------------
(* The programs that TLC runs. *)
EXTENDS Stm32Drivers

MCControllers == {"dma", "dma4"}
MCDevices == {"dma", "dma4", "exti", "gpi", "gpo", "usart1", "usart2", "lpuart2", "usart3", "spi1", "spi2", "spi6", "usart6",
              "i2s1", "tim2", "tim3"}
MCRequests ==
    ({"usart1", "usart2", "lpuart2", "spi1", "spi2", "spi6"} \X {"tx", "rx"})
    \union {<<"usart6", "tx">>} \union {<<"i2s1", "tx">>}
    \union ({"tim2", "tim3"} \X {"count", "update"}) \union {<<"tim2", "burst">>}
    \union ({"exti"} \X {"rise", "fall"})
MCWatched == {<<"usart1", "rx">>, <<"lpuart2", "tx">>, <<"spi1", "rx">>, <<"spi6", "rx">>}
MCPins == {"A", "B", "C", "J"} \X (0..4)
P(dev, signal, port, num) == [dev |-> dev, signal |-> signal, pin |-> <<port, num>>]

G0Board(mode, dma, pinout, spi) ==
    {[mode |-> [d \in Devices |-> IF d \in DOMAIN mode THEN mode[d] ELSE "off"],
      dma |-> dma, pinout |-> pinout, spi |-> [d \in {"spi1", "spi2"} |-> spi],
      core |-> [d \in Devices |-> "g0"], rs485 |-> {"usart2"}, refused |-> refused, careful |-> careful]
       : careful \in BOOLEAN,
         refused \in IF "tim2" \in DOMAIN mode THEN {{}, {"tim2"}} ELSE {{}} }

MCG0Boards ==
    (* Two UARTs by DMA, an SPI that receives, on shared channel lines. *)
    G0Board([dma |-> "dma", usart1 |-> "dma", spi1 |-> "dma"],
            <<<<"spi1", "rx">>, <<"usart1", "tx">>, <<"usart1", "rx">>>>,
            {P("usart1", "tx", "A", 0), P("usart1", "rx", "A", 1),
             P("spi1", "miso", "B", 0), P("spi1", "sck", "B", 1)}, "rx")
    \union
    (* Three UARTs, two of them on one line. *)
    G0Board([dma |-> "dma", usart2 |-> "irq", lpuart2 |-> "dma", usart3 |-> "poll"],
            <<<<"lpuart2", "rx">>, <<"lpuart2", "tx">>>>,
            {P("usart2", "tx", "A", 0), P("usart2", "rx", "A", 1), P("usart2", "de", "A", 2),
             P("lpuart2", "tx", "B", 0), P("lpuart2", "rx", "B", 1)}, "tx")
    \union
    (* Timers. *)
    G0Board([dma |-> "dma", tim2 |-> "dma", tim3 |-> "pwm", gpo |-> "out"],
            <<<<"tim2", "burst">>>>,
            {P("tim2", "ch1", "A", 0), P("tim3", "ch1", "A", 1), P("gpo", "out", "C", 1)}, "tx")
    \union
    G0Board([dma |-> "dma", tim2 |-> "multi", spi2 |-> "dma", i2s1 |-> "circular"],
            <<<<"spi2", "rx">>, <<"spi2", "tx">>, <<"i2s1", "tx">>, <<"tim2", "burst">>>>,
            {P("tim2", "ch1", "A", 0), P("tim2", "ch2", "A", 1),
             P("i2s1", "ck", "B", 2), P("i2s1", "sd", "B", 3), P("i2s1", "ws", "B", 4),
             P("spi2", "mosi", "C", 0), P("spi2", "miso", "C", 1), P("spi2", "sck", "C", 2)},
            "duplex")
    \union
    (* Does not compile: a channel is missing. *)
    G0Board([dma |-> "dma", usart1 |-> "dma"], <<<<"usart1", "tx">>>>, {}, "tx")
    \union
    G0Board([dma |-> "dma", i2s1 |-> "dma", spi2 |-> "poll", gpi |-> "in", exti |-> "both"],
            <<<<"i2s1", "tx">>>>, {P("exti", "in", "A", 4), P("gpi", "in", "A", 3), P("i2s1", "ck", "B", 2)}, "tx")

H7Board(mode, onM4, dma, pinout, spi, uses, careful) ==
    {[mode |-> [d \in Devices |-> IF d \in DOMAIN mode THEN mode[d] ELSE "off"],
      core |-> [d \in Devices |-> IF d \in onM4 THEN "cm4" ELSE "cm7"],
      dma |-> dma, pinout |-> pinout, spi |-> spi, uses |-> uses,
      refused |-> {}, careful |-> c] : c \in careful}
Use(boots, n) == [boots |-> boots, notifies |-> n]

MCH7Boards ==
    (* Each core has an SPI; the streams of both are in one list. *)
    H7Board([dma |-> "dma", dma4 |-> "dma", spi1 |-> "dma", spi2 |-> "dma"],
            {"dma4", "spi2"}, <<<<"spi2", "rx">>, <<"spi1", "rx">>, <<"spi1", "tx">>>>,
            {P("spi1", "mosi", "A", 0), P("spi1", "miso", "A", 1), P("spi1", "sck", "A", 2),
             P("spi2", "miso", "B", 0), P("spi2", "sck", "B", 1)},
            [spi1 |-> "duplex", spi2 |-> "rx"], {Use("waits", 0)}, {TRUE})
    \union
    (* The BDMA and UARTs on the M4, by a program that constructs drivers as it goes. *)
    H7Board([dma4 |-> "dma", spi6 |-> "dma", usart1 |-> "irq", usart2 |-> "poll",
             spi1 |-> "poll"],
            {"dma4", "spi1", "spi6", "usart1", "usart2"}, <<<<"spi6", "tx">>, <<"spi6", "rx">>>>,
            {P("spi6", "mosi", "A", 0), P("spi6", "sck", "A", 1),
             P("usart1", "tx", "B", 0), P("usart1", "rx", "B", 1),
             P("usart2", "tx", "C", 0), P("usart2", "rx", "C", 1)},
            [spi1 |-> "tx", spi6 |-> "half"], {Use("waits", 0)}, {FALSE})
    \union
    (* A UART without a handler. *)
    H7Board([usart6 |-> "irq", gpi |-> "in", gpo |-> "out"], {}, <<>>,
            {P("usart6", "tx", "C", 0), P("gpi", "in", "A", 4), P("gpo", "out", "J", 1)}, <<>>,
            {Use(boots, 0) : boots \in {"limited", "rushes"}}, {TRUE})
    \union
    (* Cores that notify each other. *)
    H7Board(<<>>, {}, <<>>, {}, <<>>, {Use("waits", 2)}, {TRUE})
    \union
    (* Does not compile: a UART by DMA. *)
    H7Board([dma |-> "dma", usart1 |-> "dma"], {}, <<<<"usart1", "tx">>, <<"usart1", "rx">>>>,
            {}, <<>>, {Use("waits", 0)}, {TRUE})
=============================================================================
