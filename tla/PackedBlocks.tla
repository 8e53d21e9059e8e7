------------------------------ MODULE PackedBlocks ------------------------------
(***************************************************************************)
(* Where the bits of a weight lie in a packed GGUF block.  Three pieces of *)
(* code read these blocks, each with its own offsets and shifts: a numpy   *)
(* QuantStrategy (prefill, and the reference), a fused GEMV kernel (decode *)
(* on the CPU) and, for thirteen formats, a torch function (on a device).  *)
(*                                                                         *)
(* A layout gives the weights of a block, its bytes, and the pairs of an   *)
(* output index and what is read for it.  Bits are numbered through the    *)
(* block from the lowest bit of byte 0; a field is the sequence of its     *)
(* bits, lowest first.  The contents of the lookup tables, rounding, and   *)
(* the order of the additions are left out.                                *)
(***************************************************************************)
EXTENDS Integers, Sequences, FiniteSets

Bits(byte, lo, n) == [k \in 1..n |-> 8 * byte + lo + k - 1]
Byte(byte) == Bits(byte, 0, 8)
F16(byte) == Bits(byte, 0, 16)
Nibble(byte, h) == Bits(byte, 4 * h, 4)
Low(byte) == Nibble(byte, 0)
High(byte) == Nibble(byte, 1)

(***************************************************************************)
(* What a weight is computed from: its quant, as a number of some kind or  *)
(* looked up (lane of a grid's row), less an offset; a sign, read as bit   *)
(* signLane of the field or of its table entry; its sub-block's scale s,   *)
(* weighed (a * s + b) / c; the sub-block's minimum; and the block's two   *)
(* factors.                                                                *)
(***************************************************************************)
Reading == [quant |-> <<>>, table |-> "unsigned", lane |-> 0, less |-> 0, sign |-> <<>>,
            signLane |-> 0, scale |-> <<>>, weigh |-> <<1, 0, 1>>, min |-> <<>>,
            d |-> F16(0), dmin |-> <<>>]
Quant(quant) == [Reading EXCEPT !.quant = quant]
Less(quant, n) == [Quant(quant) EXCEPT !.less = n]
Signed(quant) == [Quant(quant) EXCEPT !.table = "signed"]
WithMin(quant, byte) == [Quant(quant) EXCEPT !.min = F16(byte)]
SubBlock(quant, scale, min, d, dmin) ==
  [Quant(quant) EXCEPT !.scale = scale, !.min = min, !.d = d, !.dmin = dmin]
Layout(block, bytes, reads) == [block |-> block, bytes |-> bytes, reads |-> reads]
-----------------------------------------------------------------------------
(* The strategies: blocks of 32. *)
FifthBit(byte, h, j) == Bits(byte, 16 * h + j, 1)
Q8_0Strategy == Layout(32, 34, {<<j, Signed(Byte(2 + j))>> : j \in 0..31})
Q4_0Strategy ==
  Layout(32, 18, {<<16 * h + j, Less(Nibble(2 + j, h), 8)>> : h \in 0..1, j \in 0..15})
Q4_1Strategy ==
  Layout(32, 20, {<<16 * h + j, WithMin(Nibble(4 + j, h), 2)>> : h \in 0..1, j \in 0..15})
Q5_0Strategy ==
  Layout(32, 22, {<<16 * h + j, Less(Nibble(6 + j, h) \o FifthBit(2, h, j), 16)>> :
                    h \in 0..1, j \in 0..15})
Q5_1Strategy ==
  Layout(32, 24, {<<16 * h + j, WithMin(Nibble(8 + j, h) \o FifthBit(4, h, j), 2)>> :
                    h \in 0..1, j \in 0..15})
IQ4(quant) == [Quant(quant) EXCEPT !.table = "iq4nl"]
IQ4_NLStrategy ==
  Layout(32, 18, {<<16 * h + j, IQ4(Nibble(2 + j, h))>> : h \in 0..1, j \in 0..15})

(* Blocks of 256.  Eight scales and minimums of six bits, in twelve bytes. *)
ScaleK4(byte, j) == IF j < 4 THEN Bits(byte + j, 0, 6) ELSE Low(byte + j + 4) \o Bits(byte + j - 4, 6, 2)
MinK4(byte, j) == IF j < 4 THEN Bits(byte + j + 4, 0, 6) ELSE High(byte + j + 4) \o Bits(byte + j, 6, 2)
Q4_KStrategy ==
  Layout(256, 144,
    {<<64 * c + 32 * h + l,
       SubBlock(Nibble(16 + 32 * c + l, h), ScaleK4(4, 2 * c + h), MinK4(4, 2 * c + h), F16(0), F16(2))>> :
       c \in 0..3, h \in 0..1, l \in 0..31})
Q5_KStrategy ==
  Layout(256, 176,
    {<<64 * c + 32 * h + l,
       SubBlock(Nibble(48 + 32 * c + l, h) \o Bits(16 + l, 2 * c + h, 1),
                ScaleK4(4, 2 * c + h), MinK4(4, 2 * c + h), F16(0), F16(2))>> :
       c \in 0..3, h \in 0..1, l \in 0..31})
SixBit(quant, scale) ==
  [SubBlock(quant, scale, <<>>, F16(208), <<>>) EXCEPT !.less = 32]
Q6_KStrategy ==
  Layout(256, 210,
    {<<128 * h + 32 * k + l,
       SixBit(Nibble(64 * h + 32 * (k % 2) + l, k \div 2) \o Bits(128 + 32 * h + l, 2 * k, 2),
              Byte(192 + 8 * h + 2 * k + (l \div 16)))>> : h \in 0..1, k \in 0..3, l \in 0..31})
Q2_KStrategy ==
  Layout(256, 84,
    {<<128 * n + 32 * j + 16 * h + l,
       SubBlock(Bits(16 + 32 * n + 16 * h + l, 2 * j, 2),
                Low(8 * n + 2 * j + h), High(8 * n + 2 * j + h), F16(80), F16(82))>> :
       n \in 0..1, j \in 0..3, h \in 0..1, l \in 0..15})
(* Sixteen scales of six bits, taken from three words of four bytes. *)
Q3KScale(byte, s) ==
  Nibble(byte + (s % 8), s \div 8) \o Bits(byte + 8 + (s % 4), 2 * (s \div 4), 2)
ThreeBit(quant, sign, scale) ==
  [SubBlock(quant, scale, <<>>, F16(108), <<>>) EXCEPT !.sign = sign, !.weigh = <<1, -32, 1>>]
Q3_KStrategy ==
  Layout(256, 110,
    {<<128 * n + 32 * j + 16 * h + l,
       ThreeBit(Bits(32 + 32 * n + 16 * h + l, 2 * j, 2), Bits(16 * h + l, 4 * n + j, 1),
                Q3KScale(96, 8 * n + 2 * j + h))>> :
       n \in 0..1, j \in 0..3, h \in 0..1, l \in 0..15})
EightBit(quant) == [Signed(quant) EXCEPT !.d = Bits(0, 0, 32)]
Q8_KStrategy == Layout(256, 292, {<<j, EightBit(Byte(4 + j))>> : j \in 0..255})
IQ4Scaled(quant, scale) == [IQ4(quant) EXCEPT !.scale = scale, !.weigh = <<1, -32, 1>>]
IQ4_XSStrategy ==
  Layout(256, 136,
    {<<32 * ib + 16 * h + j,
       IQ4Scaled(Nibble(8 + 16 * ib + j, h), Nibble(4 + (ib \div 2), ib % 2) \o Bits(2, 2 * ib, 2))>> :
       ib \in 0..7, h \in 0..1, j \in 0..15})

(* Ternary: digit n of a byte holding five, or four, of them. *)
Digit(byte, n, d) ==
  [Quant(Byte(byte)) EXCEPT !.table = "ternary", !.lane = n, !.less = 1, !.d = F16(d)]
TQ1_0Strategy ==
  Layout(256, 54,
    {<<32 * n + m, Digit(m, n, 52)>> : n \in 0..4, m \in 0..31}
    \cup {<<160 + 16 * n + m, Digit(32 + m, n, 52)>> : n \in 0..4, m \in 0..15}
    \cup {<<240 + 4 * n + m, Digit(48 + m, n, 52)>> : n \in 0..3, m \in 0..3})
TwoBit(quant) == [Less(quant, 1) EXCEPT !.d = F16(64)]
TQ2_0Strategy ==
  Layout(256, 66,
    {<<128 * h + 32 * s + m, TwoBit(Bits(32 * h + m, 2 * s, 2))>> :
       h \in 0..1, s \in 0..3, m \in 0..31})

(***************************************************************************)
(* The formats whose quant is the row of a grid of eight (or four) values. *)
(* A group of eight weights has its own row and signs.                     *)
(***************************************************************************)
Grid(table, row, lane, sign, signLane, scale, weigh) ==
  [Quant(row) EXCEPT !.table = table, !.lane = lane, !.sign = sign, !.signLane = signLane,
                     !.scale = scale, !.weigh = weigh]
IQ1_SStrategy ==
  Layout(256, 50,
    {<<32 * ib + 8 * g + j,
       Grid("iq1s", Byte(2 + 4 * ib + g) \o Bits(34 + 2 * ib, 3 * g, 3), j,
            Bits(34 + 2 * ib, 15, 1), 0, Bits(34 + 2 * ib, 12, 3), <<2, 1, 1>>)>> :
       ib \in 0..7, g \in 0..3, j \in 0..7})
(* The block's factor is put together from the top of four words. *)
TopNibbles(byte) == High(byte + 1) \o High(byte + 3) \o High(byte + 5) \o High(byte + 7)
IQ1_MStrategy ==
  Layout(256, 56,
    {<<32 * ib + 8 * g + j,
       [Grid("iq1s", Byte(4 * ib + g) \o Bits(32 + 2 * ib + (g \div 2), 4 * (g % 2), 3), j,
             Bits(32 + 2 * ib + (g \div 2), 3 + 4 * (g % 2), 1), 0,
             Bits(48 + 2 * (ib \div 2), 6 * (ib % 2) + 3 * (g \div 2), 3), <<2, 1, 1>>)
          EXCEPT !.d = TopNibbles(48)]>> :
       ib \in 0..7, g \in 0..3, j \in 0..7})
IQ2_XXSFourByteSteps ==                                  (* Mutant of IQ2_XXSStrategy *)
  Layout(256, 66,
    {<<32 * ib + 8 * g + j,
       Grid("iq2xxs", Byte(2 + 4 * ib + g), j, Bits(6 + 4 * ib, 7 * g, 7), j,
            Bits(6 + 4 * ib, 28, 4), <<2, 1, 8>>)>> : ib \in 0..7, g \in 0..3, j \in 0..7})
IQ2_XXSStrategy ==
  Layout(256, 66,
    {<<32 * ib + 8 * g + j,
       Grid("iq2xxs", Byte(2 + 8 * ib + g), j, Bits(6 + 8 * ib, 7 * g, 7), j,
            Bits(6 + 8 * ib, 28, 4), <<2, 1, 8>>)>> : ib \in 0..7, g \in 0..3, j \in 0..7})
IQ2_XSStrategy ==
  Layout(256, 74,
    {<<32 * ib + 8 * g + j,
       Grid("iq2xs", Bits(2 + 2 * (4 * ib + g), 0, 9), j, Bits(2 + 2 * (4 * ib + g), 9, 7), j,
            Nibble(66 + ib, IF g < 2 THEN 0 ELSE 1), <<2, 1, 8>>)>> :
       ib \in 0..7, g \in 0..3, j \in 0..7})
IQ2_SStrategy ==
  Layout(256, 82,
    {<<32 * ib + 8 * g + j,
       Grid("iq2s", Byte(2 + 4 * ib + g) \o Bits(66 + ib, 2 * g, 2), j, Bits(34 + 4 * ib + g, j, 1), 0,
            Nibble(74 + ib, IF g < 2 THEN 0 ELSE 1), <<2, 1, 8>>)>> :
       ib \in 0..7, g \in 0..3, j \in 0..7})
(* Rows of four: two for a group. *)
IQ3_XXSStrategy ==
  Layout(256, 98,
    {<<32 * ib + 8 * g + 4 * r + j,
       Grid("iq3xxs", Byte(2 + 8 * ib + 2 * g + r), j, Bits(66 + 4 * ib, 7 * g, 7), 4 * r + j,
            Bits(66 + 4 * ib, 28, 4), <<2, 1, 4>>)>> :
       ib \in 0..7, g \in 0..3, r \in 0..1, j \in 0..3})
IQ3_SStrategy ==
  Layout(256, 110,
    {<<64 * i2 + 32 * h + 8 * g + 4 * r + j,
       Grid("iq3s", Byte(2 + 16 * i2 + 8 * h + 2 * g + r) \o Bits(66 + 2 * i2 + h, 2 * g + r, 1), j,
            Bits(74 + 8 * i2 + 4 * h + g, 4 * r + j, 1), 0, Nibble(106 + i2, h), <<2, 1, 1>>)>> :
       i2 \in 0..3, h \in 0..1, g \in 0..3, r \in 0..1, j \in 0..3})

QuantStrategyRegistry ==
  [Q8_0 |-> Q8_0Strategy, Q4_0 |-> Q4_0Strategy, Q4_1 |-> Q4_1Strategy, Q5_0 |-> Q5_0Strategy,
   Q5_1 |-> Q5_1Strategy, Q2_K |-> Q2_KStrategy, Q3_K |-> Q3_KStrategy, Q4_K |-> Q4_KStrategy,
   Q5_K |-> Q5_KStrategy, Q6_K |-> Q6_KStrategy, Q8_K |-> Q8_KStrategy, IQ4_NL |-> IQ4_NLStrategy,
   IQ4_XS |-> IQ4_XSStrategy, TQ1_0 |-> TQ1_0Strategy, TQ2_0 |-> TQ2_0Strategy,
   IQ2_XXS |-> IQ2_XXSStrategy, IQ2_XS |-> IQ2_XSStrategy, IQ2_S |-> IQ2_SStrategy,
   IQ3_XXS |-> IQ3_XXSStrategy, IQ3_S |-> IQ3_SStrategy, IQ1_S |-> IQ1_SStrategy,
   IQ1_M |-> IQ1_MStrategy]
-----------------------------------------------------------------------------
(* The fused kernels: what a turn of their innermost loop adds to the sum. *)
qgemv_q8_0 ==
  Layout(32, 34, UNION {{<<2 * t, Signed(Byte(2 + 2 * t))>>,
                         <<2 * t + 1, Signed(Byte(2 + 2 * t + 1))>>} : t \in 0..15})
qgemv_q4_0 ==
  Layout(32, 18, UNION {{<<lane, Less(Low(2 + lane), 8)>>, <<16 + lane, Less(High(2 + lane), 8)>>} :
                          lane \in 0..15})
qgemv_q4_1 ==
  Layout(32, 20, UNION {{<<lane, WithMin(Low(4 + lane), 2)>>,
                         <<16 + lane, WithMin(High(4 + lane), 2)>>} : lane \in 0..15})
(* The mask 0x10 keeps bit 4 of what was shifted left by 4, or right by lane + 12. *)
qgemv_q5_0 ==
  Layout(32, 22, UNION {{<<lane, Less(Low(6 + lane) \o Bits(2, lane, 1), 16)>>,
                         <<16 + lane, Less(High(6 + lane) \o Bits(2, lane + 12 + 4, 1), 16)>>} :
                          lane \in 0..15})
qgemv_q5_1 ==
  Layout(32, 24, UNION {{<<lane, WithMin(Low(8 + lane) \o Bits(4, lane, 1), 2)>>,
                         <<16 + lane, WithMin(High(8 + lane) \o Bits(4, lane + 12 + 4, 1), 2)>>} :
                          lane \in 0..15})
qgemv_iq4_nl ==
  Layout(32, 18, UNION {{<<j, IQ4(Low(2 + j))>>, <<16 + j, IQ4(High(2 + j))>>} : j \in 0..15})
qgemv_iq4_xs ==
  Layout(256, 136,
    UNION {LET scale == Nibble(4 + (ib \div 2), ib % 2) \o Bits(2, 2 * ib, 2)
           IN {<<32 * ib + j, IQ4Scaled(Low(8 + 16 * ib + j), scale)>>,
               <<32 * ib + 16 + j, IQ4Scaled(High(8 + 16 * ib + j), scale)>>} :
             ib \in 0..7, j \in 0..15})
(* (Both files of K kernels hold this, in two equal copies.) *)
KernelScaleK4(j) == IF j < 4 THEN Bits(4 + j, 0, 6) ELSE Low(4 + j + 4) \o Bits(4 + j - 4, 6, 2)
KernelMinK4(j) == IF j < 4 THEN Bits(4 + j + 4, 0, 6) ELSE High(4 + j + 4) \o Bits(4 + j, 6, 2)
KernelK4(quant, is) == SubBlock(quant, KernelScaleK4(is), KernelMinK4(is), F16(0), F16(2))
qgemv_q4_k ==
  Layout(256, 144,
    UNION {{<<64 * c + lane, KernelK4(Low(16 + 32 * c + lane), 2 * c)>>,
            <<64 * c + 32 + lane, KernelK4(High(16 + 32 * c + lane), 2 * c + 1)>>} :
             c \in 0..3, lane \in 0..31})
qgemv_q5_k ==
  Layout(256, 176,
    UNION {{<<64 * c + lane, KernelK4(Low(48 + 32 * c + lane) \o Bits(16 + lane, 2 * c, 1), 2 * c)>>,
            <<64 * c + 32 + lane,
              KernelK4(High(48 + 32 * c + lane) \o Bits(16 + lane, 2 * c + 1, 1), 2 * c + 1)>>} :
             c \in 0..3, lane \in 0..31})
qgemv_q6_k ==
  Layout(256, 210,
    UNION {LET ql == 64 * half + lane
               qh == 128 + 32 * half + lane
               sc == 192 + 8 * half + (lane \div 16)
           IN {<<128 * half + lane, SixBit(Low(ql) \o Bits(qh, 0, 2), Byte(sc))>>,
               <<128 * half + lane + 32, SixBit(Low(ql + 32) \o Bits(qh, 2, 2), Byte(sc + 2))>>,
               <<128 * half + lane + 64, SixBit(High(ql) \o Bits(qh, 4, 2), Byte(sc + 4))>>,
               <<128 * half + lane + 96, SixBit(High(ql + 32) \o Bits(qh, 6, 2), Byte(sc + 6))>>} :
             half \in 0..1, lane \in 0..31})
qgemv_q2_k ==
  Layout(256, 84,
    {LET is == 8 * n + 2 * j + half
     IN <<128 * n + 32 * j + 16 * half + lane,
          SubBlock(Bits(16 + 32 * n + 16 * half + lane, 2 * j, 2), Low(is), High(is), F16(80), F16(82))>> :
       n \in 0..1, j \in 0..3, half \in 0..1, lane \in 0..15})
qgemv_q3_k ==
  Layout(256, 110,
    {<<128 * n + 32 * j + 16 * half + lane,
       ThreeBit(Bits(32 + 32 * n + 16 * half + lane, 2 * j, 2), Bits(16 * half + lane, 4 * n + j, 1),
                Q3KScale(96, 8 * n + 2 * j + half))>> :
       n \in 0..1, j \in 0..3, half \in 0..1, lane \in 0..15})
qgemv_q8_k ==
  Layout(256, 292, UNION {{<<2 * t, EightBit(Byte(4 + 2 * t))>>,
                           <<2 * t + 1, EightBit(Byte(4 + 2 * t + 1))>>} : t \in 0..127})
(* TQ1_0 and TQ2_0 count the outputs as they go (col). *)
qgemv_tq1_0 ==
  Layout(256, 54,
    {<<col, IF col < 160 THEN Digit(col % 32, col \div 32, 52)
            ELSE IF col < 240 THEN Digit(32 + ((col - 160) % 16), (col - 160) \div 16, 52)
            ELSE Digit(48 + ((col - 240) % 4), (col - 240) \div 4, 52)>> : col \in 0..255})
qgemv_tq2_0 ==
  Layout(256, 66,
    {<<col, TwoBit(Bits(32 * (col \div 128) + (col % 32), 2 * ((col % 128) \div 32), 2))>> :
       col \in 0..255})
qgemv_iq1_s ==
  Layout(256, 50,
    {LET qh == 34 + 2 * ib
     IN <<32 * ib + 8 * g + j,
          Grid("iq1s", Byte(2 + 4 * ib + g) \o Bits(qh, 3 * g, 3), j, Bits(qh, 15, 1), 0,
               Bits(qh, 12, 3), <<2, 1, 1>>)>> : ib \in 0..7, g \in 0..3, j \in 0..7})
(* Four groups spelled out: two bytes of qh, two words' scales. *)
qgemv_iq1_m ==
  Layout(256, 56,
    UNION {LET qh0 == 32 + 2 * ib
               qh1 == 32 + 2 * ib + 1
               sc == 48 + 2 * (ib \div 2)
               dl1 == Bits(sc, 6 * (ib % 2), 3)
               dl2 == Bits(sc, 6 * (ib % 2) + 3, 3)
               Group(g, high, delta, dl) ==
                 <<32 * ib + 8 * g + j,
                   [Grid("iq1s", Byte(4 * ib + g) \o high, j, delta, 0, dl, <<2, 1, 1>>)
                      EXCEPT !.d = TopNibbles(48)]>>
           IN {Group(0, Bits(qh0, 0, 3), Bits(qh0, 3, 1), dl1), Group(1, Bits(qh0, 4, 3), Bits(qh0, 7, 1), dl1),
               Group(2, Bits(qh1, 0, 3), Bits(qh1, 3, 1), dl2), Group(3, Bits(qh1, 4, 3), Bits(qh1, 7, 1), dl2)} :
             ib \in 0..7, j \in 0..7})
qgemv_iq2_xxs ==
  Layout(256, 66,
    {LET word1 == 2 + 8 * ib + 4
     IN <<32 * ib + 8 * g + j,
          Grid("iq2xxs", Byte(2 + 8 * ib + g), j, Bits(word1, 7 * g, 7), j, Bits(word1, 28, 4), <<2, 1, 8>>)>> :
       ib \in 0..7, g \in 0..3, j \in 0..7})
qgemv_iq2_xs ==
  Layout(256, 74,
    {LET qval == 2 + 2 * (4 * ib + g)
     IN <<32 * ib + 8 * g + j,
          Grid("iq2xs", Bits(qval, 0, 9), j, Bits(qval, 9, 7), j,
               IF g < 2 THEN Low(66 + ib) ELSE High(66 + ib), <<2, 1, 8>>)>> :
       ib \in 0..7, g \in 0..3, j \in 0..7})
qgemv_iq2_s ==
  Layout(256, 82,
    {<<32 * ib + 8 * g + j,
       Grid("iq2s", Byte(2 + 4 * ib + g) \o Bits(66 + ib, 2 * g, 2), j,
            Bits(34 + 4 * ib + g, j, 1), 0, IF g < 2 THEN Low(74 + ib) ELSE High(74 + ib), <<2, 1, 8>>)>> :
       ib \in 0..7, g \in 0..3, j \in 0..7})
qgemv_iq3_xxs ==
  Layout(256, 98,
    UNION {LET idx == 2 + 8 * ib + 2 * g
               aux == 66 + 4 * ib
               Half(r) == <<32 * ib + 8 * g + 4 * r + j,
                            Grid("iq3xxs", Byte(idx + r), j, Bits(aux, 7 * g, 7), j + 4 * r,
                                 Bits(aux, 28, 4), <<2, 1, 4>>)>>
           IN {Half(0), Half(1)} : ib \in 0..7, g \in 0..3, j \in 0..3})
(* The ninth bit of the row: qh shifted left by 8 - 2g, or by 7 - 2g, and masked with 256. *)
IQ3SHalf(i2, half, g, r, shift, j) ==
  <<64 * i2 + 32 * half + 8 * g + 4 * r + j,
    Grid("iq3s", Byte(2 + 16 * i2 + 8 * half + 2 * g + r) \o Bits(66 + 2 * i2 + half, 8 - shift, 1), j,
         Bits(74 + 8 * i2 + 4 * half + g, j + 4 * r, 1), 0,
         IF half = 0 THEN Low(106 + i2) ELSE High(106 + i2), <<2, 1, 1>>)>>
qgemv_iq3_s_same_shift ==                                (* Mutant of qgemv_iq3_s *)
  Layout(256, 110,
    UNION {{IQ3SHalf(i2, half, g, 0, 8 - 2 * g, j), IQ3SHalf(i2, half, g, 1, 8 - 2 * g, j)} :
             i2 \in 0..3, half \in 0..1, g \in 0..3, j \in 0..3})
qgemv_iq3_s ==
  Layout(256, 110,
    UNION {{IQ3SHalf(i2, half, g, 0, 8 - 2 * g, j), IQ3SHalf(i2, half, g, 1, 7 - 2 * g, j)} :
             i2 \in 0..3, half \in 0..1, g \in 0..3, j \in 0..3})

GEMV_KERNELS ==
  [Q8_0 |-> qgemv_q8_0, Q4_0 |-> qgemv_q4_0, Q4_1 |-> qgemv_q4_1, Q5_0 |-> qgemv_q5_0,
   Q5_1 |-> qgemv_q5_1, Q2_K |-> qgemv_q2_k, Q3_K |-> qgemv_q3_k, Q4_K |-> qgemv_q4_k,
   Q5_K |-> qgemv_q5_k, Q6_K |-> qgemv_q6_k, Q8_K |-> qgemv_q8_k, IQ4_NL |-> qgemv_iq4_nl,
   IQ4_XS |-> qgemv_iq4_xs, TQ1_0 |-> qgemv_tq1_0, TQ2_0 |-> qgemv_tq2_0,
   IQ2_XXS |-> qgemv_iq2_xxs, IQ2_XS |-> qgemv_iq2_xs, IQ2_S |-> qgemv_iq2_s,
   IQ3_XXS |-> qgemv_iq3_xxs, IQ3_S |-> qgemv_iq3_s, IQ1_S |-> qgemv_iq1_s, IQ1_M |-> qgemv_iq1_m]
-----------------------------------------------------------------------------
(* On a device: tensors of all a block's fields, reshaped and joined. *)
nibbles(byte, i) == Nibble(byte + (i % 16), i \div 16)
fifth_bit(byte, i) == Bits(byte, IF i < 16 THEN i ELSE i - 16 + 12 + 4, 1)
q8_0 == Layout(32, 34, {<<i, Signed(Byte(2 + i))>> : i \in 0..31})
q4_0 == Layout(32, 18, {<<i, Less(nibbles(2, i), 8)>> : i \in 0..31})
q4_1 == Layout(32, 20, {<<i, WithMin(nibbles(4, i), 2)>> : i \in 0..31})
q5_0 == Layout(32, 22, {<<i, Less(nibbles(6, i) \o fifth_bit(2, i), 16)>> : i \in 0..31})
q5_1 == Layout(32, 24, {<<i, WithMin(nibbles(8, i) \o fifth_bit(4, i), 2)>> : i \in 0..31})
iq4_nl == Layout(32, 18, {<<i, IQ4(nibbles(2, i))>> : i \in 0..31})
iq4_xs ==
  Layout(256, 136,
    {LET ib == i \div 32
     IN <<i, IQ4Scaled(nibbles(8 + 16 * ib, i % 32),
                       Bits(4 + (ib \div 2), 4 * (ib % 2), 4) \o Bits(2, 2 * ib, 2))>> : i \in 0..255})
(* Eight scales, then eight minimums, each joined from two halves. *)
scale_k4(j) == IF j < 4 THEN Bits(4 + j, 0, 6) ELSE Low(12 + j - 4) \o Bits(4 + j - 4, 6, 2)
min_k4(j) == IF j < 4 THEN Bits(8 + j, 0, 6) ELSE High(12 + j - 4) \o Bits(8 + j - 4, 6, 2)
k4(quant, i) == SubBlock(quant, scale_k4(i \div 32), min_k4(i \div 32), F16(0), F16(2))
q4_k ==
  Layout(256, 144,
    {<<i, k4(Nibble(16 + 32 * (i \div 64) + (i % 32), (i \div 32) % 2), i)>> : i \in 0..255})
q5_k ==
  Layout(256, 176,
    {<<i, k4(Nibble(48 + 32 * (i \div 64) + (i % 32), (i \div 32) % 2)
             \o Bits(16 + (i % 32), 2 * (i \div 64) + ((i \div 32) % 2), 1), i)>> : i \in 0..255})
per16(i) == i \div 16
q6_k ==
  Layout(256, 210,
    {LET half == i \div 128
         k == (i \div 32) % 4
         lo_or_hi == 64 * half + 32 * (k % 2) + (i % 32)
     IN <<i, SixBit((IF k < 2 THEN Low(lo_or_hi) ELSE High(lo_or_hi))
                    \o Bits(128 + 32 * half + (i % 32), 2 * k, 2), Byte(192 + per16(i)))>> :
       i \in 0..255})
q8_k == Layout(256, 292, {<<i, EightBit(Byte(4 + i))>> : i \in 0..255})
two_bit(byte, i) == Bits(byte + 32 * (i \div 128) + (i % 32), 2 * ((i \div 32) % 4), 2)
q2_k ==
  Layout(256, 84,
    {<<i, SubBlock(two_bit(16, i), Low(per16(i)), High(per16(i)), F16(80), F16(82))>> : i \in 0..255})
(* Four words of four scales each. *)
q3k_scale(s) ==
  LET w == s \div 4
      b == s % 4
  IN (IF w < 2 THEN Low(96 + 4 * w + b) ELSE High(96 + 4 * (w - 2) + b)) \o Bits(104 + b, 2 * w, 2)
q3_k ==
  Layout(256, 110,
    {<<i, ThreeBit(two_bit(32, i), Bits(i % 32, 4 * (i \div 128) + ((i \div 32) % 4), 1),
                   q3k_scale(per16(i)))>> : i \in 0..255})
TORCH_KERNELS ==
  [Q8_0 |-> q8_0, Q4_0 |-> q4_0, Q4_1 |-> q4_1, Q5_0 |-> q5_0, Q5_1 |-> q5_1, Q4_K |-> q4_k,
   Q5_K |-> q5_k, Q6_K |-> q6_k, Q2_K |-> q2_k, Q3_K |-> q3_k, Q8_K |-> q8_k, IQ4_NL |-> iq4_nl,
   IQ4_XS |-> iq4_xs]
-----------------------------------------------------------------------------
(***************************************************************************)
(* A layout is sound when every output index has one reading, and the      *)
(* fields read cover the block, none sharing a bit with another: every bit *)
(* of a block means something, and one thing.  Q8_K's sums of its quants,  *)
(* for another product's sake, are not read.                               *)
(***************************************************************************)
Fields(layout) ==
  UNION {{r[2].quant, r[2].scale, r[2].min, r[2].sign, r[2].d, r[2].dmin} : r \in layout.reads}
BitsOf(field) == {field[k] : k \in DOMAIN field}
Unread(format) == IF format = "Q8_K" THEN (8 * 260)..(8 * 292 - 1) ELSE {}
Sound(format, layout) ==
  /\ {r[1] : r \in layout.reads} = 0..(layout.block - 1)
  /\ Cardinality(layout.reads) = layout.block
  /\ UNION {BitsOf(f) : f \in Fields(layout)} = (0..(8 * layout.bytes - 1)) \ Unread(format)
  /\ \A f, g \in Fields(layout) : f # g => BitsOf(f) \cap BitsOf(g) = {}
SoundFormats == {f \in DOMAIN QuantStrategyRegistry : Sound(f, QuantStrategyRegistry[f])}
KernelAgrees == {f \in DOMAIN GEMV_KERNELS : GEMV_KERNELS[f] = QuantStrategyRegistry[f]}
TorchAgrees == {f \in DOMAIN TORCH_KERNELS : TORCH_KERNELS[f] = QuantStrategyRegistry[f]}
=============================================================================
