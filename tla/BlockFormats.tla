---------------------------- MODULE BlockFormats ----------------------------
(* The eight weight formats of GGML: how many elements a block holds, in   *)
(* how many bytes, and which bits of the block make up one element.  The   *)
(* same knowledge is written down three times in the code: in the registry *)
(* of formulas, in the loops of the CPU and in the WGSL shaders.  Numbers  *)
(* are abstracted to the bits they are computed from, lowest bit first: an *)
(* element is the record of the bits of its block scale d, block minimum   *)
(* dmin, sub-block scale sc, sub-block minimum m and quant q.              *)
EXTENDS Integers, Sequences, FiniteSets

(* The registry's table, in the order of the slots a shader switches on.   *)
Registry ==
  << [name |-> "F32",  type |-> 0,  elems |-> 1,   bytes |-> 4],
     [name |-> "F16",  type |-> 1,  elems |-> 1,   bytes |-> 2],
     [name |-> "Q4_0", type |-> 2,  elems |-> 32,  bytes |-> 18],
     [name |-> "Q5_0", type |-> 6,  elems |-> 32,  bytes |-> 22],
     [name |-> "Q8_0", type |-> 8,  elems |-> 32,  bytes |-> 34],
     [name |-> "Q4_K", type |-> 12, elems |-> 256, bytes |-> 144],
     [name |-> "Q5_K", type |-> 13, elems |-> 256, bytes |-> 176],
     [name |-> "Q6_K", type |-> 14, elems |-> 256, bytes |-> 210] >>

Formats == { Registry[i].name : i \in DOMAIN Registry }

FormulaFor(f) == CHOOSE i \in DOMAIN Registry : Registry[i].name = f
BlockElems(f) == Registry[FormulaFor(f)].elems
BlockBytes(f) == Registry[FormulaFor(f)].bytes
(* The number handed to the shaders: distinct from the GGML type.          *)
FormulaSlot(f) == FormulaFor(f) - 1

Plain(bits) == [d |-> <<>>, dmin |-> <<>>, sc |-> <<>>, m |-> <<>>, q |-> bits]
Scaled(d, q) == [Plain(q) EXCEPT !.d = d]

Low(byte)  == SubSeq(byte, 1, 4)
High(byte) == SubSeq(byte, 5, 8)
Bit(bits, i) == << bits[i + 1] >>
Nibble(byte, low) == IF low THEN Low(byte) ELSE High(byte)

(* The n bytes of a block from offset off on; a block is a function from   *)
(* offsets to the bits of its bytes.                                       *)
Field(block, off, n) ==
  [ i \in 1 .. 8 * n |-> block[off + ((i - 1) \div 8)][((i - 1) % 8) + 1] ]

(* The six-bit scale and minimum of sub-block j: the first four are whole, *)
(* the others borrow two bits from their neighbours.                       *)
ScaleMin(j, scale) ==
  IF j < 4 THEN [sc |-> SubSeq(scale[j], 1, 6), m |-> SubSeq(scale[j + 4], 1, 6)]
  ELSE [sc |-> Low(scale[j + 4]) \o SubSeq(scale[j - 4], 7, 8),
        m  |-> High(scale[j + 4]) \o SubSeq(scale[j], 7, 8)]

-----------------------------------------------------------------------------
(* The registry.                                                           *)

DequantQ40(e, block) ==
  Scaled(Field(block, 0, 2), Nibble(block[2 + (e % 16)], e < 16))

DequantQ50(e, block) ==
  Scaled(Field(block, 0, 2), Nibble(block[6 + (e % 16)], e < 16) \o Bit(Field(block, 2, 4), e))

DequantQ80(e, block) == Scaled(Field(block, 0, 2), block[2 + e])

DequantQ4K(e, block) ==
  LET group == e \div 64
      sub == (e % 64) \div 32
      scale == [ j \in 0..11 |-> block[4 + j] ]
      sm == ScaleMin(2 * group + sub, scale)
  IN [d |-> Field(block, 0, 2), dmin |-> Field(block, 2, 2), sc |-> sm.sc, m |-> sm.m,
      q |-> Nibble(block[16 + 32 * group + (e % 32)], sub = 0)]

DequantQ5K(e, block) ==
  LET group == e \div 64
      sub == (e % 64) \div 32
      scale == [ j \in 0..11 |-> block[4 + j] ]
      sm == ScaleMin(2 * group + sub, scale)
  IN [d |-> Field(block, 0, 2), dmin |-> Field(block, 2, 2), sc |-> sm.sc, m |-> sm.m,
      q |-> Nibble(block[48 + 32 * group + (e % 32)], sub = 0)
            \o Bit(block[16 + (e % 32)], e \div 32)]

DequantQ6K(e, block) ==
  LET half == e \div 128
      l == e % 32
      quarter == (e % 128) \div 32
      ql == IF quarter \in {0, 2} THEN 64 * half + l ELSE 64 * half + l + 32
      qh == block[128 + 32 * half + l]
  IN [Scaled(Field(block, 208, 2),
             Nibble(block[ql], quarter < 2) \o SubSeq(qh, 2 * quarter + 1, 2 * quarter + 2))
        EXCEPT !.sc = block[192 + 8 * half + (l \div 16) + 2 * quarter]]

Dequant(f, e, block) ==
  CASE f = "F32"  -> Plain(Field(block, 0, 4))
    [] f = "F16"  -> Plain(Field(block, 2 * e, 2))
    [] f = "Q4_0" -> DequantQ40(e, block)
    [] f = "Q5_0" -> DequantQ50(e, block)
    [] f = "Q8_0" -> DequantQ80(e, block)
    [] f = "Q4_K" -> DequantQ4K(e, block)
    [] f = "Q5_K" -> DequantQ5K(e, block)
    [] f = "Q6_K" -> DequantQ6K(e, block)

-----------------------------------------------------------------------------
(* The loops of the CPU: the pairs << position, element >> a block is      *)
(* expanded to.                                                            *)

HalfAt(block, i) == block[i] \o block[i + 1]

CpuQ40(block) ==
  UNION { { <<j, Scaled(HalfAt(block, 0), Low(block[2 + j]))>>,
            <<j + 16, Scaled(HalfAt(block, 0), High(block[2 + j]))>> } : j \in 0..15 }

CpuQ80(block) == { <<i, Scaled(HalfAt(block, 0), block[2 + i])>> : i \in 0..31 }

(* Two runs of 32 for each 64: the low nibbles under one scale, then the   *)
(* high nibbles of the same bytes under the next.                          *)
CpuRuns(block, qs, high) ==
  LET scale == [ j \in 0..11 |-> block[4 + j] ]
      El(group, sub, l) ==
        LET sm == ScaleMin(2 * group + sub, scale)
        IN [d |-> HalfAt(block, 0), dmin |-> HalfAt(block, 2), sc |-> sm.sc, m |-> sm.m,
            q |-> Nibble(block[qs + 32 * group + l], sub = 0)
                  \o high[2 * group + sub][l]]
  IN { <<64 * group + 32 * sub + l, El(group, sub, l)>> :
         group \in 0..3, sub \in 0..1, l \in 0..31 }

CpuQ4K(block) ==
  CpuRuns(block, 16, [ bit \in 0..7 |-> [ l \in 0..31 |-> <<>> ] ])

CpuQ5K(block) ==
  CpuRuns(block, 48, [ bit \in 0..7 |-> [ l \in 0..31 |-> Bit(block[16 + l], bit) ] ])

(* Four quants from three bytes, 32 positions apart.                       *)
CpuQ6K(block) ==
  LET El(n, l, k) ==
        [Scaled(HalfAt(block, 208),
                Nibble(block[64 * n + l + 32 * (k % 2)], k < 2)
                \o SubSeq(block[128 + 32 * n + l], 2 * k + 1, 2 * k + 2))
           EXCEPT !.sc = block[192 + 8 * n + (l \div 16) + 2 * k]]
  IN { <<128 * n + l + 32 * k, El(n, l, k)>> : n \in 0..1, l \in 0..31, k \in 0..3 }

(* The formats a head can be expanded from; the others are not handled.    *)
CpuFormats == {"F32", "Q4_0", "Q8_0", "Q4_K", "Q5_K", "Q6_K"}

CpuBlock(f, block) ==
  CASE f = "F32"  -> { <<0, Plain(HalfAt(block, 0) \o HalfAt(block, 2))>> }
    [] f = "Q4_0" -> CpuQ40(block)
    [] f = "Q8_0" -> CpuQ80(block)
    [] f = "Q4_K" -> CpuQ4K(block)
    [] f = "Q5_K" -> CpuQ5K(block)
    [] f = "Q6_K" -> CpuQ6K(block)

-----------------------------------------------------------------------------
(* The shaders.  read is how a shader reads at an offset of the block: a   *)
(* byte, a half, and for the high bits of a Q5_0 block a quad.             *)

ShaderQ40(e, read) ==
  LET raw == read.byte[2 + (e % 16)]
  IN Scaled(read.half[0], IF e >= 16 THEN High(raw) ELSE Low(raw))

ShaderQ50(e, read) ==
  LET raw == read.byte[6 + (e % 16)]
  IN Scaled(read.half[0], (IF e < 16 THEN Low(raw) ELSE High(raw)) \o Bit(read.quad[2], e))

ShaderQ80(e, read) == Scaled(read.half[0], read.byte[2 + e])

ShaderQ4K(e, read) ==
  LET group == e \div 64
      inGroup == e % 64
      scale == [ j \in 0..11 |-> read.byte[4 + j] ]
      sm == ScaleMin(2 * group + IF inGroup < 32 THEN 0 ELSE 1, scale)
      nibble == IF inGroup < 32 THEN Low(read.byte[16 + 32 * group + inGroup])
                ELSE High(read.byte[16 + 32 * group + (inGroup - 32)])
  IN [d |-> read.half[0], dmin |-> read.half[2], sc |-> sm.sc, m |-> sm.m, q |-> nibble]

ShaderQ5K(e, read) ==
  LET group == e \div 64
      sub == (e % 64) \div 32
      l == (e % 64) % 32
      scale == [ j \in 0..11 |-> read.byte[4 + j] ]
      sm == ScaleMin(2 * group + sub, scale)
      raw == read.byte[48 + 32 * group + l]
  IN [d |-> read.half[0], dmin |-> read.half[2], sc |-> sm.sc, m |-> sm.m,
      q |-> (IF sub = 0 THEN Low(raw) ELSE High(raw))
            \o Bit(read.byte[16 + l], e \div 32)]

ShaderQ6K(e, read) ==
  LET half == e \div 128
      l == (e % 128) % 32
      quarter == (e % 128) \div 32
      ql == read.byte[64 * half + l + IF quarter \in {0, 2} THEN 0 ELSE 32]
      lower4 == IF quarter < 2 THEN Low(ql) ELSE High(ql)
      upper2 == SubSeq(read.byte[128 + 32 * half + l], 2 * quarter + 1, 2 * quarter + 2)
  IN [Scaled(read.half[208], lower4 \o upper2)
        EXCEPT !.sc = read.byte[192 + 8 * half + (l \div 16) + 2 * quarter]]

(* The offsets of the longest block.                                       *)
BlockOffsets == 0 .. BlockBytes("Q6_K") - 1

(* The switch on the slot; the tables give the block of a slot and zero    *)
(* for the two formats that are no blocks.                                 *)
QuantElems == <<0, 0, 32, 32, 32, 256, 256, 256>>
QuantBytes == <<0, 0, 18, 22, 34, 144, 176, 210>>

DequantByFormula(slot, e, read) ==
  CASE slot = 2 -> ShaderQ40(e, read)
    [] slot = 3 -> ShaderQ50(e, read)
    [] slot = 4 -> ShaderQ80(e, read)
    [] slot = 5 -> ShaderQ4K(e, read)
    [] slot = 6 -> ShaderQ5K(e, read)
    [] slot = 7 -> ShaderQ6K(e, read)
    [] OTHER -> Plain(<<>>)
=============================================================================
