----------------------------- MODULE BlobWindows -----------------------------
(* The file on the GPU: split into resident chunks, of which a dispatch    *)
(* binds at most BindingSlots consecutive ones; and the readers of the     *)
(* shaders, which resolve a word of that window.  A place is the position  *)
(* in the file of the word that is read, Lost when no bound chunk has it.  *)
(* All offsets of words are of four bytes, packed ones of two.             *)
EXTENDS BlockFormats

CONSTANTS
  AddressSpan,   \* what a u32 counts (2^32, scaled)
  Granule,       \* REQUIRED_ALIGNMENT
  ChunkCap,      \* BLOB_CHUNK_BYTES
  BindingSlots   \* BLOB_BINDING_SLOTS

ASSUME BlobAssumption ==
  /\ {AddressSpan, Granule, ChunkCap, BindingSlots} \subseteq Nat \ {0}
  /\ Granule % 4 = 0 /\ Granule <= ChunkCap /\ BindingSlots >= 2

Lost == -1
AtMost(a, b) == IF a < b THEN a ELSE b
AtLeast(a, b) == IF a < b THEN b ELSE a
RoundDown(n, a) == (n \div a) * a
DivCeil(n, a) == (n + a - 1) \div a

-----------------------------------------------------------------------------
(* The chunk plan and the windows over it.                                 *)

ChunkPlan(size, limit) ==
  LET bytes == RoundDown(AtMost(ChunkCap, limit), Granule)
  IN [bytes |-> bytes, count |-> DivCeil(size, bytes), words |-> bytes \div 4]

(* The bytes of the file in chunk c: [first, end).                         *)
ChunkRange(plan, size, c) == <<c * plan.bytes, AtMost((c + 1) * plan.bytes, size)>>

NoWindow == [start |-> 0, count |-> 0]
NewWindow(start, count, plan) ==
  IF start < plan.count /\ count \in 1..BindingSlots /\ start + count <= plan.count
  THEN [start |-> start, count |-> count] ELSE NoWindow

ForRange(firstWord, lastWord, plan) ==
  LET start == firstWord \div plan.words
  IN NewWindow(start, (lastWord \div plan.words) - start + 1, plan)

WindowBase(win, plan) == win.start * plan.words

(* Of `count` elements from a word on: the span of whole blocks, in bytes. *)
DequantWindow(firstWord, count, format, plan) ==
  LET bytes == DivCeil(count, BlockElems(format)) * BlockBytes(format)
  IN ForRange(firstWord, firstWord + ((AtLeast(bytes, 1) - 1) \div 4), plan)

(* The weights of a norm and its bias, when there is one (0 for none).     *)
RmsNormWindow(weight, bias, count, plan) ==
  LET last == AtLeast(count, 1) - 1
      first == IF bias = 0 THEN weight ELSE AtMost(weight, bias)
  IN ForRange(first, AtLeast(weight + last, IF bias = 0 THEN 0 ELSE bias + last), plan)

(* Rows of the head: the last byte read, not the end of the range.         *)
LmHeadWindow(weight, rowBytes, baseRow, rows, plan) ==
  LET end == weight + (baseRow + rows) * rowBytes - (IF rows = 0 THEN 0 ELSE 1)
  IN ForRange((weight + baseRow * rowBytes) \div 4, end \div 4, plan)

(* u32 subtraction and addition wrap: the base may be negative.            *)
Rebase(word, win, plan) == (word - WindowBase(win, plan)) % AddressSpan

-----------------------------------------------------------------------------
(* Packed offsets: half the byte offset, zero for a missing tensor.        *)

PackBlobOffset(byte) == byte \div 2

RelativePacked(abs, base) == IF abs = 0 THEN 0 ELSE PackBlobOffset(abs - base)

(* The words of the tensors a layer has, by their starts (offsets is a     *)
(* function of the packed ones).                                           *)
StartWords(packed, base) == { (p \div 2) + base : p \in packed \ {0} }
Least(S) == CHOOSE n \in S : \A k \in S : n <= k
Greatest(S) == CHOOSE n \in S : \A k \in S : k <= n

(* The window of a layer from the complete ranges of its tensors, and the  *)
(* base the shader receives.  spans are pairs << start, bytes >>.          *)
PlanLayerTensorWindow(packed, base, spans, plan) ==
  LET starts == StartWords(packed, base) \cup {base} \cup { s[1] \div 4 : s \in spans }
      ends == StartWords(packed, base) \cup { (s[1] + s[2] - 1) \div 4 : s \in spans }
      win == ForRange(Least(starts), Greatest(ends), plan)
  IN [win |-> win, base |-> base - WindowBase(win, plan)]

-----------------------------------------------------------------------------
(* The readers.                                                            *)

(* What a dispatch has bound: the resident ranges, its window, the plan.   *)
Binding(chunks, win, plan) == [chunks |-> chunks, win |-> win, plan |-> plan]

(* read_blob: the last slot takes every chunk number from seven on; an     *)
(* unbound slot is the dummy buffer.                                       *)
ReadBlob(blob, word) ==
  LET slot == AtMost(word \div blob.plan.words, BindingSlots - 1)
      chunk == blob.win.start + slot + 1
      place == blob.chunks[chunk][1] + 4 * (word % blob.plan.words)
  IN IF slot < blob.win.count /\ chunk <= Len(blob.chunks) /\ place + 4 <= blob.chunks[chunk][2]
     THEN place ELSE Lost

(* extractBits: what passes the end of the word is zero, and lost here.    *)
ExtractBits(place, first, count) ==
  [ i \in 1..count |-> IF place = Lost \/ first + i > 32 THEN Lost ELSE 8 * place + first + i - 1 ]

\* Mutant: the step of a block is counted in words.
BugAddPack(pack, bytes) == pack + 2 * (bytes \div 4)

AddPack(pack, bytes) == pack + bytes \div 2

(* The readers of the layer and dequantisation shaders; base is            *)
(* blob_base_words.                                                        *)
ReadRel(blob, base, pack, rel, count) ==
  LET adj == 2 * (pack % 2) + rel
  IN ExtractBits(ReadBlob(blob, pack \div 2 + adj \div 4 + base), 8 * (adj % 4), count)

ReadByteRel(blob, base, pack, rel) == ReadRel(blob, base, pack, rel, 8)
ReadF16Rel(blob, base, pack, rel) == ReadRel(blob, base, pack, rel, 16)
ReadU32Rel(blob, base, pack, rel) ==
  ReadByteRel(blob, base, pack, rel) \o ReadByteRel(blob, base, pack, rel + 1)
  \o ReadByteRel(blob, base, pack, rel + 2) \o ReadByteRel(blob, base, pack, rel + 3)

(* An element of a block at a packed offset.                               *)
PackedElement(blob, base, slot, pack, e) ==
  LET read == [half |-> [ rel \in BlockOffsets |-> ReadF16Rel(blob, base, pack, rel) ],
               byte |-> [ rel \in BlockOffsets |-> ReadByteRel(blob, base, pack, rel) ],
               quad |-> [ rel \in BlockOffsets |-> ReadU32Rel(blob, base, pack, rel) ]]
  IN DequantByFormula(slot, e, read)

(* Column `col` of row `row` of a matrix of `cols` columns: the loop body  *)
(* that the projections of sh_layer_v1 share.                              *)
MatrixElement(blob, base, slot, pack, cols, row, col) ==
  CASE slot = 1 -> Plain(ReadF16Rel(blob, base, AddPack(pack, (row * cols + col) * 2), 0))
    [] slot = 0 -> Plain(ExtractBits(ReadBlob(blob, pack \div 2 + base + row * cols + col), 0, 32))
    [] OTHER ->
         LET elems == QuantElems[slot + 1]
             bytes == QuantBytes[slot + 1]
             start == AddPack(pack, row * (cols \div elems) * bytes)
         IN PackedElement(blob, base, slot, AddPack(start, (col \div elems) * bytes), col % elems)

(* The copy of the decoders in sh_dequant_any.                             *)
DequantAnyBlock(blob, base, slot, pack, e) == PackedElement(blob, base, slot, pack, e)

(* sh_dequant_any: elements from the packed offset on, Q4_0 by default.    *)
DequantAnyElement(blob, base, slot, pack, i) ==
  CASE slot = 1 -> Plain(ReadF16Rel(blob, base, AddPack(pack, i * 2), 0))
    [] slot = 0 -> Plain(ExtractBits(ReadBlob(blob, pack \div 2 + base + i), 0, 32))
    [] OTHER ->
         LET kind == IF slot \in 3..7 THEN slot ELSE 2
             elems == QuantElems[kind + 1]
         IN DequantAnyBlock(blob, base, kind,
                            AddPack(pack, (i \div elems) * QuantBytes[kind + 1]), i % elems)

(* sh_head_blob reads relative to the tensor; the base is added modulo     *)
(* 2^32, and 32 bits are extracted from a single word.                     *)
HeadBits(blob, weightOff, rel, count) ==
  ExtractBits(ReadBlob(blob, (weightOff + rel \div 4) % AddressSpan), 8 * (rel % 4), count)

HeadBlock(blob, weightOff, slot, block, e) ==
  LET Bits(count) == [ rel \in BlockOffsets |-> HeadBits(blob, weightOff, block + rel, count) ]
  IN DequantByFormula(slot, e, [half |-> Bits(16), byte |-> Bits(8), quad |-> Bits(32)])

HeadElement(blob, weightOff, slot, cols, row, col) ==
  CASE slot = 1 -> Plain(HeadBits(blob, weightOff, (row * cols + col) * 2, 16))
    [] slot = 0 -> Plain(HeadBits(blob, weightOff, (row * cols + col) * 4, 32))
    [] OTHER ->
         LET elems == QuantElems[slot + 1]
             block == (row * (cols \div elems) + col \div elems) * QuantBytes[slot + 1]
         IN HeadBlock(blob, weightOff, slot, block, col % elems)
=============================================================================
