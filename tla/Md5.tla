--------------------------------- MODULE Md5 ---------------------------------
(***************************************************************************)
(* The streaming side of the NetX Crypto MD5 (nx_crypto_md5.c): the 64-bit *)
(* bit count kept as two ULONG words with a hand-written carry, the        *)
(* partial-block buffer, the padding and length block of the final digest, *)
(* and the method entry point that dispatches on the operation.            *)
(*                                                                         *)
(* Data is abstracted to what the bookkeeping can get wrong: the           *)
(* compression of a 64-byte block (_nx_crypto_md5_process_buffer) is       *)
(* recorded as the block itself appended to the list of blocks compressed, *)
(* so that the digest is determined by that list, and DigestIsRfcMd5     *)
(* compares that list with RFC 1321's padded message.  Message bytes      *)
(* are a function of their position in the stream, so a byte copied to    *)
(* the wrong place is visible.                                             *)
(*                                                                         *)
(* Widths are scaled so that TLC reaches the word boundaries: a ULONG has  *)
(* W bits (32 in the code) and a block has B bytes (64 in the code); the   *)
(* code's constants are written in terms of them: 0x3F = B-1, 56 = B-8,    *)
(* 120 = 2B-8, and the shift 29 = W-3.  The length field stays 8 bytes.    *)
(***************************************************************************)
EXTENDS Naturals, Sequences, SequencesExt

CONSTANTS W,         \* bits in a ULONG / UINT
          B,         \* bytes in a block
          Lens,      \* input lengths a caller passes to an update
          MaxFed,    \* bound on the bytes fed since the last initialize
          NoDigest   \* no digest calculated yet

ASSUME B >= 16 /\ 2^(W - 3) >= B /\ \A n \in Lens : n < 2^W

Word == 0..(2^W - 1)
Byte == 0..255

\* A byte of a caller's message, by its position in the stream.
MsgByte(k) == 1 + (k % 7)

VARIABLES
  count0,     \* nx_md5_bit_count[0]: low word of the bit count
  count1,     \* nx_md5_bit_count[1]: high word
  buffer,     \* nx_md5_buffer, as a sequence of B bytes
  processed,  \* the blocks given to _nx_crypto_md5_process_buffer
  fed,        \* every byte passed to _nx_crypto_md5_update since init
  digest,     \* the digest of the last HASH_CALCULATE, or NoDigest
  digest_of   \* the bytes fed before that HASH_CALCULATE

md5vars == <<count0, count1, buffer, processed, fed, digest, digest_of>>

Md5TypeOK ==
  /\ count0 \in Word /\ count1 \in Word
  /\ buffer \in [1..B -> Byte]
  /\ processed \in Seq([1..B -> Byte])
  /\ fed \in Seq(Byte) /\ digest_of \in Seq(Byte)
  /\ digest \in Seq([1..B -> Byte]) \cup {NoDigest}

\* The context's memory is the caller's: its buffer is whatever was there.
Md5Init ==
  /\ count0 = 0 /\ count1 = 0
  /\ buffer = [i \in 1..B |-> 0]
  /\ processed = <<>> /\ fed = <<>> /\ digest_of = <<>>
  /\ digest = NoDigest

-----------------------------------------------------------------------------
(* _nx_crypto_md5_process_buffer and _nx_crypto_md5_update                *)

\* Compressing a block (the 64 steps of FF/GG/HH/II and the addition into
\* nx_md5_states): its effect is determined by the block and the blocks
\* before it, so the list of blocks compressed stands for the states.
ProcessBuffer(blocks, block) == Append(blocks, block)

\* input_length << 3 in a W-bit UINT.
Shl3(n) == (n * 8) % 2^W

\* Mutant: the low word is not truncated to its width.
AddBitsNoWrap(c0, c1, n) ==
  <<c0 + Shl3(n), (c1 + n \div 2^(W - 3)) % 2^W>>

\* Mutant: the roll-over into the high word is not counted.
AddBitsNoCarry(c0, c1, n) ==
  <<(c0 + Shl3(n)) % 2^W, (c1 + n \div 2^(W - 3)) % 2^W>>

\* The bit count update: add the low bits of n*8 to the low word, count
\* a roll-over (the sum is smaller than what was added), and add the bits
\* of n*8 beyond the low word (n >> 29) to the high word.
AddBits(c0, c1, n) ==
  LET low == (c0 + Shl3(n)) % 2^W
  IN  <<low, (c1 + (IF low < Shl3(n) THEN 1 ELSE 0) + n \div 2^(W - 3)) % 2^W>>

\* The while loop over whole blocks of the remaining input.
RECURSIVE WholeBlocks(_, _)
WholeBlocks(blocks, in) ==
  IF Len(in) >= B
  THEN WholeBlocks(ProcessBuffer(blocks, SubSeq(in, 1, B)), SubSeq(in, B + 1, Len(in)))
  ELSE <<blocks, in>>

\* Bytes already in the buffer: (bit_count[0] >> 3) & 0x3F.
CurrentBytes(ctx) == (ctx.c0 \div 8) % B

\* _nx_crypto_md5_update on a context record: nothing for a zero length;
\* otherwise count the bits, complete and compress a partial buffer if the
\* input fills it, compress whole blocks straight from the input, and save
\* what is left in the buffer after the bytes already there.
Md5Update(ctx, in) ==
  LET n      == Len(in)
      cur    == CurrentBytes(ctx)
      need   == B - cur
      bits   == AddBits(ctx.c0, ctx.c1, n)
      fill   == cur # 0 /\ n >= need
      buf1   == IF fill
                THEN [i \in 1..B |-> IF i <= cur THEN ctx.buf[i] ELSE in[i - cur]]
                ELSE ctx.buf
      rest   == IF fill THEN SubSeq(in, need + 1, n) ELSE in
      start  == IF fill THEN 0 ELSE cur
      loop   == WholeBlocks(IF fill THEN ProcessBuffer(ctx.blocks, buf1) ELSE ctx.blocks,
                            rest)
      left   == loop[2]
  IN  IF n = 0 THEN ctx
      ELSE [c0 |-> bits[1], c1 |-> bits[2], blocks |-> loop[1],
            buf |-> [i \in 1..B |-> IF start < i /\ i <= start + Len(left)
                                    THEN left[i - start] ELSE buf1[i]]]

-----------------------------------------------------------------------------
(* _nx_crypto_md5_initialize and _nx_crypto_md5_digest_calculate           *)

\* Clear the bit count and load the initial states (no blocks yet).
Md5Initialize(ctx) == [ctx EXCEPT !.c0 = 0, !.c1 = 0, !.blocks = <<>>]

\* bit_count_string: both count words, least significant byte first.
ByteOf(w, k) == (w \div 2^(8 * k)) % 256
LengthBytes(ctx) == [i \in 1..8 |-> IF i <= 4 THEN ByteOf(ctx.c0, i - 1)
                                              ELSE ByteOf(ctx.c1, i - 5)]

\* Mutant: a buffer holding exactly 56 bytes is padded by nothing.
PadLenAtBoundary(ctx) ==
  IF CurrentBytes(ctx) <= B - 8 THEN B - 8 - CurrentBytes(ctx)
  ELSE 2 * B - 8 - CurrentBytes(ctx)

\* padding_bytes: up to 56 bytes into the block, or into the next one.
PadLen(ctx) ==
  IF CurrentBytes(ctx) < B - 8 THEN B - 8 - CurrentBytes(ctx)
  ELSE 2 * B - 8 - CurrentBytes(ctx)

\* The first n bytes of _nx_crypto_md5_padding: 0x80 then zeros.
Padding(n) == [i \in 1..n |-> IF i = 1 THEN 128 ELSE 0]

\* Take the length string, update with the padding, then with the length.
Md5DigestCalculate(ctx) ==
  Md5Update(Md5Update(ctx, Padding(PadLen(ctx))), LengthBytes(ctx))


-----------------------------------------------------------------------------
(* _nx_crypto_method_md5_operation                                         *)

Ctx == [c0 |-> count0, c1 |-> count1, buf |-> buffer, blocks |-> processed]

\* n bytes of the caller's message following the k bytes before them.
Input(k, n) == [i \in 1..n |-> MsgByte(k + i)]

Store(ctx) ==
  /\ count0' = ctx.c0 /\ count1' = ctx.c1
  /\ buffer' = ctx.buf /\ processed' = ctx.blocks

\* NX_CRYPTO_HASH_INITIALIZE.
HashInitialize ==
  /\ Store(Md5Initialize(Ctx))
  /\ fed' = <<>>
  /\ UNCHANGED <<digest, digest_of>>

\* NX_CRYPTO_HASH_UPDATE with n bytes of input.
HashUpdate(n) ==
  /\ Len(fed) + n <= MaxFed
  /\ Store(Md5Update(Ctx, Input(Len(fed), n)))
  /\ fed' = fed \o Input(Len(fed), n)
  /\ UNCHANGED <<digest, digest_of>>

\* NX_CRYPTO_HASH_CALCULATE: NX_CRYPTO_INVALID_BUFFER_SIZE for an output
\* shorter than 16 bytes; otherwise the digest, whose padding and length
\* are fed through the context like any input.
HashCalculate(outLen) ==
  /\ Len(fed) <= MaxFed
  /\ outLen >= 16
  /\ Store(Md5DigestCalculate(Ctx))
  /\ fed' = fed \o Padding(PadLen(Ctx)) \o LengthBytes(Ctx)
  /\ digest' = Md5DigestCalculate(Ctx).blocks
  /\ digest_of' = fed

\* Any other operation: initialize, update and calculate in one call.
HashOneShot(n, outLen) ==
  /\ outLen >= 16
  /\ LET ctx0 == Md5Update(Md5Initialize(Ctx), Input(0, n))
     IN  /\ Store(Md5DigestCalculate(ctx0))
         /\ fed' = Input(0, n) \o Padding(PadLen(ctx0)) \o LengthBytes(ctx0)
         /\ digest' = Md5DigestCalculate(ctx0).blocks
         /\ digest_of' = Input(0, n)

\* The method entry point, dispatching on op.  (Its NX_CRYPTO_PTR_ERROR
\* returns for a NULL method or a NULL, misaligned or short metadata area
\* come before anything is touched: steps that change nothing.)
Md5Operation(op, n, outLen) ==
  CASE op = "INITIALIZE" -> HashInitialize
    [] op = "UPDATE"     -> HashUpdate(n)
    [] op = "CALCULATE"  -> HashCalculate(outLen)
    [] OTHER             -> HashOneShot(n, outLen)

Md5Next ==
  \E op \in {"INITIALIZE", "UPDATE", "CALCULATE", "AUTHENTICATE"},
     n \in Lens, outLen \in {8, 16} :
       Md5Operation(op, n, outLen)

Md5Spec == Md5Init /\ [][Md5Next]_md5vars

-----------------------------------------------------------------------------
(* Properties                                                              *)

\* RFC 1321 padding of an L-byte message: 0x80, zeros up to 56 bytes into
\* a block, and the 64-bit bit length, least significant first (with
\* W-bit words: its low word, then its high word, each as 4 bytes).
RfcPadding(L) ==
  LET k == CHOOSE k \in 0..(B - 1) : (L + 1 + k) % B = B - 8
      bits == 8 * L
      word(x) == [i \in 1..4 |-> (x \div 2^(8 * (i - 1))) % 256]
  IN  <<128>> \o [i \in 1..k |-> 0] \o
        word(bits % 2^W) \o word((bits \div 2^W) % 2^W)

\* A byte string cut into blocks.
Blocks(s) == [k \in 1..(Len(s) \div B) |-> SubSeq(s, (k - 1) * B + 1, k * B)]

\* However the input is split among updates, the context stays an exact
\* record of it: the blocks compressed followed by the bytes buffered are
\* the bytes fed, and the two count words hold eight times their number,
\* across the carry from the low word into the high one.
StreamConsistent ==
  /\ FlattenSeq(processed) \o SubSeq(buffer, 1, CurrentBytes(Ctx)) = fed
  /\ count1 * 2^W + count0 = (8 * Len(fed)) % 2^(2 * W)

\* Every digest is that of RFC 1321: the blocks compressed are exactly
\* the message fed since the initialize, padded and length-terminated.
DigestIsRfcMd5 ==
  digest # NoDigest =>
    /\ (Len(digest_of) + Len(RfcPadding(Len(digest_of)))) % B = 0
    /\ digest = Blocks(digest_of \o RfcPadding(Len(digest_of)))

====
