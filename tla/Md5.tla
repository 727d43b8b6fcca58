-------------------------------- MODULE Md5 --------------------------------
(***************************************************************************)
(* The buffering of md5.c: how the bytes of a digest, given in pieces of   *)
(* any length, reach process_block, and what md5_finish puts behind them.  *)
(* The state A..D stands as the sequence of bytes it was computed from;    *)
(* byte i of the input is <<"input", i>>.  Block size, word size and range *)
(* of a word are parameters, 64, 4 and 2^32 in the code.                   *)
(***************************************************************************)
EXTENDS Integers, Sequences

CONSTANTS
  MD5_BLOCK_SIZE,
  WordSize,         \* sizeof(md5_uint32)
  MAX_MD5_UINT32,   \* of an md5_uint32 and of an unsigned int
  Pieces,           \* lengths of the pieces given to md5_process
  MaxFed            \* bound on the length of an input

(* No piece is so long that in_block + len wraps around (md5.c:328). *)
ASSUME Md5Assumption ==
  /\ MD5_BLOCK_SIZE \in Nat /\ WordSize \in Nat /\ MAX_MD5_UINT32 \in Nat /\ MaxFed \in Nat
  /\ 2 * WordSize < MD5_BLOCK_SIZE
  /\ MD5_BLOCK_SIZE <= MAX_MD5_UINT32 /\ (MAX_MD5_UINT32 + 1) % 8 = 0
  /\ \A len \in Pieces : len \in Nat /\ MD5_BLOCK_SIZE + len <= MAX_MD5_UINT32

VARIABLES
  md5,        \* the md5_t: md_total, md_buffer up to md_buf_len, and blocks for A..D
  fed,        \* length of the input so far
  finished    \* md5_finish has been called

md5Vars == <<md5, fed, finished>>

md5_init == [md_total |-> <<0, 0>>, md_buffer |-> <<>>, blocks |-> <<>>]

Md5Init ==
  /\ md5 = md5_init
  /\ fed = 0
  /\ finished = FALSE

(* mutant: without the carry *)
CountLowWord(total, len) == <<(total[1] + len) % (MAX_MD5_UINT32 + 1), total[2]>>

(* The count of bytes in two words. *)
CountBytes(total, len) ==
  IF total[1] > MAX_MD5_UINT32 - len
  THEN <<total[1] - (MAX_MD5_UINT32 + 1 - len), (total[2] + 1) % (MAX_MD5_UINT32 + 1)>>
  ELSE <<total[1] + len, total[2]>>

process_block(m, bytes) ==
  [m EXCEPT !.md_total = CountBytes(@, Len(bytes)), !.blocks = @ \o bytes]

(* The complete blocks of a sequence of bytes, and what is left of it. *)
Whole(bytes) == SubSeq(bytes, 1, Len(bytes) - (Len(bytes) % MD5_BLOCK_SIZE))

Left(bytes) == SubSeq(bytes, Len(Whole(bytes)) + 1, Len(bytes))

(* How much of a piece goes into the buffer: all of it, or what fills it. *)
Add(m, len) ==
  LET in_block == Len(m.md_buffer)
  IN IF in_block = 0 THEN 0
     ELSE IF (in_block + len) % (MAX_MD5_UINT32 + 1) > 2 * MD5_BLOCK_SIZE
     THEN 2 * MD5_BLOCK_SIZE - in_block ELSE len

FillBuffer(m, bytes) ==
  LET buffer == m.md_buffer \o SubSeq(bytes, 1, Add(m, Len(bytes)))
  IN IF Len(buffer) > MD5_BLOCK_SIZE
     THEN [process_block(m, Whole(buffer)) EXCEPT !.md_buffer = Left(buffer)]
     ELSE [m EXCEPT !.md_buffer = buffer]

(* Complete blocks right from the piece. *)
TakeBlocks(m, bytes) ==
  IF Len(bytes) > MD5_BLOCK_SIZE THEN process_block(m, Whole(bytes)) ELSE m

KeepRest(m, bytes) ==
  LET rest == IF Len(bytes) > MD5_BLOCK_SIZE THEN Left(bytes) ELSE bytes
  IN IF rest # <<>> THEN [m EXCEPT !.md_buffer = rest] ELSE m

md5_process(m, bytes) ==
  LET rest == SubSeq(bytes, Add(m, Len(bytes)) + 1, Len(bytes))
  IN KeepRest(TakeBlocks(FillBuffer(m, bytes), rest), rest)

----------------------------------------------------------------------------
Padding(pad) == [i \in 1..pad |-> <<"padding", IF i = 1 THEN 128 ELSE 0>>]

SizeWord(value) == [i \in 1..WordSize |-> <<"size", value>>]

(* The count in bits: the low word shifted by 3, the high word with the    *)
(* three bits that the low one loses.                                      *)
LowBits(total) == (total[1] % ((MAX_MD5_UINT32 + 1) \div 8)) * 8

HighBits(total) ==
  ((total[2] * 8) % (MAX_MD5_UINT32 + 1)) + (total[1] \div ((MAX_MD5_UINT32 + 1) \div 8))

Pad(bytes) ==
  LET pad == MD5_BLOCK_SIZE - 2 * WordSize - bytes
  IN IF pad <= 0 THEN pad + MD5_BLOCK_SIZE ELSE pad

md5_finish(m) ==
  LET bytes == Len(m.md_buffer)
      total == CountBytes(m.md_total, bytes)
  IN process_block([m EXCEPT !.md_total = total],
                   m.md_buffer \o Padding(Pad(bytes))
                     \o SizeWord(LowBits(total)) \o SizeWord(HighBits(total)))

Input(from, len) == [i \in 1..len |-> <<"input", from + i>>]

----------------------------------------------------------------------------
Md5Process(len) ==
  /\ ~finished
  /\ fed + len <= MaxFed
  /\ md5' = md5_process(md5, Input(fed, len))
  /\ fed' = fed + len
  /\ UNCHANGED finished

Md5Finish ==
  /\ ~finished
  /\ md5' = md5_finish(md5)
  /\ finished' = TRUE
  /\ UNCHANGED fed

(* md5_buffer has a context of its own. *)
Md5Buffer(len) ==
  /\ finished
  /\ md5' = md5_finish(md5_process(md5_init, Input(0, len)))
  /\ fed' = len
  /\ UNCHANGED finished

Md5Again ==
  /\ finished
  /\ md5' = md5_init
  /\ fed' = 0
  /\ finished' = FALSE

Md5Next ==
  \/ \E len \in Pieces : Md5Process(len) \/ Md5Buffer(len)
  \/ Md5Finish
  \/ Md5Again

Md5Spec == Md5Init /\ [][Md5Next]_md5Vars

----------------------------------------------------------------------------
(* The input as RFC 1321 has it padded: one byte 128, as few zeros as make *)
(* the whole a number of blocks, the length in bits in two words.          *)
PaddedInput(n) ==
  LET room == n + 1 + 2 * WordSize
      zeros == (MD5_BLOCK_SIZE - (room % MD5_BLOCK_SIZE)) % MD5_BLOCK_SIZE
      words == MAX_MD5_UINT32 + 1
  IN Input(0, n) \o Padding(1 + zeros)
       \o SizeWord((8 * n) % words) \o SizeWord(((8 * n) \div words) % words)

(* However an input is cut into pieces (md5.c:315-364), no byte is lost,   *)
(* doubled or reordered between the caller's piece, the buffer and         *)
(* process_block, which gets complete blocks only; the buffer never holds  *)
(* more than a block between two calls, which leaves md5_finish room for   *)
(* its padding; and the digest is that of the padded input.                *)
DigestsInput ==
  /\ Len(md5.blocks) % MD5_BLOCK_SIZE = 0
  /\ finished => md5.blocks = PaddedInput(fed)
  /\ ~finished => /\ md5.blocks \o md5.md_buffer = Input(0, fed)
                  /\ Len(md5.md_buffer) <= MD5_BLOCK_SIZE
=============================================================================
