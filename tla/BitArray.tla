------------------------------ MODULE BitArray ------------------------------
(***************************************************************************)
(* 4_sem/Bit_array: a growing array of bits, kept in words of W bits.  The *)
(* library is sequential; the caller makes one call after another.         *)
(*                                                                         *)
(* A word is the set of the positions of its ones.  Indices, numbers of    *)
(* words and of bytes are unsigned and wrap around; they have IndexBits    *)
(* bits, which are as many as W, 64, in the code.                          *)
(* What is known of the heap is how many words realloc() has given and     *)
(* which of them calloc() or memset() has written.  A call that leaves     *)
(* the block, or frees it again, makes the array "undefined", and nothing  *)
(* follows.  bit_array_length() is left out: it returns num_of_bits.       *)
(***************************************************************************)
EXTENDS Integers, FiniteSets, FiniteSetsExt

CONSTANTS W,        \* WORD_SIZE
          IndexBits, \* the bits of a bit_index_t
          IntBits,  \* the bits of an int, of which 1 << n has its type
          Byte,     \* the bits of a byte
          Indices,  \* the indices the caller uses
          Regions,  \* the <<start, length>> the caller uses
          Faulty    \* whether calloc() and realloc() may fail

Size == 2 ^ IndexBits  \* how many values a bit_index_t has
Index == 0..Size - 1
Bit == 0..W - 1
MIN_CAPACITY == 2

(* (bits + WORD_SIZE - 1) / WORD_SIZE, where the addition wraps around. *)
ROUNDUP_BITS_TO_WORDS(bits) == ((bits + W - 1) % Size) \div W

Word == 0..Size \div W

NUMB_OF_WORD64(pos) == pos \div W
INDX_IN_WORD64(pos) == pos % W

(* Mutant: the ones come from below. *)
LowMask(length) == {b \in Bit : b < length}

bit_mask_64(length) == {b \in Bit : b >= W - length}

-----------------------------------------------------------------------------
(* roundup_word64_to_pow2(), on the bits of the number. *)

Place == 0..IndexBits - 1

OnesOf(x) == {b \in Place : (x \div 2 ^ b) % 2 = 1}
ValueOf(S) == MapThenSumSet(LAMBDA b : 2 ^ b, S)

(* The or-ed shifts of x by 1, 2, 4, ... copy every one to all places below. *)
Smear(S) == {b \in Place : \E c \in S : b <= c}

roundup_word64_to_pow2(x) ==
  LET up == (ValueOf(Smear(OnesOf((x + Size - 1) % Size))) + 1) % Size
  IN  IF up = 0 THEN 1 ELSE up

ASSUME BitArrayAssumption ==
  /\ W \in Nat /\ IndexBits \in Nat /\ W <= IndexBits
  /\ IntBits \in Nat \ {0} /\ IntBits < W /\ W % IntBits = 0
  /\ Byte \in Nat \ {0} /\ W % Byte = 0
  /\ Indices \subseteq Index
  /\ Regions \subseteq Index \X (Index \ {0})
  /\ Faulty \in BOOLEAN

(* What defines the powers of two. *)
ASSUME PowerAssumption ==
  \A b \in 0..IndexBits : 2 ^ b = IF b = 0 THEN 1 ELSE 2 * 2 ^ (b - 1)

-----------------------------------------------------------------------------
VARIABLES
  array,         \* "null", "valid" or "undefined"
  num_of_bits,
  num_of_words,
  capacity,
  buff_bits,     \* the words, a set of positions each
  alloc,         \* how many words the block has
  written,       \* the words that have a value
  failed         \* whether a realloc() has failed

vars == <<array, num_of_bits, num_of_words, capacity, buff_bits, alloc, written, failed>>

heap == <<buff_bits, alloc, written>>

Init ==
  /\ array = "null"
  /\ num_of_bits = 0
  /\ num_of_words = 0
  /\ capacity = 0
  /\ buff_bits = [w \in Word |-> {}]
  /\ alloc = 0
  /\ written = {}
  /\ failed = FALSE

(* An access to the words up to last goes beyond the block. *)
Leaves(last) == last >= alloc

(* realloc() has freed the block, and buff_bits still points to it. *)
Freed == alloc = 0

Undefined ==
  /\ array' = "undefined"
  /\ UNCHANGED <<num_of_bits, num_of_words, capacity, heap, failed>>

-----------------------------------------------------------------------------
bit_array_construct(n) ==
  LET words == ROUNDUP_BITS_TO_WORDS(n)
      pow2  == roundup_word64_to_pow2(words)
  IN  /\ array = "null"
      /\ array' = "valid"
      /\ num_of_bits' = n
      /\ num_of_words' = words
      /\ capacity' = IF pow2 > MIN_CAPACITY THEN pow2 ELSE MIN_CAPACITY
      /\ buff_bits' = [w \in Word |-> {}]
      /\ alloc' = capacity'
      /\ written' = 0..capacity' - 1
      /\ UNCHANGED failed

(* A failed malloc() or calloc(): the caller gets NULL, as it had before. *)

(* What buff_bits points to is freed, a second time if realloc() has done so. *)
bit_array_destruct ==
  /\ array = "valid"
  /\ IF Freed
       THEN Undefined
       ELSE /\ array' = "null"
            /\ num_of_bits' = 0
            /\ num_of_words' = 0
            /\ capacity' = 0
            /\ buff_bits' = [w \in Word |-> {}]
            /\ alloc' = 0
            /\ written' = {}
            /\ failed' = FALSE

-----------------------------------------------------------------------------
(* bit_array_resize() *)

(* The bytes that realloc() is asked for, a product that wraps around, and  *)
(* the words that they make: Byte times as many as the capacity says.       *)
Bytes(words) == (words * W) % Size
WordsOf(bytes) == bytes \div (W \div Byte)

(* Mutant: the cleared part begins at the new capacity. *)
ReallocatedBehind(new) ==
  LET cleared == new..new + WordsOf((Bytes(new) - Bytes(capacity)) % Size) - 1
  IN  /\ alloc' = WordsOf(Bytes(new))
      /\ buff_bits' = [w \in Word |-> IF w \in cleared THEN {} ELSE buff_bits[w]]
      /\ written' = written \cup cleared
      /\ UNCHANGED failed

(* memset() clears the difference of the two sizes in bytes, from the word  *)
(* where the old capacity ended.                                            *)
Reallocated(new) ==
  LET cleared == capacity..capacity + WordsOf((Bytes(new) - Bytes(capacity)) % Size) - 1
  IN  /\ alloc' = WordsOf(Bytes(new))
      /\ buff_bits' = [w \in Word |-> IF w \in cleared THEN {} ELSE buff_bits[w]]
      /\ written' = written \cup cleared
      /\ UNCHANGED failed

(* For 0 bytes realloc() frees the block and returns NULL, which the code   *)
(* takes for a failure: it goes on with the old pointer.                    *)
FreedByRealloc ==
  /\ alloc' = 0
  /\ written' = {}
  /\ UNCHANGED <<buff_bits, failed>>

(* The sizes have been changed by the time realloc() fails. *)
NotReallocated ==
  /\ Faulty
  /\ failed' = TRUE
  /\ UNCHANGED heap

Grown(new) ==
  IF Bytes(new) = 0 THEN FreedByRealloc ELSE Reallocated(new) \/ NotReallocated

(* A growing array shrinks when the number of words wraps around to 0. *)
Shrunk(words) ==
  /\ buff_bits' = [w \in Word |-> IF words <= w /\ w < num_of_words THEN {} ELSE buff_bits[w]]
  /\ written' = written \cup words..num_of_words - 1
  /\ UNCHANGED <<alloc, failed>>

bit_array_resize(n) ==
  LET words == ROUNDUP_BITS_TO_WORDS(n)
  IN  IF words < num_of_words /\ Leaves(num_of_words - 1)
        THEN Undefined
        ELSE /\ num_of_bits' = n
             /\ num_of_words' = words
             /\ IF words > capacity
                  THEN /\ capacity' = roundup_word64_to_pow2(words)
                       /\ Grown(capacity')
                  ELSE /\ UNCHANGED capacity
                       /\ Shrunk(words)
             /\ UNCHANGED array

-----------------------------------------------------------------------------
(* Access to the words. *)

(* Each word w from first to last gets its new value. *)
Store(first, last, Value(_)) ==
  IF Leaves(last)
    THEN Undefined
    ELSE /\ buff_bits' = [w \in Word |-> IF first <= w /\ w <= last THEN Value(w) ELSE buff_bits[w]]
         /\ UNCHANGED <<array, num_of_bits, num_of_words, capacity, alloc, written, failed>>

Xor(S, T) == (S \ T) \cup (T \ S)

(* 1 << (index % WORD_SIZE), an int: the shift takes its amount modulo the  *)
(* int's width, and a negative result is extended with ones to a word.      *)
IntBit(index) ==
  IF index % IntBits = IntBits - 1 THEN IntBits - 1..W - 1 ELSE {index % IntBits}

(* What the four one-bit calls do with an index: beyond the end they grow   *)
(* the array and leave it at that.                                          *)
OneBit(index, Value(_)) ==
  /\ array = "valid"
  /\ IF index >= num_of_bits
       THEN bit_array_resize(index)
       ELSE Store(index \div W, index \div W, Value)

(* Mutant: as toggle. *)
clear_by_toggle(index) == OneBit(index, LAMBDA w : Xor(buff_bits[w], IntBit(index)))

bit_array_set_bit(index)    == OneBit(index, LAMBDA w : buff_bits[w] \cup IntBit(index))
bit_array_clear_bit(index)  == OneBit(index, LAMBDA w : buff_bits[w] \ IntBit(index))
bit_array_toggle_bit(index) == OneBit(index, LAMBDA w : Xor(buff_bits[w], IntBit(index)))
bit_array_get_bit(index)    == OneBit(index, LAMBDA w : buff_bits[w])

(* What bit_array_get_bit() returns for an index of the array. *)
IsSet(index) == buff_bits[index \div W] \cap IntBit(index) # {}

-----------------------------------------------------------------------------
(* The region calls.  The three of them differ in what they do with the     *)
(* positions they act on.                                                   *)

(* Mutant: the word after a region that ends with a word. *)
last_word_after(start, length) == NUMB_OF_WORD64(start + length)

last_word(start, length) == NUMB_OF_WORD64(start + length - 1)

(* The positions of word w that a region has. *)
RegionMask(start, length, w) ==
  LET first        == NUMB_OF_WORD64(start)
      first_offset == INDX_IN_WORD64(start)
      last         == last_word(start, length)
      last_offset  == INDX_IN_WORD64(start + length - 1)
  IN  CASE first = last -> {b \in Bit : b - first_offset \in bit_mask_64(length)}
        [] first < last /\ w = first -> Bit \ bit_mask_64(first_offset)
        [] first < last /\ w = last -> bit_mask_64(last_offset + 1)
        [] OTHER -> Bit

(* The caller keeps a region inside the array: the calls do not look. *)
Region(start, length, Value(_, _)) ==
  /\ array = "valid"
  /\ start + length <= num_of_bits
  /\ Store(NUMB_OF_WORD64(start), last_word(start, length),
           LAMBDA w : Value(buff_bits[w], RegionMask(start, length, w)))

bit_array_set_region(start, length) == Region(start, length, LAMBDA word, mask : word \cup mask)
bit_array_clear_region(start, length) == Region(start, length, LAMBDA word, mask : word \ mask)
bit_array_toggle_region(start, length) == Region(start, length, Xor)

-----------------------------------------------------------------------------
(* The find calls. *)

None == -1

(* The first one of a sequence of words from start on.  ones(w) are the     *)
(* ones of word w; in the first word the top INDX_IN_WORD64(start) of them  *)
(* are masked out.  In each word only the lowest one is looked at.          *)
FindOne(start, ones(_)) ==
  LET first == NUMB_OF_WORD64(start)
      cur(w) == IF w = first THEN ones(w) \ bit_mask_64(INDX_IN_WORD64(start)) ELSE ones(w)
      pos(w) == w * W + Min(cur(w))
      hits   == {w \in {first} \cup first + 1..num_of_words - 1 :
                   cur(w) # {} /\ pos(w) < num_of_bits}
  IN  IF start > num_of_bits \/ hits = {} THEN None ELSE pos(Min(hits))

(* Mutant: positions beyond the end count. *)
FindBeyond(start, ones(_)) ==
  LET first == NUMB_OF_WORD64(start)
      cur(w) == IF w = first THEN ones(w) \ bit_mask_64(INDX_IN_WORD64(start)) ELSE ones(w)
      hits   == {w \in {first} \cup first + 1..num_of_words - 1 : cur(w) # {}}
  IN  IF start > num_of_bits \/ hits = {} THEN None ELSE Min(hits) * W + Min(cur(Min(hits)))

find_set_bit_beyond(start) == FindBeyond(start, LAMBDA w : buff_bits[w])

bit_array_find_set_bit(start)   == FindOne(start, LAMBDA w : buff_bits[w])
bit_array_find_clear_bit(start) == FindOne(start, LAMBDA w : Bit \ buff_bits[w])

(* Both read the word of start before they look at anything else. *)
Find(start) ==
  /\ array = "valid"
  /\ start <= num_of_bits
  /\ IF Leaves(NUMB_OF_WORD64(start)) THEN Undefined ELSE UNCHANGED vars

(* dump reads every word of the capacity, foreach every bit with get_bit(). *)
Read(last) ==
  /\ array = "valid"
  /\ IF Leaves(last) THEN Undefined ELSE UNCHANGED vars

bit_array_dump == Read(capacity - 1)
bit_array_foreach == num_of_bits > 0 /\ Read((num_of_bits - 1) \div W)

-----------------------------------------------------------------------------
Next ==
  \/ \E n \in Indices : bit_array_construct(n)
  \/ bit_array_destruct
  \/ \E index \in Indices : \/ bit_array_set_bit(index)
                            \/ bit_array_clear_bit(index)
                            \/ bit_array_toggle_bit(index)
                            \/ bit_array_get_bit(index)
                            \/ Find(index)
  \/ \E r \in Regions : \/ bit_array_set_region(r[1], r[2])
                        \/ bit_array_clear_region(r[1], r[2])
                        \/ bit_array_toggle_region(r[1], r[2])
  \/ bit_array_dump
  \/ bit_array_foreach

Spec == Init /\ [][Next]_vars

-----------------------------------------------------------------------------
(* Properties. *)

(* The values the variables have. *)
TypeOK ==
  /\ array \in {"null", "valid", "undefined"}
  /\ num_of_bits \in Index
  /\ num_of_words \in Nat
  /\ capacity \in Nat
  /\ buff_bits \in [Word -> SUBSET Bit]
  /\ alloc \in Nat
  /\ written \subseteq Nat
  /\ failed \in BOOLEAN

(* The number of words, or the bytes of the capacity, have not wrapped      *)
(* around.                                                                  *)
Fits == num_of_bits + W - 1 < Size
BytesFit == capacity * W < Size

(* As long as no realloc() has failed and no size has wrapped around, the   *)
(* words counted are within the capacity, the capacity is within the block, *)
(* every word of it has a value, and nothing behind the block was written:  *)
(* growing in words, bytes and powers of two agrees.                        *)
MemoryCovers ==
  array = "valid" /\ ~failed /\ BytesFit =>
    /\ num_of_words <= capacity
    /\ capacity <= alloc
    /\ 0..capacity - 1 \subseteq written
    /\ written \subseteq 0..alloc - 1
    /\ Fits => num_of_bits <= num_of_words * W

(* A call leaves the block, or frees it twice, only after a failed          *)
(* realloc(), after the number of words or the size in bytes has wrapped    *)
(* around, or when find begins at the end of an array that fills its block: *)
(* find_*_bit() lets start = num_of_bits through.                           *)
UndefinedOnlyThen ==
  array = "undefined" => failed \/ ~Fits \/ ~BytesFit \/ num_of_bits = alloc * W

(* Every access is to memory that the array has and that has a value, but  *)
(* in the four cases above.                                                *)
MemorySafe == MemoryCovers /\ UndefinedOnlyThen

(* Words that the array does not use yet are clear: whatever calls came     *)
(* before, the whole words that a growing array gains are zero.  The bits   *)
(* that it gains inside its last word need not be: a region call writes     *)
(* them from the top of the word.                                           *)
GainedWordsClear ==
  array = "valid" /\ ~failed /\ BytesFit /\ Fits =>
    \A w \in Word : num_of_words <= w /\ w \in written => buff_bits[w] = {}

(* Two indices that one-bit calls cannot tell apart. *)
Alias(j, k) == j \div W = k \div W /\ j % IntBits = k % IntBits

(* The one-bit calls agree with each other, in an array of IntBits bits a   *)
(* word: what one of them sets or clears get_bit() finds so, the index      *)
(* W / 2 further in the word names the same bit, and no other changes.      *)
OneBitCallsAgree ==
  [][\A k \in Indices :
       array' = "valid" /\ k < num_of_bits =>
         /\ bit_array_set_bit(k) => IsSet(k)'
         /\ bit_array_clear_bit(k) => ~IsSet(k)'
         /\ bit_array_toggle_bit(k) => (IsSet(k)' \/ IsSet(k))
         /\ bit_array_toggle_bit(k) /\ k % IntBits # IntBits - 1 => (IsSet(k)' # IsSet(k))
         /\ bit_array_set_bit(k) \/ bit_array_clear_bit(k) \/ bit_array_toggle_bit(k) =>
              \A j \in Index : j < num_of_bits /\ ~Alias(j, k) => (IsSet(j)' = IsSet(j))]_vars

(* The ones of the array when the bits of a word are numbered from the top. *)
FromTop == {k \in Index : NUMB_OF_WORD64(k) < alloc /\ W - 1 - INDX_IN_WORD64(k) \in buff_bits[NUMB_OF_WORD64(k)]}

(* The region calls number the bits of a word from the top, the opposite of *)
(* the one-bit calls: so numbered, a region that spans words or begins with *)
(* one is set, cleared or toggled exactly.  One that begins and ends inside *)
(* a word is not: its mask is shifted the wrong way.                        *)
RegionsAreFromTop ==
  [][\A r \in Regions :
       LET region == r[1]..r[1] + r[2] - 1
       IN  /\ array' = "valid"
           /\ INDX_IN_WORD64(r[1]) = 0 \/ NUMB_OF_WORD64(r[1]) # NUMB_OF_WORD64(r[1] + r[2] - 1)
           => /\ bit_array_set_region(r[1], r[2]) => FromTop' = FromTop \cup region
              /\ bit_array_clear_region(r[1], r[2]) => FromTop' = FromTop \ region
              /\ bit_array_toggle_region(r[1], r[2]) => FromTop' = Xor(FromTop, region)]_vars

Ones == {k \in 0..num_of_bits - 1 : INDX_IN_WORD64(k) \in buff_bits[NUMB_OF_WORD64(k)]}
Zeros == (0..num_of_bits - 1) \ Ones

(* How an answer to "the first of S from start on" may be: it is in S, and  *)
(* from the start of a word on it is exact; from elsewhere it may miss what *)
(* the word of start has, or be before start, but nothing in later words.   *)
GoodAnswer(answer, start, S) ==
  LET later == {k \in S : NUMB_OF_WORD64(k) > NUMB_OF_WORD64(start)}
      from  == {k \in S : k >= start}
  IN  /\ answer # None => answer \in S /\ NUMB_OF_WORD64(answer) >= NUMB_OF_WORD64(start)
      /\ later # {} => answer # None /\ answer <= Min(later)
      /\ INDX_IN_WORD64(start) = 0 => answer = IF from = {} THEN None ELSE Min(from)

(* find_set_bit() and find_clear_bit() answer with bits of the array, the   *)
(* first ones as far as the above says, for every content and every start.  *)
FindIsGood ==
  array = "valid" /\ ~failed /\ BytesFit /\ Fits =>
    \A start \in 0..num_of_bits :
      NUMB_OF_WORD64(start) < alloc =>
        /\ GoodAnswer(bit_array_find_set_bit(start), start, Ones)
        /\ GoodAnswer(bit_array_find_clear_bit(start), start, Zeros)

=============================================================================
