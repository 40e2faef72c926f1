-------------------------------- MODULE Sha1 ---------------------------------
(***************************************************************************)
(* The SHA-1 context (misc/sha1.cpp): how a message is cut into blocks and  *)
(* padded.  The compression of a block is abstracted: the digest is the     *)
(* sequence of the blocks it was computed from, so that two digests are     *)
(* equal when the same blocks went in.  The sizes are scaled: a length word *)
(* is one byte here and four in the code, a block BlockSize bytes and 64.   *)
(***************************************************************************)
EXTENDS Integers, Sequences, SequencesExt

CONSTANTS BlockSize, MaxBytes     \* bound: the length of the message

Word == 256       \* the values of a length word, 2^32 in the code

VARIABLES
    message,      \* what was written so far
    block,        \* Message_Block[0 .. Message_Block_Index - 1]
    low, high,    \* Length_Low, Length_High: bits
    digest,       \* Intermediate_Hash: the blocks processed
    computed, corrupted

vars == <<message, block, low, high, digest, computed, corrupted>>

\* SHA1Reset, and SHA1ProcessMessageBlock on a block that is full.
Init ==
    /\ message = << >> /\ block = << >> /\ digest = << >>
    /\ low = 0 /\ high = 0
    /\ computed = FALSE /\ corrupted = FALSE

Process(b) ==
    IF Len(b) = BlockSize THEN digest' = Append(digest, b) /\ block' = << >>
                          ELSE digest' = digest /\ block' = b

\* SHA1Input, one byte of the array; a byte carries its position as its value.
\* A write after the digest was read spoils the context.
Input ==
    /\ Len(message) < MaxBytes /\ ~corrupted
    /\ IF computed
       THEN corrupted' = TRUE /\ UNCHANGED <<message, block, low, high, digest>>
       ELSE /\ message' = Append(message, Len(message) % 128)
            /\ low' = (low + 8) % Word
            /\ high' = IF low' = 0 THEN (high + 1) % Word ELSE high
            /\ corrupted' = (low' = 0 /\ high' = 0)
            /\ Process(Append(block, Len(message) % 128))
    /\ UNCHANGED computed

\* SHA1PadMessage: the block is closed by a one bit; when the length does not
\* fit behind it, it goes at the end of a block of its own.
Zeros(n) == [i \in 1..n |-> 0]
LengthAt == BlockSize - 2

Pad(b) ==
    IF Len(b) > LengthAt - 1
    THEN <<b \o <<128>> \o Zeros(BlockSize - Len(b) - 1),
           Zeros(LengthAt) \o <<high, low>>>>
    ELSE <<b \o <<128>> \o Zeros(LengthAt - Len(b) - 1) \o <<high, low>>>>

\* SHA1Result: pads once; a second call gives the same digest.
Result ==
    /\ ~corrupted /\ ~computed
    /\ digest' = digest \o Pad(block)
    /\ block' = << >> /\ low' = 0 /\ high' = 0 /\ computed' = TRUE
    /\ UNCHANGED <<message, corrupted>>

Next == Input \/ Result
Spec == Init /\ [][Next]_vars

-----------------------------------------------------------------------------
\* The message of the standard: padded to whole blocks with as few zeros as
\* possible, the last bytes are its length in bits.
Padded(m) ==
    LET bits == 8 * Len(m)
        zeros == CHOOSE k \in 0..(BlockSize - 1) : (Len(m) + 1 + k + 2) % BlockSize = 0
    IN  m \o <<128>> \o Zeros(zeros) \o <<(bits \div Word) % Word, bits % Word>>

\* The digest is that of the whole message, in order and whatever its length:
\* no byte is lost where a block ends or where the padding needs a second one
\* (SHA1Input, SHA1PadMessage).
DigestIsOfMessage ==
    computed => FlattenSeq(digest) = Padded(message)
=============================================================================
