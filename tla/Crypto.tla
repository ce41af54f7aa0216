------------------------------- MODULE Crypto -------------------------------
(***************************************************************************)
(* app/crypto.py: the padding of the platform's messages and what the      *)
(* service can read of a message and of a stored field.  The ciphers are   *)
(* external: what one key sealed the same key opens, and nothing else.     *)
(***************************************************************************)
EXTENDS Integers, Sequences

Block == 16   \* of AES
Byte == 0..255

\* bytes([n]) * n
Run(n) == [i \in 1..n |-> n]

PadLength(data) == Block - (Len(data) % Block)

\* _pkcs5_pad: a whole block if the data fills its last one.
Pad(data) == data \o Run(PadLength(data))

\* Off by one: padding that is a whole block is refused.
PaddedShort(data) ==
  /\ data # <<>>
  /\ LET n == data[Len(data)] IN
       /\ n \in 1..(Block - 1)
       /\ n <= Len(data)
       /\ \A i \in (Len(data) - n + 1)..Len(data) : data[i] = n

\* _pkcs5_unpad returns.  The slice data[-n:] is shorter than n, and so
\* differs from n bytes, if the data is.
Padded(data) ==
  /\ data # <<>>
  /\ LET n == data[Len(data)] IN
       /\ n \in 1..Block
       /\ n <= Len(data)
       /\ \A i \in (Len(data) - n + 1)..Len(data) : data[i] = n

Unpad(data) == SubSeq(data, 1, Len(data) - data[Len(data)])

\* A secret's bytes are the AES key.
KeyLengths == {16, 24, 32}
=============================================================================
