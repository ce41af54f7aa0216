---------------------------- MODULE CryptoProofs ----------------------------
(***************************************************************************)
(* Theorems about Crypto: padding can be undone, for data of any length.   *)
(***************************************************************************)
EXTENDS Crypto, TLAPS

LEMMA PadShape ==
  ASSUME NEW data \in Seq(Byte)
  PROVE  /\ PadLength(data) \in 1..Block
         /\ Pad(data) \in Seq(Byte)
         /\ Len(Pad(data)) = Len(data) + PadLength(data)
         /\ \A i \in 1..Len(data) : Pad(data)[i] = data[i]
         /\ \A i \in (Len(data) + 1)..Len(Pad(data)) :
              Pad(data)[i] = PadLength(data)
<1> DEFINE n == PadLength(data)
<1>1. Len(data) \in Nat
  OBVIOUS
<1>2. n \in 1..Block
  BY <1>1 DEF PadLength, Block
<1>3. Run(n) \in Seq(Byte) /\ Len(Run(n)) = n /\ \A i \in 1..n : Run(n)[i] = n
  <2>1. Run(n) \in [1..n -> Byte]
    BY <1>2 DEF Run, Byte, Block
  <2>2. n \in Nat
    BY <1>2 DEF Block
  <2> QED
    BY <2>1, <2>2 DEF Run
<1>4. Pad(data) = data \o Run(n)
  BY DEF Pad
<1> HIDE DEF n
<1>5. Len(Pad(data)) = Len(data) + n /\ Pad(data) \in Seq(Byte)
  BY <1>3, <1>4
<1>6. \A i \in 1..Len(data) : Pad(data)[i] = data[i]
  BY <1>3, <1>4, <1>1
<1>7. \A i \in (Len(data) + 1)..Len(Pad(data)) : Pad(data)[i] = n
  <2> SUFFICES ASSUME NEW i \in (Len(data) + 1)..Len(Pad(data))
               PROVE  Pad(data)[i] = n
    OBVIOUS
  <2>1. i - Len(data) \in 1..n
    BY <1>1, <1>2, <1>5 DEF Block
  <2>2. Pad(data)[i] = Run(n)[i - Len(data)]
    BY <1>1, <1>2, <1>3, <1>4, <1>5, <2>1 DEF Block
  <2> QED
    BY <2>1, <2>2, <1>3
<1> QED
  BY <1>2, <1>5, <1>6, <1>7 DEF n

(***************************************************************************)
(* crypto.py pads to whole blocks, so the cipher takes every text.         *)
(***************************************************************************)
THEOREM PadFillsBlocks ==
  ASSUME NEW data \in Seq(Byte)
  PROVE  Len(Pad(data)) % Block = 0 /\ Len(Pad(data)) > Len(data)
<1>1. Len(data) \in Nat
  OBVIOUS
<1>2. Len(Pad(data)) = Len(data) + (16 - (Len(data) % 16))
  BY PadShape DEF PadLength, Block
<1>3. \A k \in Nat : (k + (16 - (k % 16))) % 16 = 0 /\ 16 - (k % 16) > 0
  OBVIOUS
<1> QED
  BY <1>1, <1>2, <1>3 DEF Block

(***************************************************************************)
(* _pkcs5_unpad undoes _pkcs5_pad: it accepts every padded text and gives  *)
(* it back, the empty text and one that fills its last block included.     *)
(***************************************************************************)
THEOREM UnpadUndoesPad ==
  ASSUME NEW data \in Seq(Byte)
  PROVE  Padded(Pad(data)) /\ Unpad(Pad(data)) = data
<1> DEFINE p == Pad(data)
           n == PadLength(data)
<1>1. /\ n \in 1..Block
      /\ p \in Seq(Byte)
      /\ Len(p) = Len(data) + n
      /\ \A i \in 1..Len(data) : p[i] = data[i]
      /\ \A i \in (Len(data) + 1)..Len(p) : p[i] = n
  BY PadShape
<1> HIDE DEF p, n
<1>2. Len(data) \in Nat /\ n \in Nat \ {0} /\ n <= 16
  BY <1>1 DEF Block
<1>3. p[Len(p)] = n
  BY <1>1, <1>2
<1>4. Padded(p)
  <2>1. p # <<>>
    BY <1>1, <1>2
  <2>2. n <= Len(p) /\ Len(p) - n + 1 = Len(data) + 1
    BY <1>1, <1>2
  <2> QED
    BY <1>1, <1>3, <2>1, <2>2 DEF Padded
<1>5. Unpad(p) = SubSeq(p, 1, Len(data))
  BY <1>1, <1>2, <1>3 DEF Unpad
<1>6. SubSeq(p, 1, Len(data)) = data
  BY <1>1, <1>2
<1> QED
  BY <1>4, <1>5, <1>6 DEF p

(***************************************************************************)
(* Two texts are never padded to the same bytes: a message that can be     *)
(* read says one thing only.                                               *)
(***************************************************************************)
THEOREM PadIsInjective ==
  ASSUME NEW a \in Seq(Byte), NEW b \in Seq(Byte), Pad(a) = Pad(b)
  PROVE  a = b
BY UnpadUndoesPad

(***************************************************************************)
(* What _pkcs5_unpad accepts is the padding of what it returns: no other   *)
(* bytes pass its check.                                                   *)
(***************************************************************************)
THEOREM PadUndoesUnpad ==
  ASSUME NEW data \in Seq(Byte), Len(data) % Block = 0, Padded(data)
  PROVE  Unpad(data) \in Seq(Byte) /\ Pad(Unpad(data)) = data
<1> DEFINE n == data[Len(data)]
           u == Unpad(data)
<1>1. /\ n \in 1..16 /\ n <= Len(data) /\ Len(data) \in Nat
      /\ \A i \in (Len(data) - n + 1)..Len(data) : data[i] = n
  BY DEF Padded, Block
<1>2. u = SubSeq(data, 1, Len(data) - n)
  BY DEF Unpad
<1> HIDE DEF n, u
<1>3. u \in Seq(Byte) /\ Len(u) = Len(data) - n
  BY <1>1, <1>2
<1>4. \A i \in 1..Len(u) : u[i] = data[i]
  BY <1>1, <1>2, <1>3
<1>5. PadLength(u) = n
  <2>1. Len(data) % 16 = 0
    BY DEF Block
  <2>2. \A k \in Nat, m \in 1..16 :
          k % 16 = 0 => (k - m) % 16 = 16 - m
    OBVIOUS
  <2>3. (Len(data) - n) % 16 = 16 - n
    BY <1>1, <2>1, <2>2
  <2>4. Len(u) % 16 = 16 - n
    BY <1>3, <2>3
  <2> QED
    BY <1>1, <2>4 DEF PadLength, Block
<1>6. /\ Pad(u) \in Seq(Byte)
      /\ Len(Pad(u)) = Len(data)
      /\ \A i \in 1..Len(u) : Pad(u)[i] = u[i]
      /\ \A i \in (Len(u) + 1)..Len(Pad(u)) : Pad(u)[i] = n
  BY <1>1, <1>3, <1>5, PadShape
<1>7. \A i \in 1..Len(data) : Pad(u)[i] = data[i]
  <2> SUFFICES ASSUME NEW i \in 1..Len(data) PROVE Pad(u)[i] = data[i]
    OBVIOUS
  <2>1. CASE i <= Len(u)
    BY <1>1, <1>3, <1>4, <1>6, <2>1
  <2>2. CASE i > Len(u)
    BY <1>1, <1>3, <1>6, <2>2
  <2> QED
    BY <1>1, <1>3, <2>1, <2>2
<1>8. Pad(u) = data
  BY <1>6, <1>7
<1> QED
  BY <1>3, <1>8 DEF u
=============================================================================
