---------------------------- MODULE Cipher ----------------------------
(***************************************************************************)
(* ed() of per_id.cpp with the XTEA of per_id.h: a text enciphered and     *)
(* deciphered in blocks of two words.                                      *)
(*                                                                         *)
(* Words are narrower than 32 bits, with shifts, constant and number of    *)
(* rounds to match; a word stands for the four bytes that half a block     *)
(* has.  A text may end within a block.  Its end goes through a block of   *)
(* its own, filled up with what the stack holds, and only the end of the   *)
(* text is kept of the outcome.                                            *)
(***************************************************************************)
EXTENDS Integers, Sequences

CONSTANTS
  Width, Left, Right, SumRight, Delta, Rounds,   \* 32, 4, 5, 11, 0x9E3779B9, 32
  Secrets,                                       \* keys: four words each
  MaxLen,                                        \* bound: words of a text
  XorOf(_, _)                                    \* ^, bit by bit

Word == 0 .. 2^Width - 1
BlockSize == 2

ASSUME CipherAssumption ==
  /\ {Width, Left, Right, SumRight, Rounds, MaxLen} \subseteq Nat /\ Width > 1
  /\ {2^Width, 2^Left, 2^Right, 2^SumRight} \subseteq Nat \ {0}
  /\ Delta \in Word
  /\ Secrets # {} /\ \A k \in Secrets : k \in [1 .. 4 -> Word]
  /\ \A a, b \in Word : XorOf(a, b) \in Word

VARIABLES
  text,      \* the buffer
  plain,     \* history: what it held at first
  secret,    \* the key
  stage      \* "empty", "plain", "cipher", "back"

cipherVars == <<text, plain, secret, stage>>

CipherTypeOK ==
  /\ text \in UNION {[1 .. n -> Word] : n \in 0 .. MaxLen} /\ Len(plain) = Len(text)
  /\ secret \in Secrets /\ stage \in {"empty", "plain", "cipher", "back"}

Wrap(n) == n % 2^Width

\* (((v << 4) ^ (v >> 5)) + v) ^ (sum + __key[i])
Mix(v, sum, k, i) ==
  XorOf(Wrap(XorOf(Wrap(v * 2^Left), v \div 2^Right) + v), Wrap(sum + k[i + 1]))

First(sum) == sum % 4
Second(sum) == (sum \div 2^SumRight) % 4

\* The locals of a loop.
Locals == [v0 : Word, v1 : Word, sum : Word]

EncipherRound(r, k) ==
  LET v0 == Wrap(r.v0 + Mix(r.v1, r.sum, k, First(r.sum)))
      sum == Wrap(r.sum + Delta)
  IN  [v0 |-> v0, v1 |-> Wrap(r.v1 + Mix(v0, sum, k, Second(sum))), sum |-> sum]

\* Variant: the sum is lowered at the end of a round.
DecipherRoundLate(r, k) ==
  LET v1 == Wrap(r.v1 - Mix(r.v0, r.sum, k, Second(r.sum)))
  IN  [v0 |-> Wrap(r.v0 - Mix(v1, r.sum, k, First(r.sum))), v1 |-> v1,
       sum |-> Wrap(r.sum - Delta)]

DecipherRound(r, k) ==
  LET v1 == Wrap(r.v1 - Mix(r.v0, r.sum, k, Second(r.sum)))
      sum == Wrap(r.sum - Delta)
  IN  [v0 |-> Wrap(r.v0 - Mix(v1, sum, k, First(sum))), v1 |-> v1, sum |-> sum]

Encipher(v, k) ==
  LET round[i \in 0 .. Rounds] ==
        IF i = 0 THEN [v0 |-> v[1], v1 |-> v[2], sum |-> 0]
        ELSE EncipherRound(round[i - 1], k)
  IN  <<round[Rounds].v0, round[Rounds].v1>>

Decipher(v, k) ==
  LET round[i \in 0 .. Rounds] ==
        IF i = 0 THEN [v0 |-> v[1], v1 |-> v[2], sum |-> Wrap(Delta * Rounds)]
        ELSE DecipherRound(round[i - 1], k)
  IN  <<round[Rounds].v0, round[Rounds].v1>>

\* The words of s that are in full blocks.
Full(s) == (Len(s) \div BlockSize) * BlockSize

\* ed(), with junk on the stack: the block of word i starts at an odd one.
Ed(s, k, encrypt, junk) ==
  LET start(i) == i - ((i - 1) % BlockSize)
      block(i) == <<s[start(i)], IF i <= Full(s) THEN s[start(i) + 1] ELSE junk>>
      out(i) == IF encrypt THEN Encipher(block(i), k) ELSE Decipher(block(i), k)
  IN  [i \in 1 .. Len(s) |-> out(i)[1 + i - start(i)]]

CipherInit ==
  /\ text = <<>> /\ plain = <<>> /\ stage = "empty"
  /\ secret = CHOOSE k \in Secrets : TRUE

Put ==
  /\ stage = "empty" /\ stage' = "plain"
  /\ \E n \in 1 .. MaxLen : text' \in [1 .. n -> Word] /\ plain' = text'
  /\ secret' \in Secrets

Encrypt ==
  /\ stage = "plain" /\ stage' = "cipher"
  /\ \E junk \in Word : text' = Ed(text, secret, TRUE, junk)
  /\ UNCHANGED <<plain, secret>>

Decrypt ==
  /\ stage = "cipher" /\ stage' = "back"
  /\ \E junk \in Word : text' = Ed(text, secret, FALSE, junk)
  /\ UNCHANGED <<plain, secret>>

CipherNext == Put \/ Encrypt \/ Decrypt

CipherSpec == CipherInit /\ [][CipherNext]_cipherVars

-----------------------------------------------------------------------------
\* Every full block comes back whatever follows it, so a capsule, which is made of
\* full blocks, comes back whole.  The end of a text that is not in a full block does
\* not in general.
FullBlocksComeBack ==
  stage = "back" => \A i \in 1 .. Full(text) : text[i] = plain[i]
=============================================================================
