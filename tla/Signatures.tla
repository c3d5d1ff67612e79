----------------------------- MODULE Signatures -----------------------------
(***************************************************************************)
(* What becomes of a threshold signature (r, s, v) on its way to the       *)
(* caller: the session keeps it as big integers, GetResult writes it as    *)
(* hexadecimal text, once as 65 bytes and once number by number, and       *)
(* SignTransaction parses the numbers again and joins their bytes into the *)
(* signature of an Ethereum transaction.                                   *)
(*                                                                         *)
(* A byte string is a sequence of numbers below Byte, a text one of        *)
(* numbers below Nibble.  Source: src/internal/tss/party.go, signing.go    *)
(* and src/internal/wallet/manager.go.                                     *)
(***************************************************************************)
EXTENDS Naturals, Sequences, FiniteSets

CONSTANTS
    Nibble,     \* the values of a hexadecimal digit (16)
    Width,      \* the bytes of r and of s (32)
    RecoveryIds \* the recovery ids tss-lib computes

ASSUME WidthAssumption == Width \in Nat \ {0}
ASSUME NibbleAssumption == Nibble \in Nat \ {0, 1} /\ RecoveryIds \subseteq 0..(Nibble - 1)

Byte == Nibble * Nibble

\* base^k, written as a recursive function for the proofs.
Power(base, k) ==
    LET upTo[i \in 0..k] == IF i = 0 THEN 1 ELSE base * upTo[i - 1]
    IN  upTo[k]

Scalars == 1..(Power(Byte, Width) - 1)

None == [none |-> TRUE]

VARIABLES
    request,  \* what the caller asked for: SignMessage or SignTransaction
    stage,    \* how far the call is
    made,     \* history: the signature that tss-lib has made
    sig,      \* SigningSession.result
    result,   \* types.SignResult
    parsed,   \* the numbers SignTransaction has parsed
    raw       \* the signature that the transaction carries

vars == <<request, stage, made, sig, result, parsed, raw>>

-----------------------------------------------------------------------------
(* Numbers as digits.                                                      *)

\* The w last digits of n.
Digits(n, base, w) == [i \in 1..w |-> (n \div Power(base, w - i)) % base]

\* A sequence without its leading zeros.
LeadingZeros(d) == {i \in 1..Len(d) : \A j \in 1..i : d[j] = 0}
Trim(d) == SubSeq(d, Cardinality(LeadingZeros(d)) + 1, Len(d))

\* big.Int: Bytes() and Text(16) write no leading zeros, SetBytes and SetString
\* read any number of them.
Bytes(n) == Trim(Digits(n, Byte, Width))
Text(n) == IF n = 0 THEN <<0>> ELSE Trim(Digits(n, Nibble, 2 * Width))

Value(d, base) ==
    LET upTo[i \in 0..Len(d)] == IF i = 0 THEN 0 ELSE base * upTo[i - 1] + d[i]
    IN  upTo[Len(d)]

\* hex.EncodeToString and its inverse.
Hex(b) == [i \in 1..(2 * Len(b)) |->
             IF i % 2 = 1 THEN b[(i + 1) \div 2] \div Nibble ELSE b[i \div 2] % Nibble]
Unhex(t) == [i \in 1..(Len(t) \div 2) |-> Nibble * t[2 * i - 1] + t[2 * i]]

-----------------------------------------------------------------------------
(* The session: party.go.                                                  *)

\* From the byte strings of tss-lib's result.
GetSignature(r, s, v) == [r |-> Value(r, Byte), s |-> Value(s, Byte), v |-> v]

\* copy(buf[Width-len(b):], b) into a buffer of zeros.
LeftPadded(b) ==
    [i \in 1..Width |-> IF i <= Width - Len(b) THEN 0 ELSE b[i - (Width - Len(b))]]

\* Mutant: copy(buf, b).
RightPadded(b) == [i \in 1..Width |-> IF i <= Len(b) THEN b[i] ELSE 0]
SignatureToBytesLeft(g) ==
    RightPadded(Bytes(g.r)) \o RightPadded(Bytes(g.s)) \o <<g.v % Byte>>

\* Mutant: r and s are joined as they are.
SignatureToBytesShort(g) == Bytes(g.r) \o Bytes(g.s) \o <<g.v % Byte>>

SignatureToBytes(g) ==
    LeftPadded(Bytes(g.r)) \o LeftPadded(Bytes(g.s)) \o <<g.v % Byte>>

\* External: tss-lib signs; it may or may not fill its byte strings with zeros.
handleSuccess ==
    /\ stage = "signing"
    /\ \E r \in Scalars, s \in Scalars, v \in RecoveryIds :
          /\ made' = [r |-> r, s |-> s, v |-> v]
          /\ LET R == Digits(r, Byte, Width)
                 S == Digits(s, Byte, Width)
             IN  \/ sig' = GetSignature(R, S, v)
                 \/ sig' = GetSignature(Trim(R), Trim(S), v)
    /\ stage' = "completed"
    /\ UNCHANGED <<request, result, parsed, raw>>

\* WaitForCompletion finds the session completed.
GetResult ==
    /\ stage = "completed"
    /\ result' = [signature |-> Hex(SignatureToBytes(sig)),
                  r |-> Text(sig.r), s |-> Text(sig.s), v |-> sig.v]
    /\ stage' = "result"
    /\ UNCHANGED <<request, made, sig, parsed, raw>>

-----------------------------------------------------------------------------
(* The wallet manager.                                                     *)

SignMessage ==
    /\ stage = "result" /\ request = "message"
    /\ stage' = "answered"
    /\ UNCHANGED <<request, made, sig, result, parsed, raw>>

ParseResult ==
    /\ stage = "result" /\ request = "transaction"
    /\ parsed' = [r |-> Value(result.r, Nibble), s |-> Value(result.s, Nibble)]
    /\ stage' = "parsed"
    /\ UNCHANGED <<request, made, sig, result, raw>>

\* Mutant: both parts are filled with zeros, but behind their bytes.
TransactionBytesFilled(n, v) ==
    RightPadded(Bytes(n.r)) \o RightPadded(Bytes(n.s)) \o <<v % Byte>>

\* append(append(r.Bytes(), s.Bytes()...), byte(result.V))
TransactionBytes(n, v) == Bytes(n.r) \o Bytes(n.s) \o <<v % Byte>>

\* External: go-ethereum takes 2 * Width + 1 bytes, r in front, s and v behind it,
\* and panics on any other length; gin's Recovery answers such a call with an error.
WithSignature ==
    /\ stage = "parsed"
    /\ LET b == TransactionBytes(parsed, result.v)
       IN  \/ /\ Len(b) = 2 * Width + 1
              /\ raw' = [r |-> SubSeq(b, 1, Width), s |-> SubSeq(b, Width + 1, 2 * Width),
                         v |-> b[2 * Width + 1]]
              /\ stage' = "answered"
           \/ /\ Len(b) # 2 * Width + 1
              /\ stage' = "panicked" /\ UNCHANGED raw
    /\ UNCHANGED <<request, made, sig, result, parsed>>

-----------------------------------------------------------------------------

Init ==
    /\ request \in {"message", "transaction"}
    /\ stage = "signing"
    /\ made = None /\ sig = None /\ result = None /\ parsed = None /\ raw = None

Next == handleSuccess \/ GetResult \/ SignMessage \/ ParseResult \/ WithSignature

Spec == Init /\ [][Next]_vars

-----------------------------------------------------------------------------
(* Properties.                                                             *)

ByteStrings(w) == [1..w -> 0..(Byte - 1)]

\* Every answer has the shape that its consumers rely on.
TypeOK ==
    /\ request \in {"message", "transaction"}
    /\ stage \in {"signing", "completed", "result", "parsed", "answered", "panicked"}
    /\ stage # "signing" => {made, sig} \subseteq [r : Scalars, s : Scalars, v : RecoveryIds]
    /\ result # None =>
          /\ result.signature \in [1..(4 * Width + 2) -> 0..(Nibble - 1)]
          /\ {Len(result.r), Len(result.s)} \subseteq 1..(2 * Width)
    /\ parsed # None => parsed \in [r : Scalars, s : Scalars]
    /\ raw # None => raw \in [r : ByteStrings(Width), s : ByteStrings(Width), v : RecoveryIds]

\* The caller of SignMessage (POST /api/v1/sign/message, server.go) gets the signature
\* tss-lib made, whatever zeros r and s begin with and however short their texts
\* are: the 65 bytes split at 32 and 64, and the two numbers, both give it back.
AnswerIsSignature ==
    result # None =>
        LET b == Unhex(result.signature)
        IN  /\ Value(SubSeq(b, 1, Width), Byte) = made.r
            /\ Value(SubSeq(b, Width + 1, 2 * Width), Byte) = made.s
            /\ b[2 * Width + 1] = made.v /\ result.v = made.v
            /\ Value(result.r, Nibble) = made.r /\ Value(result.s, Nibble) = made.s

\* No transaction carries a signature other than the parsed one: the unpadded bytes
\* of manager.go:352 never shift a byte of r into s.  The price is that a call
\* whose r or s begins with a zero byte panics, and only such a call.
TransactionNeverMisread ==
    LET R == Digits(parsed.r, Byte, Width)
        S == Digits(parsed.s, Byte, Width)
    IN  parsed # None =>
          /\ raw # None => raw = [r |-> R, s |-> S, v |-> result.v % Byte]
          /\ stage = "answered" => raw # None
          /\ stage = "panicked" => raw = None /\ (R[1] = 0 \/ S[1] = 0)
          /\ stage = "answered" => R[1] # 0 /\ S[1] # 0
=============================================================================
