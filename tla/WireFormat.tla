----------------------------- MODULE WireFormat -----------------------------
(***************************************************************************)
(* The bytes that leave the client for the contract                        *)
(* (packages/client/src/prove.ts, validate.ts and identity.ts) and what    *)
(* the contract's host makes of them.  Bytes, field and widths are         *)
(* parameters: 256, the modulus of BLS12-381 and 48 in the code.           *)
(***************************************************************************)
EXTENDS Naturals, Sequences, SequencesExt, Digits

CONSTANTS
  Byte,        \* values of a byte
  FP_BYTES,    \* bytes of a field element
  FP_MODULUS,
  CircleBytes, RoundBytes, \* bytes of a u64 and of a u32
  IC_LENGTH                \* points of the inputs in a key (4 in the code)

ASSUME WireAssumption ==
  /\ Byte \in Nat \ {0, 1} /\ FP_BYTES \in Nat \ {0}
  /\ FP_MODULUS \in 1 .. Power(Byte, FP_BYTES)
  /\ CircleBytes \in Nat \ {0} /\ RoundBytes \in Nat \ {0} /\ IC_LENGTH \in Nat \ {0}

Fp == 0 .. FP_MODULUS - 1
G1 == Fp \X Fp                  \* x, y
G2 == (Fp \X Fp) \X (Fp \X Fp)  \* x0 + x1 u, y0 + y1 u
Bytes(n) == [1 .. n -> 0 .. Byte - 1]

\* Big-endian, the lowest n bytes (decimalStringToUint8Array, feToBytes); the
\* hexadecimal digits of encodeG1 and encodeG2 give the same bytes.
BytesOf(value, n) == DigitsOf(Byte, value, n)
bytesToBigInt(bytes) == NumberOf(Byte, bytes)
Element(bytes, i) == SubSeq(bytes, (i - 1) * FP_BYTES + 1, i * FP_BYTES)

feToBytes(value) == BytesOf(value, FP_BYTES)
packG1(p) == feToBytes(p[1]) \o feToBytes(p[2])
encodeG1(p) == packG1(p)
packG2(c) == feToBytes(c[1]) \o feToBytes(c[2]) \o feToBytes(c[3]) \o feToBytes(c[4])
FaultyEncodeG2(p) == packG2(<<p[1][1], p[1][2], p[2][1], p[2][2]>>)
encodeG2(p) == packG2(<<p[1][2], p[1][1], p[2][2], p[2][1]>>)

\* A point of the verification key (vk_beta_2, vk_gamma_2, vk_delta_2).
vkG2(p) == packG2(<<p[1][1], p[1][2], p[2][1], p[2][2]>>)

\* validateFieldElement, for each element of a proof.
Valid(bytes, n) ==
  /\ Len(bytes) = n * FP_BYTES
  /\ \A i \in 1 .. n : bytesToBigInt(Element(bytes, i)) < FP_MODULUS

G2Fields == {"beta", "gamma", "delta"}
validateContractVerificationKey(vk) ==
  /\ Valid(vk.alpha, 2)
  /\ \A f \in G2Fields : Valid(vk[f], 4)
  /\ vk.ic # <<>> /\ \A i \in DOMAIN vk.ic : Valid(vk.ic[i], 2)

\* The host: be(X) || be(Y), and in G2 c1 before c0.
hostElement(bytes, i) == bytesToBigInt(Element(bytes, i))
hostG1(bytes) == <<hostElement(bytes, 1), hostElement(bytes, 2)>>
hostG2(bytes) == <<<<hostElement(bytes, 2), hostElement(bytes, 1)>>,
                   <<hostElement(bytes, 4), hostElement(bytes, 3)>>>>

\* The bytes that are hashed into the tag of a round; a number that does not fit its
\* field is refused.
Fits(circleId, round) == circleId < Power(Byte, CircleBytes) /\ round < Power(Byte, RoundBytes)
roundTag(circleId, round) == BytesOf(circleId, CircleBytes) \o BytesOf(round, RoundBytes)

VARIABLES
  pi,       \* what snarkjs proved: points a (and c alike) and b; empty for bytes by hand
  sent,     \* the bytes given to claim(), as a and b
  key,      \* the verification key given to createCircle, if any, and whether it went through
  vkJson,   \* a G2 point of the verification key, and the bytes of it in create_circle
  received, \* what the contract's host reads, if the client let it pass
  tags      \* (history) the circles and rounds a tag was computed for

wireVars == <<pi, sent, key, vkJson, received, tags>>

WireInit ==
  /\ pi = <<>> /\ sent = <<>> /\ vkJson = <<>> /\ received = <<>> /\ tags = {}
  /\ key = [given |-> {}, sent |-> FALSE]

\* Bound: one call of one of these functions.
NothingDone == sent = <<>> /\ vkJson = <<>> /\ tags = {} /\ key.given = {}

\* generateProof.
GenerateProof(a, b) ==
  /\ NothingDone
  /\ pi' = <<a, b>> /\ sent' = <<encodeG1(a), encodeG2(b)>>
  /\ UNCHANGED <<key, vkJson, received, tags>>

\* A caller of claim may bring bytes of its own.
BringBytes(a, b) ==
  /\ NothingDone
  /\ sent' = <<a, b>>
  /\ UNCHANGED <<pi, key, vkJson, received, tags>>

Claimed ==
  /\ sent # <<>> /\ received = <<>>
  /\ Valid(sent[1], 2) /\ Valid(sent[2], 4)
  /\ received' = <<hostG1(sent[1]), hostG2(sent[2])>>
  /\ UNCHANGED <<pi, sent, key, vkJson, tags>>

\* verificationKeyToContractFormat.
ConvertKey(point) ==
  /\ NothingDone
  /\ vkJson' = <<point, vkG2(point)>>
  /\ UNCHANGED <<pi, sent, key, received, tags>>

\* A key with one field of its own; a field may be too short.
ZeroKey == [alpha |-> packG1(<<0, 0>>), beta |-> packG2(<<0, 0, 0, 0>>),
            gamma |-> packG2(<<0, 0, 0, 0>>), delta |-> packG2(<<0, 0, 0, 0>>),
            ic |-> [i \in 1 .. IC_LENGTH |-> packG1(<<0, 0>>)]]
BroughtKey ==
  { [ZeroKey EXCEPT !.alpha = b] : b \in Bytes(2 * FP_BYTES) \cup Bytes(FP_BYTES) }
    \cup (UNION { { [ZeroKey EXCEPT ![f] = b] : b \in Bytes(4 * FP_BYTES) } : f \in G2Fields })
    \cup { [ZeroKey EXCEPT !.ic = points] : points \in SeqOf(Bytes(2 * FP_BYTES), IC_LENGTH) }
    \cup { [ZeroKey EXCEPT !.ic = Append(@, packG1(<<0, 0>>))] }

\* createCircle: the number of points is checked before the key.
BringKey(vk) ==
  /\ NothingDone
  /\ key' = [given |-> {vk}, sent |-> Len(vk.ic) = IC_LENGTH /\ validateContractVerificationKey(vk)]
  /\ UNCHANGED <<pi, sent, vkJson, received, tags>>

\* computeExternalNullifier.
ComputeTag(circleId, round) ==
  /\ NothingDone
  /\ Fits(circleId, round)
  /\ tags' = {<<circleId, round>>}
  /\ UNCHANGED <<pi, sent, key, vkJson, received>>

WireNext ==
  \/ \E a \in G1, b \in G2 : GenerateProof(a, b)
  \/ \E a \in Bytes(2 * FP_BYTES), b \in Bytes(4 * FP_BYTES) : BringBytes(a, b)
  \/ Claimed
  \/ \E point \in G2 : ConvertKey(point)
  \/ \E vk \in BroughtKey : BringKey(vk)
  \/ \E circleId \in 0 .. Power(Byte, CircleBytes + 1), round \in 0 .. Power(Byte, RoundBytes + 1) :
       ComputeTag(circleId, round)

WireSpec == WireInit /\ [][WireNext]_wireVars

----------------------------------------------------------------------------
(* Properties.                                                             *)

\* The client lets its own proofs pass, and the host reads the points that were proved.
\* Whatever bytes pass are the one encoding of the points the host reads: no second one
\* (a coordinate plus the modulus) reaches the chain, and so it is with every point of a
\* verification key, which has one for each public input and one more.  Two rounds never
\* share the bytes of a tag, and none is computed for a number that u64 and u32 cannot
\* hold.
BytesAreReadBack ==
  /\ pi # <<>> =>
       /\ Valid(sent[1], 2) /\ Valid(sent[2], 4)
       /\ received # <<>> => received = pi
  /\ received # <<>> =>
       /\ received \in G1 \X G2
       /\ <<encodeG1(received[1]), encodeG2(received[2])>> = sent
  /\ \A vk \in key.given : key.sent =>
       /\ Len(vk.ic) = IC_LENGTH
       /\ \A b \in Range(vk.ic) \cup {vk.alpha} : hostG1(b) \in G1 /\ encodeG1(hostG1(b)) = b
       /\ \A f \in G2Fields : hostG2(vk[f]) \in G2 /\ encodeG2(hostG2(vk[f])) = vk[f]
  /\ \A t \in tags, circleId \in 0 .. Power(Byte, CircleBytes) - 1, round \in 0 .. Power(Byte, RoundBytes) - 1 :
       roundTag(circleId, round) = roundTag(t[1], t[2]) => t = <<circleId, round>>

\* What docs/wire-format.md says of the verification key: its points have the same
\* encoding as those of a proof, so the host reads the points of the file.
VerificationKeyIsReadBack == vkJson # <<>> => hostG2(vkJson[2]) = vkJson[1]
=============================================================================
