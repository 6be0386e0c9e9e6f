---------------------------- MODULE FieldFormats ----------------------------
(***************************************************************************)
(* The wire format of field elements, and the derivation of an election's  *)
(* scope, each of which the repository implements several times.  A string *)
(* is a sequence of characters and a byte is a digit in base Base, both    *)
(* read by Horner's rule; which field and base are constants, so that the  *)
(* strings and digests around a small modulus can be enumerated.           *)
(***************************************************************************)
EXTENDS Naturals, Sequences, FiniteSets, SequencesExt

CONSTANTS Modulus, Base, Width,     \* of the field; its elements take Width bytes
          MaxLength,                \* bound on the length of the strings
          MaxCounter                \* SCOPE_REJECTION_COUNTER_MAX
CONSTANT Refused

Power[k \in Nat] == IF k = 0 THEN 1 ELSE Base * Power[k - 1]

\* The number that digits stand for in a base: each further digit shifts the ones before it.
Horner(base, digits) ==
    LET value[i \in 0 .. Len(digits)] ==
            IF i = 0 THEN 0 ELSE base * value[i - 1] + digits[i]
    IN  value[Len(digits)]

Bytes == [1 .. Width -> 0 .. Base - 1]

ASSUME FormatsAssumption ==
    /\ {Modulus, Base, Width, MaxLength, MaxCounter} \subseteq Nat
    /\ 1 < Base /\ 1 < Modulus /\ Modulus < Power[Width]
    /\ Refused \notin Nat /\ Refused \notin Bytes

DigitOf == [c \in {"0", "1", "2", "3", "4", "5", "6", "7", "8", "9"} |->
    CASE c = "0" -> 0 [] c = "1" -> 1 [] c = "2" -> 2 [] c = "3" -> 3 [] c = "4" -> 4
      [] c = "5" -> 5 [] c = "6" -> 6 [] c = "7" -> 7 [] c = "8" -> 8 [] c = "9" -> 9]
Digits == DOMAIN DigitOf
Alphabet == Digits \cup {"-", "x"}
Strings == UNION {[1 .. n -> Alphabet] : n \in 0 .. MaxLength}

AllDigits(s) == \A i \in DOMAIN s : s[i] \in Digits
BigInt(s) == Horner(10, [i \in 1 .. Len(s) |-> DigitOf[s[i]]])
BelowModulus(s) == IF BigInt(s) < Modulus THEN BigInt(s) ELSE Refused

-----------------------------------------------------------------------------
(* The readers of a field element *)

\* publicSignals.ts: CANONICAL_DECIMAL_RE, (0|[1-9][0-9]*).
ParseCanonicalFrElement(s) ==
    IF s = <<"0">> \/ (s # <<>> /\ s[1] \in Digits \ {"0"} /\ AllDigits(Tail(s)))
    THEN BelowModulus(s) ELSE Refused

\* sorobanEncoding.ts.  Mutant: leading zeros are taken.
ParseFr_LeadingZeros(s) ==
    IF Len(s) > 0 /\ s[1] \notin {"-", "+"} /\ AllDigits(s)
    THEN BelowModulus(s) ELSE Refused

ParseFr(s) ==
    IF /\ Len(s) > 0
       /\ s[1] \notin {"-", "+"}
       /\ ~ (Len(s) > 1 /\ s[1] = "0")
       /\ AllDigits(s)
    THEN BelowModulus(s) ELSE Refused

IsCanonicalDecimalFr(s) ==
    /\ s # <<>>
    /\ s = <<"0">> \/ (s[1] # "0" /\ AllDigits(s) /\ BigInt(s) < Modulus)

\* t0.ts, and frDecimalToHex32 of replay-e0.js.
IsValidFrDecimal(s) ==
    /\ s # <<>> /\ AllDigits(s)
    /\ ~ (Len(s) > 1 /\ s[1] = "0")
    /\ BigInt(s) < Modulus

-----------------------------------------------------------------------------
(* Its bytes *)

\* The loops that take the low byte and shift, from the last byte to the first.
BigEndian(value) == [i \in 1 .. Width |-> (value \div Power[Width - i]) % Base]

\* toString(16) and padStart: as few digits as the value needs, after zeros.
PaddedHex(value) ==
    LET needed == CHOOSE n \in 1 .. Width :
                    value < Power[n] /\ (n = 1 \/ value >= Power[n - 1])
    IN  [i \in 1 .. Width - needed |-> 0]
          \o [i \in 1 .. needed |-> (value \div Power[needed - i]) % Base]

Number(bytes) == Horner(Base, bytes)

DecimalFrToHex32(s) ==
    IF ParseCanonicalFrElement(s) = Refused THEN Refused
    ELSE BigEndian(ParseCanonicalFrElement(s))
EncodePublicSignal(s) == IF ParseFr(s) = Refused THEN Refused ELSE BigEndian(ParseFr(s))
FrDecimalToHex32(s) == IF IsValidFrDecimal(s) THEN PaddedHex(BigInt(s)) ELSE Refused

-----------------------------------------------------------------------------
(* The election scope *)

\* The tag, the network, the contract and the election, each after its length in bytes.
ScopeMessage(tag, network, contract, election) ==
    <<Len(tag)>> \o tag \o <<Len(network)>> \o network
      \o <<Len(contract)>> \o contract \o <<Len(election)>> \o election

\* The first counter whose digest is accepted.  digest[c] stands for the SHA-256 of the
\* message and the byte c.
FirstAccepted(digest, accepted) ==
    LET counters == {c \in DOMAIN digest : digest[c] \in accepted}
    IN  IF counters = {} THEN Refused ELSE digest[Min(counters)]

\* scope.ts and build-scope-fixtures.js: as a number.
DeriveElectionScope(digest) ==
    LET inField == {bytes \in Range(digest) : Number(bytes) > 0 /\ Number(bytes) < Modulus}
        chosen == FirstAccepted(digest, inField)
    IN  IF chosen = Refused THEN Refused ELSE BigEndian(Number(chosen))

\* The credential crate: byte by byte, slice_is_zero and slice_is_lt_modulus.
DeriveWithCounter(digest) ==
    LET modulus == BigEndian(Modulus)
        inField == {bytes \in Range(digest) :
            /\ \E i \in 1 .. Width : bytes[i] # 0
            /\ \E i \in 1 .. Width : /\ bytes[i] < modulus[i]
                                     /\ \A j \in 1 .. i - 1 : bytes[j] = modulus[j]}
    IN  FirstAccepted(digest, inField)

-----------------------------------------------------------------------------

\* Every reader takes the same strings, those of 0 .. Modulus - 1, for the same bytes.
FieldReadersAgree ==
    /\ \A s \in Strings :
        /\ DecimalFrToHex32(s) = EncodePublicSignal(s)
        /\ DecimalFrToHex32(s) = FrDecimalToHex32(s)
        /\ IsCanonicalDecimalFr(s) <=> DecimalFrToHex32(s) # Refused
        /\ DecimalFrToHex32(s) # Refused => Number(DecimalFrToHex32(s)) < Modulus
    /\ \A s, t \in {s \in Strings : DecimalFrToHex32(s) # Refused} :
        DecimalFrToHex32(s) = DecimalFrToHex32(t) => s = t

\* Both derivations choose the same scope, which is a field element other than zero, and
\* no two of the inputs share a message.
Names == UNION {[1 .. n -> 1 .. 2] : n \in 0 .. MaxLength}
Ids == [1 .. 1 -> 1 .. 2]

ScopeDerivationsAgree ==
    /\ \A digest \in [0 .. MaxCounter -> Bytes] :
        /\ DeriveElectionScope(digest) = DeriveWithCounter(digest)
        /\ DeriveElectionScope(digest) # Refused =>
                Number(DeriveElectionScope(digest)) \in 1 .. Modulus - 1
    /\ \A t, u \in Names, n, o \in Names, c, d \in Ids, e, f \in Ids :
        ScopeMessage(t, n, c, e) = ScopeMessage(u, o, d, f) =>
            t = u /\ n = o /\ c = d /\ e = f

=============================================================================
