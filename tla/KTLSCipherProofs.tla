------------------------- MODULE KTLSCipherProofs -------------------------
(***************************************************************************)
(* Proofs about KTLSCipher: the records sealed under the TX key of a TLS   *)
(* 1.3 or ChaCha20 connection never share a nonce, for every bound on the  *)
(* records and every set of suites.                                        *)
(***************************************************************************)
EXTENDS KTLSCipher, TLAPS

(***************************************************************************)
(* The XOR-mode suites.                                                    *)
(***************************************************************************)
Sequenced == suite[1] = "CHACHA" \/ suite[2] = "TLS13"

(***************************************************************************)
(* The inductive invariant.  Before the hand-over c.out.seq counts the     *)
(* records sealed; after it the struct holds the c.out.seq of the moment   *)
(* and the kernel's count continues it.  So in XOR mode the i-th record's  *)
(* nonce is i - 1, whoever sealed it.                                      *)
(***************************************************************************)
NonceInv ==
    /\ TypeOK
    /\ phase \in {"handshake", "soft"} => seq = Len(nonces) /\ kSent = 0
    /\ phase = "ktls" => /\ info = CryptoInfo(suite[1], suite[2], seq)
                         /\ seq + kSent = Len(nonces)
    /\ Sequenced => \A i \in 1..Len(nonces) : nonces[i] = i - 1

(***************************************************************************)
(* The struct the encoder builds is well typed, and its mode is that of    *)
(* the suite.                                                              *)
(***************************************************************************)
LEMMA CryptoInfoType ==
    ASSUME NEW s \in Suites, NEW q \in Nat
    PROVE  /\ CryptoInfo(s[1], s[2], q) \in [ivCopied : Nat, recSeq : Nat, xor : BOOLEAN]
           /\ CryptoInfo(s[1], s[2], q).recSeq = q
           /\ CryptoInfo(s[1], s[2], q).xor = (s[1] = "CHACHA" \/ s[2] = "TLS13")
<1>1. s[1] \in {"AES128", "AES256", "CHACHA"} /\ s[2] \in {"TLS12", "TLS13"}
  BY CipherConstantsAssumption
<1>2. HandshakeIVLen(s[1], s[2]) - Profile[s[1]].salt \in Nat
  BY <1>1 DEF HandshakeIVLen, Profile
<1>3. QED
  BY <1>2 DEF CryptoInfo

(***************************************************************************)
(* Sealing one more record keeps the count of records sealed.              *)
(***************************************************************************)
LEMMA AppendCount ==
    ASSUME NEW s \in Seq(Nat), NEW x \in Nat, NEW a \in Nat, NEW k \in Nat,
           a + k = Len(s)
    PROVE  /\ Append(s, x) \in Seq(Nat)
           /\ k + 1 \in Nat
           /\ a + (k + 1) = Len(Append(s, x))
OBVIOUS

LEMMA NonceInit == Init => NonceInv
BY DEF Init, NonceInv, TypeOK, NoInfo

LEMMA NonceStep == NonceInv /\ [Next]_vars => NonceInv'
<1> SUFFICES ASSUME NonceInv, [Next]_vars PROVE NonceInv'
  OBVIOUS
<1> USE DEF NonceInv, TypeOK
<1>1. CASE SoftSeal
  <2>1. Sequenced' = Sequenced
    BY <1>1 DEF SoftSeal, Sequenced
  <2>2. Sequenced => \A i \in 1..Len(nonces') : nonces'[i] = i - 1
    BY <1>1 DEF SoftSeal
  <2>3. QED
    BY <1>1, <2>1, <2>2 DEF SoftSeal
<1>2. CASE EnableTX
  <2>1. PICK ok \in BOOLEAN :
          IF LengthError(suite[1], suite[2], Profile[suite[1]].key,
                         HandshakeIVLen(suite[1], suite[2]), 8) = "none" /\ ok
          THEN phase' = "ktls" /\ info' = CryptoInfo(suite[1], suite[2], seq)
          ELSE phase' = "soft" /\ info' = info
    BY <1>2 DEF EnableTX
  <2>2. info' \in [ivCopied : Nat, recSeq : Nat, xor : BOOLEAN]
    <3>1. CryptoInfo(suite[1], suite[2], seq) \in [ivCopied : Nat, recSeq : Nat, xor : BOOLEAN]
      BY CryptoInfoType
    <3>2. QED
      BY <2>1, <3>1
  <2>3. QED
    BY <1>2, <2>1, <2>2 DEF EnableTX, Sequenced
<1>3. CASE KernelSeal
  <2>1. info.recSeq = seq /\ info.xor = Sequenced
    <3>1. info = CryptoInfo(suite[1], suite[2], seq)
      BY <1>3 DEF KernelSeal
    <3>2. /\ CryptoInfo(suite[1], suite[2], seq).recSeq = seq
          /\ CryptoInfo(suite[1], suite[2], seq).xor = Sequenced
      BY CryptoInfoType DEF Sequenced
    <3>3. QED
      BY <3>1, <3>2
  <2>2. Sequenced => KernelNonce(info, kSent) = Len(nonces)
    BY <1>3, <2>1 DEF KernelNonce, KernelSeal
  <2>3. Sequenced => \A i \in 1..Len(nonces') : nonces'[i] = i - 1
    BY <1>3, <2>2 DEF KernelSeal
  <2>4. KernelNonce(info, kSent) \in Nat
    BY <1>3 DEF KernelNonce, KernelSeal
  <2>5. Sequenced' = Sequenced /\ phase' = "ktls" /\ info' = info /\ seq' = seq
    BY <1>3 DEF KernelSeal, Sequenced
  <2>6. /\ seq + kSent = Len(nonces) /\ seq \in Nat /\ kSent \in Nat /\ nonces \in Seq(Nat)
        /\ nonces' = Append(nonces, KernelNonce(info, kSent)) /\ kSent' = kSent + 1
    BY <1>3, Zenon DEF KernelSeal
  <2>7. nonces' \in Seq(Nat) /\ kSent' \in Nat /\ seq' + kSent' = Len(nonces')
    <3>1. /\ Append(nonces, KernelNonce(info, kSent)) \in Seq(Nat)
          /\ kSent + 1 \in Nat
          /\ seq + (kSent + 1) = Len(Append(nonces, KernelNonce(info, kSent)))
      BY <2>4, <2>6, AppendCount
    <3>2. QED
      BY <2>5, <2>6, <3>1, Zenon
  <2>8. UNCHANGED <<suite, phase, seq, info>>
    BY <1>3 DEF KernelSeal
  <2>9. QED
    BY <1>3, <2>3, <2>5, <2>7, <2>8, Zenon
<1>4. CASE UNCHANGED vars
  BY <1>4 DEF vars, Sequenced
<1>5. QED
  BY <1>1, <1>2, <1>3, <1>4 DEF Next

(***************************************************************************)
(* In TLS 1.3 and ChaCha20 connections the kernel never reuses a nonce of  *)
(* the Go record layer nor one of its own, because ktlsEnableAES and       *)
(* ktlsEnableCHACHA20 hand c.out.seq over as recSeq.                       *)
(***************************************************************************)
THEOREM SequencedNonces == Spec => []SequencedNonceUnique
<1>1. NonceInv => SequencedNonceUnique
  <2> SUFFICES ASSUME NonceInv, Sequenced,
                      NEW a \in DOMAIN nonces, NEW b \in DOMAIN nonces,
                      nonces[a] = nonces[b]
               PROVE  a = b
    BY DEF SequencedNonceUnique, Sequenced, IsInjective
  <2>1. DOMAIN nonces = 1..Len(nonces)
    BY DEF NonceInv, TypeOK
  <2>2. nonces[a] = a - 1 /\ nonces[b] = b - 1
    BY <2>1 DEF NonceInv
  <2>3. Len(nonces) \in Nat
    BY DEF NonceInv, TypeOK
  <2>4. a \in Nat /\ b \in Nat
    BY <2>1, <2>3
  <2>5. a - 1 = b - 1
    BY <2>2
  <2>6. QED
    BY <2>4, <2>5
<1>2. QED
  BY <1>1, NonceInit, NonceStep, PTL DEF Spec

(***************************************************************************)
(* The state of KTLSCipher keeps its types.                                *)
(***************************************************************************)
THEOREM CipherTypeCorrect == Spec => []TypeOK
BY NonceInit, NonceStep, PTL DEF Spec, NonceInv
=============================================================================
