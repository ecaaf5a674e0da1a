---------------------------- MODULE KTLSCipher ----------------------------
(***************************************************************************)
(* The TX key material handed to the kernel, and the nonces the records    *)
(* sealed under that key carry (ktls_cipher_linux.go).                     *)
(*                                                                         *)
(* The setsockopt encoders check the lengths of key, IV and sequence, then *)
(* fill a kTLSCryptoInfo* struct: salt = iv[:salt], the struct's iv field  *)
(* = iv[salt:], recSeq = c.out.seq.  The kernel derives every later TX     *)
(* nonce from that struct, and Go's record layer derived the nonces of the *)
(* records it sealed under the same key before the hand-over (the          *)
(* Finished message of TLS 1.2 at least).  A nonce is modelled by its      *)
(* per-record part, a natural number: the fixed part (salt, static IV) is  *)
(* the same for every record under one key.                                *)
(*                                                                         *)
(*   - Go's record layer: the explicit nonce of TLS 1.2 AES-GCM is the     *)
(*     record sequence number; TLS 1.3 and ChaCha20 XOR the static IV      *)
(*     with it.  Either way the per-record part is c.out.seq.              *)
(*   - The kernel, TLS 1.3 and ChaCha20: static IV XOR rec_seq, and        *)
(*     rec_seq starts at cryptoInfo.recSeq.                                *)
(*   - The kernel, TLS 1.2 AES-GCM: the explicit nonce is cryptoInfo.iv,   *)
(*     incremented per record.  The encoders copy iv[4:] into it, which is *)
(*     empty for TLS 1.2, so it starts at zero.                            *)
(***************************************************************************)
EXTENDS Integers, Sequences, Functions

CONSTANTS
    Suites,      \* the (family, version) pairs a handshake may negotiate
    MaxRecords   \* bound on the records sealed under the TX key

ASSUME CipherConstantsAssumption ==
    /\ Suites \subseteq {"AES128", "AES256", "CHACHA"} \X {"TLS12", "TLS13"}
    /\ Suites # {}
    /\ MaxRecords \in Nat

(***************************************************************************)
(* The kTLS_CIPHER_* size constants of the three families in use, and the  *)
(* sizes of the kTLSCryptoInfo structs, the kTLSCryptoInfoSize constants. *)
(***************************************************************************)
Profile ==
    [AES128 |-> [key |-> 16, iv |-> 8,  salt |-> 4, seq |-> 8],
     AES256 |-> [key |-> 32, iv |-> 8,  salt |-> 4, seq |-> 8],
     CHACHA |-> [key |-> 32, iv |-> 12, salt |-> 0, seq |-> 8]]

CryptoInfoSize(fam) ==
    2 + 2 + Profile[fam].iv + Profile[fam].key + Profile[fam].salt + Profile[fam].seq

(***************************************************************************)
(* The lengths crypto/tls derives for a suite, which ktlsEnableAES and     *)
(* ktlsEnableCHACHA20 pass on: the key of the family, a 4-byte fixed IV    *)
(* for TLS 1.2 AES-GCM and a 12-byte IV otherwise, and the 8-byte          *)
(* c.out.seq.                                                              *)
(***************************************************************************)
HandshakeIVLen(fam, ver) == IF fam # "CHACHA" /\ ver = "TLS12" THEN 4 ELSE 12

(***************************************************************************)
(* The encoders' length checks, in their order: key, then IV (salt only    *)
(* for TLS 1.2 AES-GCM, salt + iv for TLS 1.3, iv for ChaCha20), then the  *)
(* sequence.  "none" is the nil error.  The unsafe.Sizeof assertion that   *)
(* follows cannot fail: the structs hold two uint16 and byte arrays only.  *)
(***************************************************************************)
LengthError(fam, ver, keyLen, ivLen, seqLen) ==
    LET p      == Profile[fam]
        wantIV == IF fam = "CHACHA" THEN p.iv
                  ELSE IF ver = "TLS12" THEN p.salt ELSE p.salt + p.iv
    IN  CASE keyLen # p.key  -> "key"
          [] ivLen # wantIV  -> "iv"
          [] seqLen # p.seq  -> "seq"
          [] OTHER           -> "none"

(***************************************************************************)
(* The struct the encoder hands to setsockopt(SOL_TLS, TLS_TX), reduced to *)
(* what the nonces depend on: the number of IV bytes copy(iv[salt:]) puts  *)
(* in the iv field (the rest of it stays zero), and recSeq = c.out.seq.    *)
(***************************************************************************)
\* Mutant: copy(cryptoInfo.recSeq[:], seq) left out, so recSeq stays zero.
CryptoInfoNoSeq(fam, ver, seq) ==
    [ivCopied |-> HandshakeIVLen(fam, ver) - Profile[fam].salt,
     recSeq   |-> 0,
     xor      |-> fam = "CHACHA" \/ ver = "TLS13"]

\* Mutant: the sequence number of the last record sealed instead of the next.
CryptoInfoLastSeq(fam, ver, seq) ==
    [ivCopied |-> HandshakeIVLen(fam, ver) - Profile[fam].salt,
     recSeq   |-> seq - 1,
     xor      |-> fam = "CHACHA" \/ ver = "TLS13"]

CryptoInfo(fam, ver, seq) ==
    [ivCopied |-> HandshakeIVLen(fam, ver) - Profile[fam].salt,
     recSeq   |-> seq,
     xor      |-> fam = "CHACHA" \/ ver = "TLS13"]

NoInfo == [ivCopied |-> 0, recSeq |-> 0, xor |-> FALSE]

(***************************************************************************)
(* The per-record nonce part of the j-th record the kernel seals (j from   *)
(* 0): rec_seq + j in XOR mode, the explicit nonce cryptoInfo.iv + j       *)
(* otherwise.  The explicit nonce starts at zero when no IV byte was       *)
(* copied into the iv field, which is the only case the length check lets  *)
(* through for TLS 1.2 AES-GCM.                                            *)
(***************************************************************************)
KernelNonce(info, j) ==
    IF info.xor THEN info.recSeq + j ELSE j

VARIABLES
    suite,     \* the negotiated (family, version)
    phase,     \* "handshake", "soft" (offload not taken) or "ktls"
    seq,       \* c.out.seq: the next sequence number of Go's record layer
    info,      \* the cryptoInfo handed to the kernel
    kSent,     \* records the kernel sealed
    nonces     \* the nonce parts of all records sealed under the TX key

vars == <<suite, phase, seq, info, kSent, nonces>>

TypeOK ==
    /\ suite \in Suites
    /\ phase \in {"handshake", "soft", "ktls"}
    /\ seq \in Nat
    /\ info \in [ivCopied : Nat, recSeq : Nat, xor : BOOLEAN]
    /\ kSent \in Nat
    /\ nonces \in Seq(Nat)

Init ==
    /\ suite \in Suites
    /\ phase = "handshake"
    /\ seq = 0
    /\ info = NoInfo
    /\ kSent = 0
    /\ nonces = <<>>

(***************************************************************************)
(* Go's record layer seals a record: before the hand-over (the Finished    *)
(* message), or for the whole connection when offload was not taken.      *)
(***************************************************************************)
SoftSeal ==
    /\ phase \in {"handshake", "soft"}
    /\ Len(nonces) < MaxRecords
    /\ nonces' = Append(nonces, seq)
    /\ seq' = seq + 1
    /\ UNCHANGED <<suite, phase, info, kSent>>

(***************************************************************************)
(* The TX half of ktlsEnableAES / ktlsEnableCHACHA20 with the encoder: the *)
(* length checks, the struct built from outIV and c.out.seq, and the       *)
(* kernel's answer to the two setsockopt calls (ok).  On an error the      *)
(* record layer keeps the direction.                                       *)
(***************************************************************************)
EnableTX ==
    /\ phase = "handshake"
    /\ \E ok \in BOOLEAN :
         LET fam == suite[1]
             ver == suite[2]
             err == LengthError(fam, ver, Profile[fam].key,
                                HandshakeIVLen(fam, ver), 8)
         IN  IF err = "none" /\ ok
             THEN /\ phase' = "ktls"
                  /\ info' = CryptoInfo(fam, ver, seq)
             ELSE /\ phase' = "soft"
                  /\ info' = info
    /\ UNCHANGED <<suite, seq, kSent, nonces>>

(***************************************************************************)
(* The kernel seals a record written to the offloaded socket.              *)
(***************************************************************************)
KernelSeal ==
    /\ phase = "ktls"
    /\ Len(nonces) < MaxRecords
    /\ nonces' = Append(nonces, KernelNonce(info, kSent))
    /\ kSent' = kSent + 1
    /\ UNCHANGED <<suite, phase, seq, info>>

Next == SoftSeal \/ EnableTX \/ KernelSeal

Spec == Init /\ [][Next]_vars

-----------------------------------------------------------------------------
(***************************************************************************)
(* Properties.                                                             *)
(***************************************************************************)

(***************************************************************************)
(* No two records sealed under the TX key share a nonce, whoever sealed    *)
(* them: Go's record layer before the hand-over, the kernel after it.      *)
(* With AES-GCM a repeated nonce gives away the authentication key.        *)
(***************************************************************************)
NonceUnique == IsInjective(nonces)

(***************************************************************************)
(* The same for the suites whose kernel nonce follows rec_seq (TLS 1.3,    *)
(* ChaCha20): the kernel's nonces continue Go's exactly because the        *)
(* encoder copies c.out.seq into recSeq.                                   *)
(***************************************************************************)
SequencedNonceUnique ==
    (suite[1] = "CHACHA" \/ suite[2] = "TLS13") => IsInjective(nonces)

=============================================================================
