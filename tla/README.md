# TLA+ models of goktls kernel TLS offload

goktls is a fork of Go's `crypto/tls`. Once a handshake completes, it hands the
session keys to the Linux kernel (kTLS), so that the kernel encrypts and
decrypts the records of the socket. The three files under `src/` hold this
offload code:

- `ktls.go` holds the `kTLSEnabled` switch and the `kTLSCipher` marker type.
- `ktls_linux.go` holds:
  - the capability probe `init()`;
  - the choice of cipher suite in `enableKernelTLS`;
  - the data paths that bypass the record layer: `ReadFrom`, `WriteTo` and `spliceToFile`;
  - the record I/O used once offload is on: `ktlsReadRecord`, `ktlsReadDataFromRecord` and `ktlsSendCtrlMessage`.
- `ktls_cipher_linux.go` holds the per-family activation functions
  `ktlsEnableAES` and `ktlsEnableCHACHA20`, and the three setsockopt encoders:
  - `ktlsEnableAES128GCM`;
  - `ktlsEnableAES256GCM`;
  - `ktlsEnableCHACHA20POLY1305`.

## How the parts interact

1. The package `init()` functions run once, before any connection exists.
   They fill the process-wide `kTLSSupport*` flags from `/sys/module/tls` and
   the uname release.
2. At the end of each handshake, the record layer calls `enableKernelTLS`,
   which does the following:
   - It reads the flags.
   - It binds the TCP ULP "tls" and configures TLS_TX, then TLS_RX, through setsockopt.
   - For each direction the kernel accepted, it sets `c.out.cipher` /
     `c.in.cipher` to `kTLSCipher{}`.
3. From then on, the record layer skips its own encryption for a marked
   direction. `ReadFrom`, `WriteTo` and `spliceToFile` always go to the raw
   socket.

## Modules

| module | models | state | actions |
|---|---|---|---|
| `KTLSProbe` | `init()` of both files | `caps` (the `kTLSSupport*` flags), `probed` | `Probe` |
| `KTLSRelease` | the release parse in `init()` (lines 84-99) | `release`, `parsed` | `Parse` |
| `KTLSConn` | one connection: activation, markers, kernel socket state, data paths (EXTENDS KTLSProbe) | `sock`, `out`, `in`, `ulpLog`, `enableErr`, `wire`, `inbox`, `delivered` | `EnableKernelTLS`, `Write`, `ReadFrom`, `SendCtrlMessage`, `PeerSend`, `Read`, `ReadRecord`, `WriteTo` |
| `KTLSSplice` | `spliceToFile` and its poller callbacks | `pc`, `remain`, `written`, `n`, `err`, `pipe`, `file`, `consumed`, and the peer | `Start`, `SpliceIn{Data,EOF,Again,Error}`, `Wake`, `Deadline`, `SpliceOut{Data,Error}`, `Finish`, `PeerSend`, `PeerClose` |
| `KTLSCipher` | the TX half of `ktlsEnableAES` / `ktlsEnableCHACHA20` with the encoders' length checks and `cryptoInfo` fill, against the nonces of Go's record layer | `suite`, `phase`, `seq` (`c.out.seq`), `info` (the `iv`/`recSeq` fields), `kSent`, `nonces` | `SoftSeal`, `EnableTX`, `KernelSeal` |
| `KTLSTransfer` | the abstract contract of `spliceToFile`: bytes taken off the stream, bytes stored in order, a final error, and the condition for a nil return | `status`, `handled`, `taken`, `stored`, `err` | `Begin`, `Take`, `Store`, `Fail`, `Return` |
| `KTLSOffload` | the abstract offload contract: each direction decided once, records protected exactly once on the sanctioned paths | `txMode`, `rxMode`, `wire`, `delivered` | `Decide`, `Send`, `Receive` |
| `KTLSConnProofs` | TLAPS proofs about `KTLSConn` | | |
| `KTLSCapsProofs` | TLAPS proofs that `enableKernelTLS` stays within the capability table of `init()` (KTLSConn with KTLSProbe) | | |
| `KTLSOffloadProofs` | TLAPS proof that `KTLSConn` refines `KTLSOffload` | | |
| `KTLSCipherProofs`, `KTLSSpliceProofs` | TLAPS proofs about `KTLSCipher` and `KTLSSplice` | | |
| `MC*` | the constants TLC runs with | | |

Correspondence to the code:

- **KTLSConn, data.** A record is abstracted to its number of protection layers:
  - on the wire, 1 is correct;
  - towards the application, 0 is correct.

  The kernel adds a layer iff `sock.tx` holds, and removes one iff `sock.rx` holds.
- **KTLSConn, `Encoder`.** It is the shared shape of the three setsockopt encoders:
  - the ULP bind unless `skip`, then the SOL_TLS call;
  - the kernel's answers are the parameters `bindOk` and `cfgOk`;
  - AES-GCM-128 continues after a failed ULP bind, the other two return.
- **KTLSConn, `EnableWith`.** It is `ktlsEnableAES` / `ktlsEnableCHACHA20` as one step:
  - TX first;
  - a TX error returns at once;
  - RX is tried with `skip = ulpEnabled`;
  - zero-copy and no-pad are best effort.
- **KTLSConn, `Write` and `Read`.** They stand for the record layer (`conn.go`), which is not in this repository. They are modelled from the marker semantics and marked spec_modelled.
- **KTLSCipher.** Key bytes are reduced to lengths and a nonce to the integer the kernel or the record layer puts in it. `CryptoInfo` is what the encoders copy: `iv[salt:]` into `cryptoInfo.iv` (empty for TLS 1.2 AES-GCM, whose handshake IV is the 4-byte salt) and `c.out.seq` into `recSeq`. `KernelNonce` is the kernel's rule (outside src/, marked spec_modelled): in XOR mode (TLS 1.3, ChaCha20) rec_seq plus the records sealed; otherwise the explicit nonce, which starts at the zero `iv`. `SoftSeal` is the record layer sealing with nonce `seq` before the hand-over (the Finished message).
- **Refinement.** `KTLSConn` ends with `Offload == INSTANCE KTLSOffload WITH ...`. A marker maps to a mode (`pending` during the handshake, `kernel` for `"ktls"`, else `soft`). A wire record maps to its path and to "protected" iff it carries exactly one layer, a delivered record to "plain" iff it carries none. `OffloadRefined == Offload!Spec` is checked as a property.
- **KTLSSplice.** Bytes are counted, not named. As in the code, a failed splice returns `n = -1`, and the code adds it to `remain` and `written` before it checks `err`. The two closures share `err`, and every splice assigns it: a successful splice sets it to nil, and EAGAIN resets it to nil before parking. `KTLSSplice` ends with `Copy == INSTANCE KTLSTransfer WITH status <- AbsStatus, taken <- consumed, stored <- file`. `Deadline` fires only while the goroutine is parked. A deadline that had already passed when `sc.Read` was entered (poll's `prepareRead`, before the first callback) is not modelled. It would return `rerr` with nothing read, which `ShortTransferHasError` already allows. `AbsStatus` maps `start` to `idle`, `done` to `returned` and every other `pc` to `copying`.

## Runs

| run | cfg | result | shows |
|---|---|---|---|
| conn_safety | KTLSConn.cfg | pass | see below |
| cipher_safety | KTLSCipher.cfg | pass | TypeOK and SequencedNonceUnique: in TLS 1.3 and ChaCha20 the kernel's nonces continue Go's. |
| cipher_tls12_nonce | KTLSCipher_NonceUnique.cfg | violation | TLS 1.2 AES-GCM: the kernel's first record reuses the Finished message's nonce 0 |
| conn_readfrom_plaintext | KTLSConn_WireProtected.cfg | violation | `ReadFrom` sends plaintext when TX is not offloaded |
| conn_writeto_ciphertext | KTLSConn_DeliveredPlain.cfg | violation | `WriteTo` hands over ciphertext when RX is not offloaded |
| conn_ulp_error_lost | KTLSConn_UlpFailureReported.cfg | violation | the AES-128 encoder loses the TCP_ULP error |
| splice_safety | KTLSSplice.cfg | pass | see below |
| splice_over_read | KTLSSplice_NoOverRead.cfg | violation | EAGAIN's -1 grows `remain`, so it reads past `lw.N` |
| splice_written_count | KTLSSplice_WrittenAccurate.cfg | violation | `written` differs from the bytes in the file |
| splice_eof_spin | KTLSSplice_Termination.cfg | violation | at EOF the loop never exits |
| release_parse | KTLSRelease_ParseAgreesWithReference.cfg | violation | `TrimLeft` with a cutset misparses releases such as 6.6.x |

conn_safety checks:

- TypeOK;
- OffloadConsistent: each marker holds iff the kernel does that direction;
- UlpBoundOnce;
- OffloadWithinCaps: the kernel is configured only under the `kTLSSupport*` flags `init()` set. RX is configured only together with TX, zero-copy only with TX, and no-pad only with TLS 1.3 RX;
- TLS13RXNeedsKernel6: TLS 1.3 RX is offloaded only when the table in use is `init()`'s table for a kernel 6.0 or later. Its mutant sets `kTLSSupportTLS13RX` from 5.19 on, as the comment at ktls_cipher_linux.go:129 says, and TLC finds a 5.19 kernel offloading TLS 1.3 RX. The code (`major > 5`) is stricter than that comment, which is harmless, since it only disables offload;
- OffloadRefined: the connection implements `KTLSOffload`. The mutant that drops the `return err` after a failed TX makes RX go on alone, which the contract forbids.

splice_safety checks:

- TypeOK;
- PipeDrainedBeforeNextChunk;
- ShortTransferHasError: a short transfer carries an error;
- ErrorSticky (action property): once `err` is set, no later step changes it. This holds because every splice of the loop runs with `err` nil, and the loop breaks on the first error;
- TransferRefined: `spliceToFile` implements `KTLSTransfer`. The mutant that returns after a short pipe-to-file move, without retrying, returns nil with bytes left in the pipe, which the contract forbids.

Each property of a passing run has a mutant in PROJECT.json. The mutant is a plausible bug of the mapped code, and TLC finds it violating the property.

Bounds and why they suffice:

- **Kernel versions in MCKTLSConn.** 4.9, 4.14, 5.4, 5.15, 5.19 and 6.1 fall on each side of every threshold the chosen suites depend on. 5.19 separates the zero-copy threshold, and the 5.19 threshold the RX comment names, from the 6.0 threshold of TLS 1.3 RX and no-pad. NoVersion stands for a failed uname or parse.
- **Suites in MCKTLSConn.** There is one suite per family and protocol branch, plus one the switch does not know.
- **The kernel's answers.** Every Boolean combination is allowed.
- **MaxRecords = 2.** It allows one record on each path after either activation outcome.
- **MCKTLSCipher.** All six (family, version) pairs and `MaxRecords = 4`: enough for a record layer record before the hand-over and several kernel records after it, under each suite and either kernel answer.
- **MCKTLSSplice.** `Limit = 2`, `MaxSplice = 2` and `Total = 3`. One byte beyond `lw.N` gives an over-read something to take. Chunks of two make short moves and the clamp to `remain` reachable.
- **MCKTLSRelease.** Majors 4 to 6, minors that do and do not share digits with the major, and suffixes with and without a further dot.

Fairness: `Spec` of KTLSSplice has `WF_vars(Transfer)`. The goroutine running `spliceToFile` is runnable whenever one of its steps is enabled, and the Go scheduler runs runnable goroutines. The peer and the deadline get no fairness, because they are the environment. Deadlock checking is off in the passing runs:

- a connection, or a KTLSCipher history, stops when its record bound is used up;
- `spliceToFile` may wait for ever on a socket without a deadline.

## Findings

The violation runs above are the findings. PROJECT.json gives the source line of each:

- ktls_linux.go:148, `ReadFrom`;
- ktls_linux.go:325, `WriteTo`;
- ktls_cipher_linux.go:271, the ULP error overwritten;
- ktls_linux.go:247/248, the -1 folded into `remain` and `written`;
- ktls_linux.go:276, no exit at EOF;
- ktls_cipher_linux.go:249 (and :325 for AES-256), the TLS 1.2 explicit nonce. The encoders leave `cryptoInfo.iv` zero, so the kernel's first record uses nonce 0, which the record layer already used for Finished under the same key. A GCM nonce reuse leaks the authentication key. The comment "For TLS 1.2, its IV is 0" treats the field as if the kernel derived it from `rec_seq`.
- ktls_linux.go:88, `TrimLeft`. For example, release 6.6.0 makes `init()` panic when it slices with index -1.

## Proofs (checked by tlapm)

### KTLSConnProofs

Each theorem below holds for every value of the constants. The only assumptions are `KernelVersionsAssumption` and `MaxRecordsAssumption`.

- `TypeCorrect`: `Spec => []TypeOK`. TypeOK is inductive on its own.
- `OffloadConsistency`: `Spec => []OffloadConsistent`.
- `SingleUlpBind`: `Spec => []UlpBoundOnce`.

`OffloadConsistency` follows from the lemma `RecordInvariant`, `Spec => []RecordInv`. The refinement proof in `KTLSOffloadProofs` uses the same lemma. `SanctionedWireProtected` and `SanctionedReadPlain` are defined in `KTLSConnProofs` as conjuncts of that invariant. They are not checked as properties of their own, because each only restates `OffloadConsistent` through the layer counts of `Write`, `Read` and `ReadRecord`. What they say about the record layer's paths is part of `OffloadRefined`.

- **What RecordInv is.** `RecordInv` is TypeOK /\ OffloadConsistent /\ SanctionedWireProtected /\ SanctionedReadPlain.
- **Why the protection properties are not inductive alone.** A `Write` record has one layer only because the marker agrees with the kernel. If `out = "ktls"` held without `sock.tx`, a record would go out with zero layers. So the record properties need OffloadConsistent in the invariant.
- **Why OffloadConsistent holds.** `EnableKernelTLS` sets a marker exactly when the encoder returned nil. The lemma `EncoderType` shows that an encoder returns nil exactly when it configured the kernel.
- **The sequence argument.** It rests on `AppendKeepsLayers`. It also uses `SanctionedOutLayers` and `SanctionedInLayers`, which compute the layers a record gets under the invariant.


`SingleUlpBind` rests on `UlpInv`, which adds `phase = "handshake" => ulpLog = <<>>`, because a bound on the length of `ulpLog` alone is not inductive. The argument has two parts:

- The lemma `EncoderLog` says that an encoder logs at most one bind, and none when told to skip.
- In `EnableKernelTLS`, the TX and RX logs cannot both be non-empty. A failed TX stops RX, and a successful TX makes RX skip the bind.

### KTLSCapsProofs

Assumption: `KernelVersionsAssumption`.

- `OffloadRespectsCaps`: `Spec => []OffloadWithinCaps`. It rests on `CapsInv`:
  - during the handshake the socket is untouched (`NoSock`);
  - once `enableKernelTLS` has run, `init()` has run.
  
  `OffloadWithinCaps` alone is not inductive. It says nothing that stops a second `enableKernelTLS` from adding to a configured socket, or `init()` from rewriting the table under a configured socket. The lemma `EnableWithinCaps` takes one `enableKernelTLS` on an untouched socket. `sock.rx` needs `rxTried`, which needs `start`, `tcp` and no TX failure, hence `txTried` and `tx.ok`. An encoder's `ok` is its `configured` (lemma `EncoderType`), so TX was configured too.
- `TLS13RXOnlyOnKernel6`: `Spec => []TLS13RXNeedsKernel6`. It adds `ProbeInv`: the table is `NoCaps` before `init()`, and afterwards `ProbeCaps(present, v)` for some `present` and some `v` in `KernelVersions \cup {NoVersion}`. The lemma `TLS13RXFlag` reads off `ProbeCaps` that `kTLSSupportTLS13RX` needs the module present, a parsed release and `major > 5`. `OffloadWithinCaps` gives the flag from `sock.rx` on a TLS 1.3 suite.

### KTLSOffloadProofs

`Refinement`: `Spec => OffloadRefined`. The initial states map to `Offload!Init`, and every step maps to a step of `KTLSOffload` or a stutter. The step needs `RefInv`, which is `RecordInv` plus `Clean`: during the handshake both markers are soft and no record exists. Without `Clean`, an activation could map to a `Decide` after records were sent, or a handshake record could not be explained. Each action gets its own case: `EnableKernelTLS` maps to `Decide` (the mode pair it reaches is one the contract allows, because RX is tried only after TX succeeded), the send and receive paths to `Send`/`Receive` via `SendMaps` and `ReceiveMaps`, `PeerSend` to a stutter.

### KTLSCipherProofs

Assumption: `CipherConstantsAssumption` (suites are pairs of the known families and versions).

- `SequencedNonces`: `Spec => []SequencedNonceUnique`.
- `CipherTypeCorrect`: `Spec => []TypeOK`.

Both rest on `NonceInv`. Before the hand-over `seq` counts the records sealed. After it, `info` is the `CryptoInfo` of that moment and `seq + kSent` counts them. In XOR mode the i-th nonce is therefore i - 1, which gives injectivity. The counting conjuncts are what makes it inductive: uniqueness alone says nothing about where the kernel's counter starts.

### KTLSSpliceProofs

Assumption: `SpliceConstantsAssumption`.

- `PipeDrained`: `Spec => []PipeDrainedBeforeNextChunk`.
- `ShortTransferReported`: `Spec => []ShortTransferHasError`.
- `SpliceTypeCorrect`: `Spec => []TypeOK`.
- `ErrorIsFinal`: `Spec => ErrorSticky`. It rests on the lemma `ErrorStep`: under the invariant, a step never changes a set `err`.
- `SpliceRefinement`: `Spec => TransferRefined`. `TransferInit` maps the initial state. `TransferStep` maps each action to a step of `KTLSTransfer` or a stutter:
  - `Start` maps to `Begin`;
  - a splice-in maps to `Take`;
  - a splice-out maps to `Store`, or to a stutter when it moves nothing;
  - a failed splice or the deadline maps to `Fail`;
  - `Finish` maps to `Return`;
  - EOF, EAGAIN, `Wake` and the peer's steps map to stutters.

They rest on `SpliceInv`: outside the drain the pipe is empty, inside it the pipe holds exactly `n`. While no error is set, `file + pipe + remain >= lw.N`. The loop exits without an error only with `remain <= 0`. The byte-accounting conjunct is needed for `ShortTransferHasError`, since the property speaks only of the final state. Three conjuncts serve the new theorems:

- While the loop runs (`start`, `loop`, `parked`, `drain`), `err` is nil. Without it, a splice that sets `err` to nil could erase an error, and `ErrorSticky` would not follow from one step.
- Before the return, `consumed = file + pipe`.
- `file <= consumed`.

The last two give `Store`'s bound `stored' <= taken`. With the nil-error exit condition, they also give `Return`'s `stored = taken`. For the provers the invariant is split into its Boolean variables (Zenon) and the rest (SMT).

### Only model-checked

- `Termination`, a liveness property: the prover does not handle liveness under fairness or ENABLED. The refinement theorem covers only the safety part of `KTLSTransfer`, which has no fairness.
- Everything about `KTLSRelease`: it uses recursive string functions and folds, and TLAPS cannot prove facts about what recursive definitions compute. `KTLSProbe` works on the parsed (major, minor) pair, so its table is within the prover's reach (`TLS13RXFlag`). Whether that pair is the one the release string names is a question for `KTLSRelease`, and only TLC answers it.

## Not modelled

- `writeToFile` (ktls_linux.go:153-206) is dead code: nothing calls it.
- The syscall wrappers `recvmsg`, `sendmsg` and `errnoErr` are pure I/O. Debug logging is left out.
- The record layer (`conn.go`) is outside this repository. Only the marker test is modelled.
- Key bytes. KTLSCipher models lengths and the nonce fields only. The RX half of the encoders is not given a nonce model: the kernel decrypts with the peer's nonces.
- Record types and buffer lengths of `ktlsReadRecord` / `ktlsReadDataFromRecord` (post-handshake messages under RX offload, an empty read buffer): hazards in PROJECT.json.

## Plan

1. **KTLSRecordIO.** Model record types, alerts and the EAGAIN/EOF handling of `ktlsReadRecord` and `ktlsReadDataFromRecord`, and the post-handshake records a TLS 1.3 peer sends.
2. **More proofs.** Prove action properties of `KTLSConn`: markers never go back, and `sock` changes only in `EnableKernelTLS`.
3. **Re-keying.** Model the record layer's KeyUpdate handling, which is outside src/. `EnableTX`'s `phase = "handshake"` guard stands for the caller in conn.go, so no property about a second hand-over is checked against src.
