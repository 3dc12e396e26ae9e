# TLA+ models of the vaipn tunnel core

This directory holds TLA+ models of the control core of the tunnel client,
with the TLC configurations that check them. Each model is translated from the
Go source. `PROJECT.json` lists, for every definition, the source lines it models.

## The system and its parts

| Part | Source | Module |
|---|---|---|
| Engine lifecycle coordinator: the `controller` singleton under `controllerMutex`; `Start`, `Stop`, `ReconnectTunnel`, `NetworkChanged`, `SetDynamicConfig`, `Export/ImportExchangePayload`; the embedded-server-list import goroutine and the `Controller.Run` goroutine | `src/MobileLibrary/psi/psi.go` 117-356 | `Engine` |
| Feedback upload coordinator: `StartSendFeedback`, `StopSendFeedback` and the upload goroutine, over `sendFeedbackCtx`, `stopSendFeedback` and `sendFeedbackWaitGroup` under `sendFeedbackMutex` | `psi.go` 358-481 | `Feedback` |
| Resumable DTLS session state: `serialize`, `deserialize`, `MarshalBinary`, `UnmarshalBinary` (gob), `initCipherSuite`, `ExportKeyingMaterial` | `src/replace/dtls/state.go` | `DTLSState` |
| Callback proxy `mutexVaipnProvider`, through which Start's notices, the import's error notice and every `Controller` callback reach the host; the delimited lists `SetDynamicConfig` and `GetDNSServers` decode | `psi.go` 162-190, 301-317, 510-569 | `Engine`, `PsiStrings` |
| Abstract engine lifecycle: what Start and Stop promise | `psi.go` | `EngineLifecycle` (refined by `Engine`) |
| gQUIC certificate cache: `getCompressedCert` over a groupcache LRU | `src/vaipn/common/quic/gquic-go/internal/crypto/cert_cache.go` | `CertCache` |
| gQUIC legacy BLOCKED frame: `parseBlockedFrameLegacy`, `Write` | `src/vaipn/common/quic/gquic-go/internal/wire/blocked_frame_legacy.go` | `BlockedFrame` |
| TUN device setup: `OpenTunDevice`, `configureServerInterface`, `configureClientInterface`, `fixBindToDevice`, `resetNATTables` | `src/vaipn/common/tun/tun_linux.go` | `TunConfig` |
| Android binding, refraction config, gQUIC interfaces and types, buffer pool, GeoIP test, tun packet I/O | the other files | not modelled (see below) |

How the parts interact. The engine and the feedback job are independent
singletons. Both reassign the process-wide notice writer: each installs its
host handler and restores `os.Stderr` on stop. The session state is used by the
transports the engine runs. It is modelled on its own, with a host that saves
it into a resumption cache while the connection runs and restarts a peer from
that cache.

The TUN configuration runs on the server and on a Linux client, beside the
engine; its state is the host's network configuration, which outlives the
process. The certificate cache is shared by every gQUIC handshake of a process.

## Modules

**Engine** (`MCEngine` instantiates it with two caller threads).

- State:
  - Each Go global is a variable.
  - A pointer, context or wait group is represented by the number of the context it was created under (0 means nil).
  - `cancelled` is the set of cancelled contexts.
  - `importTasks` and `runLoops` are the live goroutines.
  - `dataStoreOpen`, `hasServerEntries` and `noticeWriter` are the shared resources.
  - `pc` records where each caller is inside a call.
- Actions:
  - Each step between two blocking points of a handler is an action: `Lock`, then the `Start*`, `Stop*` and `Control*` steps.
  - Every error return is a disjunct: LoadConfig or Commit failing, OpenDataStore failing, NewController failing with its rollback.
  - Waits are guards on the goroutine sets.
  - `ImportTask` and `RunLoop` model the two goroutines. The import stores entries or fails. The run loop ends once its context is cancelled.
- The callback proxy:
  - `providerMutex` is the proxy's `sync.Mutex`, and `callback[a]` is where actor `a` stands in a provider call: `none`, `waiting` or `inside`. The actors are the caller threads, the import of each context and the run loop of each context.
  - `CallProvider` starts a call. Start makes one for `NoticeBuildInfo`, which is emitted only with diagnostics enabled, and one for the "awaiting ..." notice. The import makes one for its error notice. `RunLoopCall` makes one for any Controller callback.
  - `ProxyLock` is `p.Lock()`. `ProxyReturn*` is the host returning, followed by the deferred `p.Unlock()`.
  - After its notice, Start opens the datastore (`StartOpen`) or waits for the import. After its error notice, the import goroutine marks its wait group done. The run loop does not return while one of its callbacks is in flight.
  - `GetDNSServers` returns the split server list inside the lock (`dnsServers`). `SetDynamicConfig` hands the Controller the split authorizations (`dynamicConfig`). Each of these records the host's string (`in`) with the list produced from it (`out`).

**PsiStrings** models strings as sequences of one-character strings.

- `Split` is `strings.Split` for a one-character separator, a RECURSIVE operator over `SelectInSeq`.
- `SplitAuthorizations` and `SplitDNSServers` are the two callers, each with its guard for the empty string.
- `Join` and `IsListEncoding` are the reference the callers are checked against.

**Feedback** (`MCFeedback`, with one caller thread or two).

- `StartSendFeedback` runs `StopSendFeedback` first: it takes the mutex, cancels, waits and releases the mutex. Then it takes the mutex again for its own body. The model keeps these as separate steps.
- A wait on a nil `*sync.WaitGroup` is a nil dereference. It sets `panicked`, which stops the process. `Restart` starts the process again with every global nil.

**DTLSState** (`MCDTLSState`).

- A `State` and a `serializedState` are records with the Go field names.
- Keys and PRF output are modelled as uninterpreted tuples of their inputs.
- gob is modelled by what it does:
  - `GobEncode` drops fields at their zero value, except the two fixed arrays.
  - `GobDecode` fills a fresh zero record.
- `serializeAt(s, epoch)` is `serialize` after its first `getLocalEpoch()`. `serializePanics` gives its two panic conditions: the nil `cipherSuite.ID()` and the index out of range.
- Two peers run a handshake. Its steps (`SetRandoms`, `SetMasterSecret`, `InitSuite`, `ChangeCipherSpec`, `RecvChangeCipherSpec`, `Send`) are modelled from the spec, because that code is not in this repository.
- The host saves with `SaveBegin` (the first epoch read) and `SaveEnd` (the rest of `serialize` and the gob encoding). These are separate steps, so connection steps can interleave between them.
- `Resume` models a process restart: a fresh `State{}` is restored with `UnmarshalBinary` from the cache.

**EngineLifecycle** is what the engine promises, with no threads, locks or
goroutines: contexts are created one at a time (`NewContext`), an engine runs
under the latest context only when none runs (`Run`), and it stops (`Halt`).
`Engine` instantiates it with `engine <- controller` and `started <- contexts`,
and `RefinesLifecycle` checks `Lifecycle!Spec` as a property of the engine run.

**TunConfig** (`MCTunConfig`).

- `host` is the host's network state: the addresses, sysctls and routes in
  effect (`items`), the number of MASQUERADE rules per family (`nat4`, `nat6`),
  NAT'ed conntrack flows, raw fds from `unix.Open`, and whether the tun device
  exists.
- Each function is its list of commands, each with how its error is handled
  (`fatal`, `ipv6`: dropped when `allowNoIPv6`, the
  `AllowNoIPv6NetworkConfiguration` flag chosen at `Init`, is on; `ignore` for the
  `-D` pass, `close` for the fd, `conntrack` for "0 flow entries"). `Begin`
  calls a function, `StepOk` and `StepFails` run one command, and the call
  returns after the last command or the first error that is not dropped.
- `Crash` kills the process between any two commands: fds close, the device
  and its addresses and routes go, sysctls and NAT rules stay. `Traffic` adds
  NAT'ed flows.

**CertCache** and **BlockedFrame** (`MCCertCache` runs both).

- The cache is a sequence of `[key, value]`, most recent first, with the
  groupcache `Get` and `Add` semantics. Each goroutine runs `GetCached` (hash,
  lock, Get, unlock), `CompressChain` (outside the lock, may fail) and
  `AddCompressed` (lock, Add, unlock). The hash is the byte string written into
  the hasher, which takes FNV-1a as collision-free.
- Bytes are tokens; a chain is a sequence of certificates and a hash list has
  one token per 64-bit hash.
- The frame codec works on byte sequences. A peer writes a BLOCKED frame
  followed by other bytes, and the receiver parses it.
- The two share no state, so the order of their steps changes nothing either of them can reach. `MCCertCache` therefore runs the frame codec after the handshakes have made their calls (`CacheDone`). Every interleaving of the cache is still checked, and the state space is the sum of the two rather than their product: 25k states in 3 s.

## Runs

| Run | Checks | Result |
|---|---|---|
| `MCEngine.cfg` | `RefinesLifecycle`: the engine implements `EngineLifecycle`. `StoreOpenWhileTasksLive`: no import or run-loop goroutine outlives the datastore. `SingleEngine`: every live run loop belongs to the one `controller`. `ConstructOnlyWithCandidates`: `NewController` runs only after `HasServerEntries` or after the import has finished. `EveryCallReturns`: every psi call returns (liveness). `ProviderQuiescentAfterStop`: once the engine is stopped and no call is in progress, no goroutine is in or waiting on a provider callback. `ListsDecoded`: the split authorizations and DNS servers join back to the host's string, hold no delimiter, and are empty exactly for "". | pass |
| `MCEngineNoticeWriter.cfg` | `NoticeWriterReleased`: with no engine and no call in progress, the notice writer is stderr | violation: OpenDataStore failing leaves the provider's writer installed |
| `MCFeedback.cfg` | `UploadStoppable`: every live upload is the one the globals refer to. `FeedbackCallsReturn`: every call returns unless the process died (liveness). | pass |
| `MCFeedbackRace.cfg` | `UploadStoppable` with two callers | violation: two StartSendFeedback calls orphan an upload |
| `MCFeedbackNilWait.cfg` | `NeverPanics` | violation: a config failure leaves `stopSendFeedback` set and the wait group nil, so the next call panics |
| `MCDTLSState.cfg` | `TypeOK`, including the bound on the sequence-number table. `KeysAgree`: client and server key blocks are equal. `ExportsAgree`: exported keying material is equal for every label. `ResumeRestores`: a resumed State serializes back to its record (action property). All of these hold across saves and restarts. | pass |
| `MCDTLSStateTorn.cfg` | `RecordIsSnapshot`: a saved record equals the State at one instant | violation: an epoch change between the two epoch reads in `serialize` |
| `MCDTLSStateEarlySave.cfg` | `SerializeNeverPanics` | violation: a save before a suite is chosen panics |
| `MCTunConfig.cfg` | Both settings of `AllowNoIPv6NetworkConfiguration`, chosen at `Init`. `NoDuplicateMasquerade`: at most one MASQUERADE rule per family across reconfigurations and crashes. `NoFdLeak`: outside `OpenTunDevice` no raw fd is open. `SucceededOnlyIfConfigured`: a nil return means the function's configuration is in effect (action property). | pass |
| `MCTunConfigTransient.cfg` | `NoDuplicateMasquerade` with an `iptables -D` that may fail while the rule exists | violation: the ignored `-D` error lets `-A` add a second rule |
| `MCCertCache.cfg` | `TypeOK`, including the LRU capacity. `ResultMatchesInput`: every chain returned is the compression of the caller's own inputs. `BlockedRoundTrip`: a written BLOCKED frame parses back to its stream (the connection for 0) leaving the following bytes unread, and each truncation is `io.EOF`. | pass |
| `MCCertCacheAmbiguous.cfg` | `ResultMatchesInput` with a client whose cached hashes are another's common-set hashes | violation: both write the same bytes into the hasher, so the second is served the first's compression |

The findings these violations record are in `PROJECT.json`:

- The two feedback violations are code bugs.
- The notice writer, the torn save and the early save each show the code differing from what its specification promises.
- The duplicated MASQUERADE rule and the ambiguous certificate-cache key are code bugs.

For every property of a passing run, `PROJECT.json` also names a plausible code
change under which TLC reports the property violated. Examples: a Stop that
skips the wait on the import, 
`SetDynamicConfig` without its length test, a Start without the "already started" check, an
initCipherSuite that ignores the role.

`Engine` and `Feedback` keep a `TypeOK` as documentation of the variables'
domains. It is not part of a run: every action stays inside those domains by
construction.

## Bounds

- **Engine:** two callers and `MaxStarts = 3` contexts. Each of these is possible:
  - a Start racing a Stop or a control call;
  - a Stop of one engine and a Start of the next;
  - a rollback;
  - the run loop, the import and Start contending for the proxy's lock.
- The host's strings are "", a two-element list, and a list with an empty element: `" a"` for the authorizations and `","` for the DNS servers. These reach the empty-string guard and the empty pieces. The run takes about 45 s.
- **Feedback:** one caller and five StartSendFeedback calls for the pass run. These reach a failed start followed by a panic and a restart. The race needs a second caller, and `MCFeedbackRace.cfg` adds one.
- **DTLS:** `MaxEpoch = 2` lets a save straddle an epoch change after the first one. `MaxSeq = 1` record per epoch. `MaxResumes = 2` lets a resumed peer be saved and resumed again. This is 890k states in about 100 s. The torn-save run uses `MaxSeq = 2`.

- **TunConfig:** both values of the IPv6 flag in one run, six calls, route destinations `<<"v6", "v4">>` (one route added, one skipped), one NAT'ed flow. Six calls reach open, server configuration, a crash and a second configuration. They also reach every failure point of open.
- **CertCache:** two goroutines, five calls and a one-entry LRU. With these, two misses race and an eviction falls between one goroutine's miss and its add. The three inputs share a chain and differ in their hash lists, and one pair differs only in the cached hashes.
- **BlockedFrame:** stream ids 0, 1, 255, 256, 65535, 2^24 and 2^31-1, each with or without trailing bytes. TLC's integers are 32-bit signed, so ids from 2^31 upward are not checked.

Each bound is the smallest that makes the interesting interleavings reachable.

## Fairness

- **Engine:** weak fairness on each caller's steps, on the import and on the run loop.
  - A thread inside a psi call keeps running. Go's mutex hands itself over.
  - The import ends. The run loop ends once its context is cancelled.
  - The host is never required to call, and the Controller is never required to call the provider.
  - Strong fairness on `ProxyLock`. The proxy's `sync.Mutex` is starvation-free, so an actor that keeps waiting gets the lock, however often others take it first.
  - Weak fairness on the host returning from a callback. This is the gomobile contract the library relies on.
- **Feedback:** strong fairness on each caller's steps, because a caller in `start_body` competes for the mutex with later callers. Go's `sync.Mutex` is starvation-free, which justifies it. An upload gets weak fairness only once it is cancelled: an upload that is not cancelled may run for as long as the network takes.
- **DTLS, TunConfig, CertCache:** no liveness is claimed and no fairness is assumed. The TUN and cache runs stop when their call bound is spent, so they do not check for deadlock.

## Not modelled, and why

What is left out either has no state to model, or its behaviour is decided by code outside this repository.

- **tun packet I/O** (`readTunPacket`, `writeTunPacket`), `BindToDevice`, `IsSupported`, the `makeDevice*` helpers, and `tun_unsupported.go`. Each is a single syscall, a constant, or a stub that returns `errUnsupported` and changes nothing. This is why the TUN device is only partly modelled.
- **Android network binding** (`net_android_linux.go`): a socket option and a listener, each a single syscall.
- **Refraction config and the gQUIC interface, type and AEAD files:** type declarations with no state changes.
- **Buffer pool** (`buffer_pool.go`): a `sync.Pool` whose only check is the capacity panic in `putPacketBuffer`. Every caller, and so every way a buffer can be resliced or grown before it is put back, is outside this repository.
- **GeoIP file:** test data.
- **A host callback that calls back into psi:** for example, a `Notice` handler that calls `Stop`. `Stop` holds `controllerMutex` and waits for the run loop. The run loop is inside the callback, and the callback waits for `controllerMutex`: a deadlock. The code neither forbids this nor guards against it. The model's host always returns, so the deadlock is listed as a hazard and not checked.
- **Feedback handlers that call the feedback API:** lines 386-390 document this as forbidden.
- **Engine and feedback together:** both install their own notice writer. `StartSendFeedback` is documented as not to be used concurrently with `Start`, so a composition would only restate that warning. The notice writer the engine leaves behind is checked on its own by `MCEngineNoticeWriter.cfg`.
- **Callers of `UnmarshalBinary` and `clone`:** their policy lives outside this repository. This covers a cache record with a suite ID `cipherSuiteForID` does not know, and a `State` left half-restored after an `UnmarshalBinary` error. Every record in the model's cache is one this code saved.
- **Sequence numbers after a resume:** a peer resumed from an older record sends again under numbers it has already used. The code makes no promise here, so no property states one.
- **Collisions of the 64-bit FNV key:** the model takes the hash to be injective.
- **Stream ids at or above 2^31:** TLC's integers cannot represent them, so `uint32` truncation of larger ids is not checked.
