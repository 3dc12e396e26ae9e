------------------------------- MODULE Engine -------------------------------
(***************************************************************************)
(* The engine lifecycle coordinator of the mobile library shim            *)
(* (MobileLibrary/psi/psi.go): the process-wide Controller singleton       *)
(* guarded by controllerMutex, its Start and Stop, the runtime control     *)
(* calls, and the two goroutines a Start spawns: the embedded server-list  *)
(* import and the Controller run loop.                                     *)
(*                                                                         *)
(* A Start that gets past configuration creates a new context; contexts    *)
(* are numbered 1, 2, ... and every goroutine, wait group and controller   *)
(* is identified by the number of the context it was created under (0 is  *)
(* nil).  Configuration, datastore and Controller construction failures   *)
(* and the outcome of the import are nondeterministic choices.            *)
(*                                                                         *)
(* Every callback into the host's provider goes through the                *)
(* mutexVaipnProvider Start wraps it in: Start's own notices, the import's *)
(* error notice and the run loop's calls each lock the proxy's mutex,      *)
(* call the host and unlock.                                               *)
(***************************************************************************)
EXTENDS Naturals, FiniteSets, PsiStrings

CONSTANTS
    Callers,     \* host threads calling the exported psi functions
    NoCaller,    \* model value: controllerMutex is free
    MaxStarts,   \* bound on the contexts a run may create
    AuthInputs,  \* newAuthorizationsList values the host passes
    DNSInputs    \* GetDNSServersAsString values the host returns

ASSUME /\ NoCaller \notin Callers
       /\ MaxStarts \in Nat \ {0}

Gens == 1..MaxStarts          \* context generations
GenOrNil == 0..MaxStarts      \* a generation or nil

(* What calls the provider: a host thread inside Start, or the import or   *)
(* run-loop goroutine of a generation.                                     *)
Actors == Callers \cup ({"import", "run"} \X Gens)

VARIABLES
    controllerMutex,              \* holder of controllerMutex, or NoCaller
    pc,                           \* where each caller is inside a psi call
    controller,                   \* generation of the live Controller, 0 = nil
    controllerCtx,                \* generation of controllerCtx / stopController
    cancelled,                    \* generations whose context is cancelled
    embeddedServerListWaitGroup,  \* generation of that wait group, 0 = nil
    controllerWaitGroup,          \* generation of that wait group, 0 = nil
    importTasks,                  \* generations with a live import goroutine
    runLoops,                     \* generations with a live Controller.Run
    dataStoreOpen,                \* OpenDataStore done and not yet closed
    hasServerEntries,             \* the datastore holds candidate servers
    noticeWriter,                 \* "stderr" or "provider" (the host's handler)
    contexts,                     \* contexts created so far
    providerMutex,                \* holder of the mutexVaipnProvider lock
    callback,                     \* each actor's provider call: none, waiting, inside
    dynamicConfig,                \* last SetDynamicConfig: input and authorizations
    dnsServers                    \* last GetDNSServers: host string and result

vars == << controllerMutex, pc, controller, controllerCtx, cancelled,
           embeddedServerListWaitGroup, controllerWaitGroup, importTasks,
           runLoops, dataStoreOpen, hasServerEntries, noticeWriter, contexts,
           providerMutex, callback, dynamicConfig, dnsServers >>

proxyVars == << providerMutex, callback, dynamicConfig, dnsServers >>

PCs == {"idle", "start", "start_check", "start_await_import",
        "start_construct", "start_rollback", "stop", "stop_await_run",
        "stop_await_import", "control", "control_call", "start_buildinfo",
        "start_open", "start_notice"}

TypeOK ==
    /\ controllerMutex \in Callers \cup {NoCaller}
    /\ pc \in [Callers -> PCs]
    /\ controller \in GenOrNil
    /\ controllerCtx \in GenOrNil
    /\ cancelled \subseteq Gens
    /\ embeddedServerListWaitGroup \in GenOrNil
    /\ controllerWaitGroup \in GenOrNil
    /\ importTasks \subseteq Gens
    /\ runLoops \subseteq Gens
    /\ dataStoreOpen \in BOOLEAN
    /\ hasServerEntries \in BOOLEAN
    /\ noticeWriter \in {"stderr", "provider"}
    /\ contexts \in 0..MaxStarts
    /\ providerMutex \in Actors \cup {NoCaller}
    /\ callback \in [Actors -> {"none", "waiting", "inside"}]

-----------------------------------------------------------------------------
(* The candidate datastore persists across processes, so a process may    *)
(* start with or without server entries.                                   *)
Init ==
    /\ controllerMutex = NoCaller
    /\ pc = [c \in Callers |-> "idle"]
    /\ controller = 0
    /\ controllerCtx = 0
    /\ cancelled = {}
    /\ embeddedServerListWaitGroup = 0
    /\ controllerWaitGroup = 0
    /\ importTasks = {}
    /\ runLoops = {}
    /\ dataStoreOpen = FALSE
    /\ hasServerEntries \in BOOLEAN
    /\ noticeWriter = "stderr"
    /\ contexts = 0
    /\ providerMutex = NoCaller
    /\ callback = [a \in Actors |-> "none"]
    /\ dynamicConfig = [in |-> << >>, out |-> << >>]
    /\ dnsServers = [in |-> << >>, out |-> << >>]

\* A call returns: the deferred controllerMutex.Unlock runs.
Return(c) ==
    /\ pc' = [pc EXCEPT ![c] = "idle"]
    /\ controllerMutex' = NoCaller

\* Every exported function begins with controllerMutex.Lock().
Lock(c) ==
    /\ pc[c] = "idle"
    /\ controllerMutex = NoCaller
    /\ \E entry \in {"start", "stop", "control"} :
          pc' = [pc EXCEPT ![c] = entry]
    /\ controllerMutex' = c
    /\ UNCHANGED << controller, controllerCtx, cancelled,
                    embeddedServerListWaitGroup, controllerWaitGroup,
                    importTasks, runLoops, dataStoreOpen, hasServerEntries,
                    noticeWriter, contexts, proxyVars >>

-----------------------------------------------------------------------------
(***************************************************************************)
(* Start                                                                   *)
(***************************************************************************)

StartAlreadyRunning(c) ==
    /\ pc[c] = "start"
    /\ controller # 0
    /\ Return(c)
    /\ UNCHANGED << controller, controllerCtx, cancelled,
                    embeddedServerListWaitGroup, controllerWaitGroup,
                    importTasks, runLoops, dataStoreOpen, hasServerEntries,
                    noticeWriter, contexts, proxyVars >>

(* A provider call: the actor waits for the proxy's mutex.               *)
CallProvider(a) == callback' = [callback EXCEPT ![a] = "waiting"]

(* With no Controller running, Start does: the GC hint, wrap the         *)
(* provider, LoadConfig, bind the callbacks and Commit (either may fail),  *)
(* install the provider's notice writer and emit NoticeBuildInfo through   *)
(* it when diagnostic notices are enabled.  Errors return through the      *)
(* deferred Unlock; nothing set so far is undone.                          *)
StartSetupSteps(c) ==
    /\ \/ /\ Return(c)               \* LoadConfig or Commit fails
          /\ UNCHANGED << noticeWriter, callback >>
       \/ /\ noticeWriter' = "provider"
          /\ \/ /\ CallProvider(c)
                /\ pc' = [pc EXCEPT ![c] = "start_buildinfo"]
             \/ /\ pc' = [pc EXCEPT ![c] = "start_open"]
                /\ UNCHANGED callback
          /\ UNCHANGED controllerMutex
    /\ UNCHANGED << controller, controllerCtx, cancelled,
                    embeddedServerListWaitGroup, controllerWaitGroup,
                    importTasks, runLoops, dataStoreOpen, hasServerEntries,
                    contexts, providerMutex, dynamicConfig, dnsServers >>

(* OpenDataStore (may fail), then create controllerCtx and spawn the       *)
(* import goroutine under a fresh wait group.                              *)
StartOpen(c) ==
    /\ pc[c] = "start_open"
    /\ \/ /\ Return(c)               \* OpenDataStore fails
          /\ UNCHANGED << dataStoreOpen, contexts, controllerCtx,
                          embeddedServerListWaitGroup, importTasks >>
       \/ /\ contexts < MaxStarts
          /\ dataStoreOpen' = TRUE
          /\ contexts' = contexts + 1
          /\ controllerCtx' = contexts + 1
          /\ embeddedServerListWaitGroup' = contexts + 1
          /\ importTasks' = importTasks \cup {contexts + 1}
          /\ pc' = [pc EXCEPT ![c] = "start_check"]
          /\ UNCHANGED controllerMutex
    /\ UNCHANGED << controller, cancelled, controllerWaitGroup, runLoops,
                    hasServerEntries, noticeWriter, proxyVars >>

\* A Start without the "already started" check (a plausible regression).
StartSetupUnchecked(c) ==
    /\ pc[c] = "start"
    /\ StartSetupSteps(c)

\* if controller != nil { return "already started" }, then the setup.
StartSetup(c) ==
    /\ pc[c] = "start"
    /\ controller = 0
    /\ StartSetupSteps(c)

\* A check that never waits for the import (a plausible regression).
StartCheckEntriesNoWait(c) ==
    /\ pc[c] = "start_check"
    /\ pc' = [pc EXCEPT ![c] = "start_construct"]
    /\ UNCHANGED << controllerMutex, controller, controllerCtx, cancelled,
                    embeddedServerListWaitGroup, controllerWaitGroup,
                    importTasks, runLoops, dataStoreOpen, hasServerEntries,
                    noticeWriter, contexts, proxyVars >>

(* if !HasServerEntries() { NoticeInfo("awaiting ...") through the proxy; *)
(* embeddedServerListWaitGroup.Wait() }                                    *)
StartCheckEntries(c) ==
    /\ pc[c] = "start_check"
    /\ \/ /\ hasServerEntries
          /\ pc' = [pc EXCEPT ![c] = "start_construct"]
          /\ UNCHANGED callback
       \/ /\ ~hasServerEntries
          /\ pc' = [pc EXCEPT ![c] = "start_notice"]
          /\ CallProvider(c)
    /\ UNCHANGED << controllerMutex, controller, controllerCtx, cancelled,
                    embeddedServerListWaitGroup, controllerWaitGroup,
                    importTasks, runLoops, dataStoreOpen, hasServerEntries,
                    noticeWriter, contexts, providerMutex, dynamicConfig,
                    dnsServers >>

StartAwaitImport(c) ==
    /\ pc[c] = "start_await_import"
    /\ embeddedServerListWaitGroup \notin importTasks
    /\ pc' = [pc EXCEPT ![c] = "start_construct"]
    /\ UNCHANGED << controllerMutex, controller, controllerCtx, cancelled,
                    embeddedServerListWaitGroup, controllerWaitGroup,
                    importTasks, runLoops, dataStoreOpen, hasServerEntries,
                    noticeWriter, contexts, proxyVars >>

(* NewController: on success the run loop is spawned under a fresh wait    *)
(* group and Start returns; on failure stopController() is called and the  *)
(* rollback awaits the import.                                             *)
StartConstruct(c) ==
    /\ pc[c] = "start_construct"
    /\ \/ /\ controller' = controllerCtx
          /\ controllerWaitGroup' = controllerCtx
          /\ runLoops' = runLoops \cup {controllerCtx}
          /\ Return(c)
          /\ UNCHANGED cancelled
       \/ /\ cancelled' = cancelled \cup {controllerCtx}
          /\ pc' = [pc EXCEPT ![c] = "start_rollback"]
          /\ UNCHANGED << controllerMutex, controller, controllerWaitGroup,
                          runLoops >>
    /\ UNCHANGED << controllerCtx, embeddedServerListWaitGroup, importTasks,
                    dataStoreOpen, hasServerEntries, noticeWriter, contexts, proxyVars >>

\* embeddedServerListWaitGroup.Wait(); CloseDataStore(); return the error.
StartRollback(c) ==
    /\ pc[c] = "start_rollback"
    /\ embeddedServerListWaitGroup \notin importTasks
    /\ dataStoreOpen' = FALSE
    /\ Return(c)
    /\ UNCHANGED << controller, controllerCtx, cancelled,
                    embeddedServerListWaitGroup, controllerWaitGroup,
                    importTasks, runLoops, hasServerEntries, noticeWriter,
                    contexts, proxyVars >>

-----------------------------------------------------------------------------
(***************************************************************************)
(* Stop                                                                    *)
(***************************************************************************)

StopNotRunning(c) ==
    /\ pc[c] = "stop"
    /\ controller = 0
    /\ Return(c)
    /\ UNCHANGED << controller, controllerCtx, cancelled,
                    embeddedServerListWaitGroup, controllerWaitGroup,
                    importTasks, runLoops, dataStoreOpen, hasServerEntries,
                    noticeWriter, contexts, proxyVars >>

\* A Stop that forgets to call stopController() (a plausible regression).
StopCancelForgotten(c) ==
    /\ pc[c] = "stop"
    /\ controller # 0
    /\ pc' = [pc EXCEPT ![c] = "stop_await_run"]
    /\ UNCHANGED << controllerMutex, controller, controllerCtx, cancelled,
                    embeddedServerListWaitGroup, controllerWaitGroup,
                    importTasks, runLoops, dataStoreOpen, hasServerEntries,
                    noticeWriter, contexts, proxyVars >>

\* stopController()
StopCancel(c) ==
    /\ pc[c] = "stop"
    /\ controller # 0
    /\ cancelled' = cancelled \cup {controllerCtx}
    /\ pc' = [pc EXCEPT ![c] = "stop_await_run"]
    /\ UNCHANGED << controllerMutex, controller, controllerCtx,
                    embeddedServerListWaitGroup, controllerWaitGroup,
                    importTasks, runLoops, dataStoreOpen, hasServerEntries,
                    noticeWriter, contexts, proxyVars >>

\* controllerWaitGroup.Wait()
StopAwaitRun(c) ==
    /\ pc[c] = "stop_await_run"
    /\ controllerWaitGroup \notin runLoops
    /\ pc' = [pc EXCEPT ![c] = "stop_await_import"]
    /\ UNCHANGED << controllerMutex, controller, controllerCtx, cancelled,
                    embeddedServerListWaitGroup, controllerWaitGroup,
                    importTasks, runLoops, dataStoreOpen, hasServerEntries,
                    noticeWriter, contexts, proxyVars >>

(* The clean-up after the waits: CloseDataStore, clear controller,         *)
(* controllerCtx, stopController and controllerWaitGroup (not              *)
(* embeddedServerListWaitGroup), restore the stderr notice writer.         *)
StopCleanup(c) ==
    /\ dataStoreOpen' = FALSE
    /\ controller' = 0
    /\ controllerCtx' = 0
    /\ controllerWaitGroup' = 0
    /\ noticeWriter' = "stderr"
    /\ Return(c)
    /\ UNCHANGED << cancelled, embeddedServerListWaitGroup, importTasks,
                    runLoops, hasServerEntries, contexts, proxyVars >>

\* A Stop that closes the datastore without awaiting the import (regression).
StopSkipImportWait(c) ==
    /\ pc[c] = "stop_await_import"
    /\ StopCleanup(c)

\* embeddedServerListWaitGroup.Wait(), then the clean-up.
StopAwaitImport(c) ==
    /\ pc[c] = "stop_await_import"
    /\ embeddedServerListWaitGroup \notin importTasks
    /\ StopCleanup(c)

-----------------------------------------------------------------------------
(***************************************************************************)
(* ReconnectTunnel, NetworkChanged, SetDynamicConfig, ExportExchangePayload *)
(* and ImportExchangePayload: with no Controller they return at once (a    *)
(* zero value); otherwise they call into the Controller holding the lock.  *)
(***************************************************************************)

ControlNotRunning(c) ==
    /\ pc[c] = "control"
    /\ controller = 0
    /\ Return(c)
    /\ UNCHANGED << controller, controllerCtx, cancelled,
                    embeddedServerListWaitGroup, controllerWaitGroup,
                    importTasks, runLoops, dataStoreOpen, hasServerEntries,
                    noticeWriter, contexts, proxyVars >>

ControlDelegate(c) ==
    /\ pc[c] = "control"
    /\ controller # 0
    /\ pc' = [pc EXCEPT ![c] = "control_call"]
    /\ UNCHANGED << controllerMutex, controller, controllerCtx, cancelled,
                    embeddedServerListWaitGroup, controllerWaitGroup,
                    importTasks, runLoops, dataStoreOpen, hasServerEntries,
                    noticeWriter, contexts, proxyVars >>

(* The Controller call returns.  ImportExchangePayload may store a server  *)
(* entry; SetDynamicConfig hands the Controller the authorizations split   *)
(* from the host's space-delimited string.                                 *)
ControlReturn(c) ==
    /\ pc[c] = "control_call"
    /\ \/ /\ \E imported \in BOOLEAN :
             hasServerEntries' = (hasServerEntries \/ imported)
          /\ UNCHANGED dynamicConfig
       \/ /\ \E list \in AuthInputs :
             dynamicConfig' = [in |-> list, out |-> SplitAuthorizations(list)]
          /\ UNCHANGED hasServerEntries
    /\ Return(c)
    /\ UNCHANGED << controller, controllerCtx, cancelled,
                    embeddedServerListWaitGroup, controllerWaitGroup,
                    importTasks, runLoops, dataStoreOpen, noticeWriter,
                    contexts, providerMutex, callback, dnsServers >>

-----------------------------------------------------------------------------
(***************************************************************************)
(* The goroutines                                                          *)
(***************************************************************************)

(* ImportEmbeddedServerEntries runs to the end, fails or is interrupted by *)
(* the cancelled context; whatever it stored before stopping stays stored. *)
(* On success embeddedServerListWaitGroup.Done(); on an error NoticeError  *)
(* goes through the notice writer, the provider's while an import runs,    *)
(* and Done follows when the notice returns.                               *)
ImportTask(g) ==
    /\ g \in importTasks
    /\ callback[<<"import", g>>] = "none"
    /\ \E stored \in BOOLEAN :
          hasServerEntries' = (hasServerEntries \/ stored)
    /\ \/ /\ importTasks' = importTasks \ {g}
          /\ UNCHANGED callback
       \/ /\ CallProvider(<<"import", g>>)
          /\ UNCHANGED importTasks
    /\ UNCHANGED << controllerMutex, pc, controller, controllerCtx, cancelled,
                    embeddedServerListWaitGroup, controllerWaitGroup,
                    runLoops, dataStoreOpen, noticeWriter, contexts,
                    providerMutex, dynamicConfig, dnsServers >>

(* While it runs, Controller.Run calls the provider (connectivity, network *)
(* ID, DNS servers, device binding, notices) through the proxy.            *)
RunLoopCall(g) ==
    /\ g \in runLoops
    /\ g \notin cancelled
    /\ callback[<<"run", g>>] = "none"
    /\ CallProvider(<<"run", g>>)
    /\ UNCHANGED << controllerMutex, pc, controller, controllerCtx, cancelled,
                    embeddedServerListWaitGroup, controllerWaitGroup,
                    importTasks, runLoops, dataStoreOpen, hasServerEntries,
                    noticeWriter, contexts, providerMutex, dynamicConfig,
                    dnsServers >>

\* controller.Run(controllerCtx) returns once its context is cancelled.
RunLoop(g) ==
    /\ g \in runLoops
    /\ callback[<<"run", g>>] = "none"
    /\ g \in cancelled
    /\ runLoops' = runLoops \ {g}
    /\ UNCHANGED << controllerMutex, pc, controller, controllerCtx, cancelled,
                    embeddedServerListWaitGroup, controllerWaitGroup,
                    importTasks, dataStoreOpen, hasServerEntries, noticeWriter,
                    contexts, proxyVars >>

-----------------------------------------------------------------------------
(***************************************************************************)
(* mutexVaipnProvider: every method is p.Lock(); defer p.Unlock(); call    *)
(* the host.  The host returns; it does not call back into psi.           *)
(***************************************************************************)

\* p.Lock(): the actor waits until the mutex is free, then calls the host.
ProxyLock(a) ==
    /\ callback[a] = "waiting"
    /\ providerMutex = NoCaller
    /\ providerMutex' = a
    /\ callback' = [callback EXCEPT ![a] = "inside"]
    /\ UNCHANGED << controllerMutex, pc, controller, controllerCtx, cancelled,
                    embeddedServerListWaitGroup, controllerWaitGroup,
                    importTasks, runLoops, dataStoreOpen, hasServerEntries,
                    noticeWriter, contexts, dynamicConfig, dnsServers >>

\* The host call returns and the deferred p.Unlock() runs.
ProxyUnlock(a) == providerMutex' = NoCaller

ProxyReturn(a) ==
    /\ callback[a] = "inside"
    /\ ProxyUnlock(a)
    /\ callback' = [callback EXCEPT ![a] = "none"]

(* The notice returns to Start: after NoticeBuildInfo it opens the         *)
(* datastore, after "awaiting ..." it waits for the import.                *)
ProxyReturnCaller(c) ==
    /\ ProxyReturn(c)
    /\ pc' = [pc EXCEPT ![c] = IF pc[c] = "start_buildinfo" THEN "start_open"
                                                          ELSE "start_await_import"]
    /\ UNCHANGED << controllerMutex, controller, controllerCtx, cancelled,
                    embeddedServerListWaitGroup, controllerWaitGroup,
                    importTasks, runLoops, dataStoreOpen, hasServerEntries,
                    noticeWriter, contexts, dynamicConfig, dnsServers >>

\* The import's NoticeError returns; the goroutine returns and Done runs.
ProxyReturnImport(g) ==
    /\ ProxyReturn(<<"import", g>>)
    /\ importTasks' = importTasks \ {g}
    /\ UNCHANGED << controllerMutex, pc, controller, controllerCtx, cancelled,
                    embeddedServerListWaitGroup, controllerWaitGroup,
                    runLoops, dataStoreOpen, hasServerEntries, noticeWriter,
                    contexts, dynamicConfig, dnsServers >>

(* A run-loop call returns.  GetDNSServers (555-563) splits the host's     *)
(* comma-delimited string inside the lock.                                 *)
ProxyReturnRun(g) ==
    /\ ProxyReturn(<<"run", g>>)
    /\ \/ UNCHANGED dnsServers
       \/ \E str \in DNSInputs :
             dnsServers' = [in |-> str, out |-> SplitDNSServers(str)]
    /\ UNCHANGED << controllerMutex, pc, controller, controllerCtx, cancelled,
                    embeddedServerListWaitGroup, controllerWaitGroup,
                    importTasks, runLoops, dataStoreOpen, hasServerEntries,
                    noticeWriter, contexts, dynamicConfig >>

-----------------------------------------------------------------------------
\* The steps a caller takes once inside a call (it holds controllerMutex).
CallerStep(c) ==
    \/ StartAlreadyRunning(c)
    \/ StartSetup(c)
    \/ StartOpen(c)
    \/ StartCheckEntries(c)
    \/ StartAwaitImport(c)
    \/ StartConstruct(c)
    \/ StartRollback(c)
    \/ StopNotRunning(c)
    \/ StopCancel(c)
    \/ StopAwaitRun(c)
    \/ StopAwaitImport(c)
    \/ ControlNotRunning(c)
    \/ ControlDelegate(c)
    \/ ControlReturn(c)

Next ==
    \/ \E c \in Callers : Lock(c) \/ CallerStep(c)
    \/ \E g \in Gens : ImportTask(g) \/ RunLoop(g) \/ RunLoopCall(g)
    \/ \E a \in Actors : ProxyLock(a)
    \/ \E c \in Callers : ProxyReturnCaller(c)
    \/ \E g \in Gens : ProxyReturnImport(g) \/ ProxyReturnRun(g)

(* Fairness: a thread inside a call keeps running (its waits are on        *)
(* goroutines, which the Go scheduler runs); the import finishes and the   *)
(* run loop honours cancellation.  Whether the host calls at all is its    *)
(* own choice, so Lock carries no fairness; how often the run loop calls   *)
(* the provider is the Controller's, so RunLoopCall carries none either.   *)
(* The proxy's sync.Mutex is starvation-free, so a waiting actor gets it   *)
(* however often it is released (strong fairness), and the host returns   *)
(* from every callback.                                                    *)
Fairness ==
    /\ \A c \in Callers : WF_vars(CallerStep(c)) /\ WF_vars(ProxyReturnCaller(c))
    /\ \A g \in Gens : /\ WF_vars(ImportTask(g)) /\ WF_vars(RunLoop(g))
                       /\ WF_vars(ProxyReturnImport(g)) /\ WF_vars(ProxyReturnRun(g))
    /\ \A a \in Actors : SF_vars(ProxyLock(a))

Spec == Init /\ [][Next]_vars /\ Fairness

-----------------------------------------------------------------------------
(***************************************************************************)
(* Properties                                                              *)
(***************************************************************************)

(* The datastore is never closed under a live goroutine: while the import  *)
(* or Controller.Run of any Start may still touch it, it is open.  Broken  *)
(* if Stop or Start's rollback closes it before awaiting both wait groups. *)
StoreOpenWhileTasksLive ==
    importTasks \cup runLoops # {} => dataStoreOpen

(* At most one engine: every live run loop belongs to the Controller the   *)
(* singleton holds, so a second Start cannot spawn a run loop beside a     *)
(* running one, and Stop never forgets one it did not await.               *)
SingleEngine ==
    \A g \in runLoops : g = controller

(* Start never constructs the Controller over an empty datastore while the *)
(* embedded server-list import it spawned is still running.                *)
ConstructOnlyWithCandidates ==
    \A c \in Callers :
        pc[c] = "start_construct" =>
            \/ hasServerEntries
            \/ embeddedServerListWaitGroup \notin importTasks

(* Every Start, Stop and control call that has taken controllerMutex       *)
(* returns: no wait in Start or Stop blocks for ever.                      *)
EveryCallReturns ==
    \A c \in Callers : pc[c] # "idle" ~> pc[c] = "idle"

(* Once Stop has returned, or a failed Start rolled back, no goroutine of   *)
(* the engine is calling into the host's provider or waiting to: the spec  *)
(* lets the host release the provider then.  Needs Stop to await the run   *)
(* loop, which may be inside a callback, and the import, whose error       *)
(* notice goes through the proxy, before it returns.                       *)
ProviderQuiescentAfterStop ==
    (controller = 0 /\ \A c \in Callers : pc[c] = "idle")
        => /\ providerMutex = NoCaller
           /\ \A a \in Actors : callback[a] = "none"

(* The lists that cross the gomobile boundary as strings are decoded as   *)
(* the host encoded them: the authorizations the Controller gets from      *)
(* SetDynamicConfig and the servers GetDNSServers returns, joined with the *)
(* delimiter, give the host's string back, hold no delimiter, and are      *)
(* empty exactly for "".                                                   *)
ListsDecoded ==
    /\ IsListEncoding(dynamicConfig.in, dynamicConfig.out, " ")
    /\ IsListEncoding(dnsServers.in, dnsServers.out, ",")

(* The spec: a failed Start is fully rolled back, and once no engine runs  *)
(* and no call is in progress the default notice writer is back, so the    *)
(* host's provider can be collected.  Start installs the provider's writer *)
(* before OpenDataStore and NewController, whose failures do not undo it.  *)
NoticeWriterReleased ==
    (controller = 0 /\ \A c \in Callers : pc[c] = "idle")
        => noticeWriter = "stderr"

(* Engine implements the lifecycle of EngineLifecycle: the singleton       *)
(* controller is the abstract engine and the contexts created are its     *)
(* contexts.  Every step of every interleaving of Start, Stop, the control *)
(* calls and the goroutines is a step of the atomic lifecycle or leaves    *)
(* both unchanged: no context is created while an engine runs, and an      *)
(* engine only comes up under the newest context.                          *)
Lifecycle == INSTANCE EngineLifecycle WITH engine <- controller, started <- contexts

RefinesLifecycle == Lifecycle!Spec

=============================================================================
