------------------------------ MODULE Feedback ------------------------------
(***************************************************************************)
(* The feedback upload coordinator of MobileLibrary/psi/psi.go:            *)
(* StartSendFeedback and StopSendFeedback around the package globals       *)
(* sendFeedbackCtx / stopSendFeedback / sendFeedbackWaitGroup, guarded by *)
(* sendFeedbackMutex, and the upload goroutine each successful start      *)
(* spawns.                                                                 *)
(*                                                                         *)
(* StartSendFeedback first calls StopSendFeedback, which takes and        *)
(* releases the mutex, and then takes the mutex again for its own body.    *)
(* Contexts are numbered 1, 2, ... (0 is nil); sendFeedbackCtx and        *)
(* stopSendFeedback are always set and cleared together, so one variable   *)
(* stands for both.  A nil-pointer panic ends the process; the host may    *)
(* start it again with every global back at nil.                          *)
(***************************************************************************)
EXTENDS Naturals, FiniteSets

CONSTANTS
    Callers,     \* host threads calling StartSendFeedback / StopSendFeedback
    NoCaller,    \* model value: sendFeedbackMutex is free
    MaxStarts    \* bound on StartSendFeedback calls in a run

ASSUME /\ NoCaller \notin Callers
       /\ MaxStarts \in Nat \ {0}

Gens == 1..MaxStarts
GenOrNil == 0..MaxStarts

VARIABLES
    sendFeedbackMutex,      \* holder, or NoCaller
    pc,                     \* where each caller is
    stopSendFeedback,       \* generation of sendFeedbackCtx / its cancel, 0 = nil
    sendFeedbackWaitGroup,  \* generation of the wait group, 0 = nil
    cancelled,              \* generations whose context is cancelled
    uploads,                \* generations with a live upload goroutine
    noticeWriter,           \* "stderr" or "feedback" (the host's handler)
    panicked,               \* the process died of a panic
    starts,                 \* StartSendFeedback calls so far
    contexts                \* contexts created so far

vars == << sendFeedbackMutex, pc, stopSendFeedback, sendFeedbackWaitGroup,
           cancelled, uploads, noticeWriter, panicked, starts, contexts >>

(* "stop" and "stop_wait" run inside StopSendFeedback; the "start_" forms  *)
(* are the same code called from StartSendFeedback, which goes on to       *)
(* "start_body" after it.                                                  *)
PCs == {"idle", "stop", "stop_wait", "start_stop", "start_stop_wait",
        "start_body"}

TypeOK ==
    /\ sendFeedbackMutex \in Callers \cup {NoCaller}
    /\ pc \in [Callers -> PCs]
    /\ stopSendFeedback \in GenOrNil
    /\ sendFeedbackWaitGroup \in GenOrNil
    /\ cancelled \subseteq Gens
    /\ uploads \subseteq Gens
    /\ noticeWriter \in {"stderr", "feedback"}
    /\ panicked \in BOOLEAN
    /\ starts \in 0..MaxStarts
    /\ contexts \in 0..starts

Init ==
    /\ sendFeedbackMutex = NoCaller
    /\ pc = [c \in Callers |-> "idle"]
    /\ stopSendFeedback = 0
    /\ sendFeedbackWaitGroup = 0
    /\ cancelled = {}
    /\ uploads = {}
    /\ noticeWriter = "stderr"
    /\ panicked = FALSE
    /\ starts = 0
    /\ contexts = 0

-----------------------------------------------------------------------------
\* Where a caller goes when StopSendFeedback returns.
AfterStop(c) == IF pc[c] \in {"stop", "stop_wait"} THEN "idle" ELSE "start_body"

\* The host calls StartSendFeedback (whose first act is StopSendFeedback's
\* Lock) or StopSendFeedback.
Call(c) ==
    /\ ~panicked
    /\ pc[c] = "idle"
    /\ sendFeedbackMutex = NoCaller
    /\ \/ /\ starts < MaxStarts
          /\ starts' = starts + 1
          /\ pc' = [pc EXCEPT ![c] = "start_stop"]
       \/ /\ pc' = [pc EXCEPT ![c] = "stop"]
          /\ UNCHANGED starts
    /\ sendFeedbackMutex' = c
    /\ UNCHANGED << stopSendFeedback, sendFeedbackWaitGroup, cancelled,
                    uploads, noticeWriter, panicked, contexts >>

\* StopSendFeedback with stopSendFeedback == nil: unlock and return.
StopNothing(c) ==
    /\ ~panicked
    /\ pc[c] \in {"stop", "start_stop"}
    /\ stopSendFeedback = 0
    /\ pc' = [pc EXCEPT ![c] = AfterStop(c)]
    /\ sendFeedbackMutex' = NoCaller
    /\ UNCHANGED << stopSendFeedback, sendFeedbackWaitGroup, cancelled,
                    uploads, noticeWriter, panicked, starts, contexts >>

(* sendFeedbackWaitGroup.Wait(): a nil wait group is a nil-pointer        *)
(* dereference, and the process dies.                                      *)
StopWaitSteps(c) ==
    /\ \/ /\ sendFeedbackWaitGroup # 0
          /\ pc' = [pc EXCEPT ![c] = IF pc[c] = "stop" THEN "stop_wait"
                                                       ELSE "start_stop_wait"]
          /\ UNCHANGED panicked
       \/ /\ sendFeedbackWaitGroup = 0
          /\ panicked' = TRUE
          /\ UNCHANGED pc
    /\ UNCHANGED << sendFeedbackMutex, stopSendFeedback, sendFeedbackWaitGroup,
                    uploads, noticeWriter, starts, contexts >>

\* A StopSendFeedback that waits without cancelling (a plausible regression).
StopCancelForgotten(c) ==
    /\ ~panicked
    /\ pc[c] \in {"stop", "start_stop"}
    /\ stopSendFeedback # 0
    /\ UNCHANGED cancelled
    /\ StopWaitSteps(c)

\* stopSendFeedback(); sendFeedbackWaitGroup.Wait()
StopCancel(c) ==
    /\ ~panicked
    /\ pc[c] \in {"stop", "start_stop"}
    /\ stopSendFeedback # 0
    /\ cancelled' = cancelled \cup {stopSendFeedback}
    /\ StopWaitSteps(c)

(* The wait returns: clear sendFeedbackCtx, stopSendFeedback and           *)
(* sendFeedbackWaitGroup, restore the stderr notice writer, unlock.        *)
StopAwait(c) ==
    /\ ~panicked
    /\ pc[c] \in {"stop_wait", "start_stop_wait"}
    /\ sendFeedbackWaitGroup \notin uploads
    /\ stopSendFeedback' = 0
    /\ sendFeedbackWaitGroup' = 0
    /\ noticeWriter' = "stderr"
    /\ pc' = [pc EXCEPT ![c] = AfterStop(c)]
    /\ sendFeedbackMutex' = NoCaller
    /\ UNCHANGED << cancelled, uploads, panicked, starts, contexts >>

(* StartSendFeedback's body, under a second Lock: create the context and   *)
(* its cancel, install the handler's notice writer, LoadConfig, bind the   *)
(* callbacks, clear DNSResolverAlternateServers, Commit.  On an error it   *)
(* returns with the context already stored; otherwise it spawns the upload *)
(* under a fresh wait group.                                               *)
StartBodySteps(c) ==
    /\ stopSendFeedback' = contexts + 1
    /\ contexts' = contexts + 1
    /\ noticeWriter' = "feedback"
    /\ \/ UNCHANGED << sendFeedbackWaitGroup, uploads >>   \* config error
       \/ /\ sendFeedbackWaitGroup' = contexts + 1
          /\ uploads' = uploads \cup {contexts + 1}
    /\ pc' = [pc EXCEPT ![c] = "idle"]
    /\ sendFeedbackMutex' = NoCaller
    /\ UNCHANGED << cancelled, panicked, starts >>

\* A StartSendFeedback that skips its opening StopSendFeedback (regression).
StartWithoutStop(c) ==
    /\ ~panicked
    /\ pc[c] = "start_stop"
    /\ StartBodySteps(c)

StartBody(c) ==
    /\ ~panicked
    /\ pc[c] = "start_body"
    /\ sendFeedbackMutex = NoCaller
    /\ StartBodySteps(c)

(* The upload goroutine: vaipn.SendFeedback returns, then                  *)
(* SendFeedbackCompleted(err) runs and the wait group is Done.  It may     *)
(* finish on its own at any time, and it does finish once cancelled.       *)
UploadCompletes(g) ==
    /\ ~panicked
    /\ g \in uploads
    /\ uploads' = uploads \ {g}
    /\ UNCHANGED << sendFeedbackMutex, pc, stopSendFeedback,
                    sendFeedbackWaitGroup, cancelled, noticeWriter, panicked,
                    starts, contexts >>

UploadCancelled(g) ==
    /\ g \in cancelled
    /\ UploadCompletes(g)

(* The process is started again after a panic: every global is nil and no  *)
(* goroutine survives.                                                     *)
Restart ==
    /\ panicked
    /\ sendFeedbackMutex' = NoCaller
    /\ pc' = [c \in Callers |-> "idle"]
    /\ stopSendFeedback' = 0
    /\ sendFeedbackWaitGroup' = 0
    /\ uploads' = {}
    /\ noticeWriter' = "stderr"
    /\ panicked' = FALSE
    /\ UNCHANGED << cancelled, starts, contexts >>

-----------------------------------------------------------------------------
CallerStep(c) ==
    \/ StopNothing(c)
    \/ StopCancel(c)
    \/ StopAwait(c)
    \/ StartBody(c)

Next ==
    \/ \E c \in Callers : Call(c) \/ CallerStep(c)
    \/ \E g \in Gens : UploadCompletes(g) \/ UploadCancelled(g)
    \/ Restart

(* A thread inside a call keeps running and, Go's mutex being starvation- *)
(* free, gets the mutex back; a cancelled upload stops (cooperative        *)
(* cancellation).  An upload that is not cancelled need not   *)
(* end, the host need not call, and a dead process need not be restarted.  *)
Fairness ==
    /\ \A c \in Callers : SF_vars(CallerStep(c))
    /\ \A g \in Gens : WF_vars(UploadCancelled(g))

Spec == Init /\ [][Next]_vars /\ Fairness

-----------------------------------------------------------------------------
(***************************************************************************)
(* Properties                                                              *)
(***************************************************************************)

(* Single flight: every live upload is the one sendFeedbackWaitGroup and   *)
(* stopSendFeedback refer to, so the next StartSendFeedback or             *)
(* StopSendFeedback cancels and awaits it; no upload is ever orphaned      *)
(* beside a newer one.                                                     *)
UploadStoppable ==
    \A g \in uploads : g = sendFeedbackWaitGroup /\ g = stopSendFeedback

(* Every StartSendFeedback and StopSendFeedback call returns (or the       *)
(* process has died): the wait on the previous upload ends.                *)
FeedbackCallsReturn ==
    \A c \in Callers : pc[c] # "idle" ~> (pc[c] = "idle" \/ panicked)

(* StopSendFeedback never panics: whenever stopSendFeedback is set there   *)
(* is a wait group to wait on.  A StartSendFeedback whose configuration    *)
(* fails leaves stopSendFeedback set and the wait group nil.               *)
NeverPanics ==
    ~panicked

=============================================================================
