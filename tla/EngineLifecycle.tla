--------------------------- MODULE EngineLifecycle ---------------------------
(***************************************************************************)
(* What the engine lifecycle coordinator promises, with every psi call     *)
(* atomic: at most one engine runs; a new controller context is created    *)
(* only while none runs, and an engine runs under the newest context;      *)
(* Stop ends it.  Contexts are numbered 1, 2, ... as created.              *)
(***************************************************************************)
EXTENDS Naturals

CONSTANT MaxStarts

VARIABLES
    engine,    \* context of the running engine, 0 when none runs
    started    \* contexts created so far

Init == engine = 0 /\ started = 0

\* A Start creates a context (it may still fail after this).
NewContext ==
    /\ engine = 0 /\ started < MaxStarts
    /\ started' = started + 1
    /\ UNCHANGED engine

\* The Start that created the newest context brings its engine up.
Run ==
    /\ engine = 0 /\ started > 0
    /\ engine' = started
    /\ UNCHANGED started

\* Stop ends the running engine.
Halt ==
    /\ engine # 0
    /\ engine' = 0
    /\ UNCHANGED started

Spec == Init /\ [][NewContext \/ Run \/ Halt]_<< engine, started >>

=============================================================================
