------------------------------ MODULE Requests ------------------------------
(***************************************************************************)
(* What the handlers of the API have in common: every request runs on a    *)
(* goroutine of its own, beside all others, and dies with the engine.      *)
(***************************************************************************)
EXTENDS Naturals, FiniteSets

CONSTANTS
    Clients,       \* request goroutines
    MaxCrashes     \* bound on the crashes of the engine

ASSUME RequestsAssumption == IsFiniteSet(Clients) /\ MaxCrashes \in Nat

VARIABLE crashes   \* history: how often the engine died

RequestsInit == crashes = 0
EngineDies == crashes < MaxCrashes /\ crashes' = crashes + 1
=============================================================================
