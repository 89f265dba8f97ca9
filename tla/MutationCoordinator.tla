----------------------- MODULE MutationCoordinator -----------------------
(***************************************************************************)
(* The provider-local mutation authority (mutation_coordinator.py): one    *)
(* asyncio.Lock that every COM and native writer takes, first come first   *)
(* served, and one quarantine that, once set, stays set until the provider *)
(* process is restarted.  The modules of the two lanes say when the lock   *)
(* is taken and released; here is what taking and releasing it does.       *)
(***************************************************************************)
EXTENDS Naturals, Sequences, FiniteSets

CONSTANTS Calls,   \* the tool calls a behaviour may contain
          None     \* no call, no document, no application

VARIABLES line,          \* coroutines suspended in asyncio.Lock.acquire, oldest first
          holder,        \* the call inside "async with writer(lane)", or None
          quarantined    \* _quarantine_reason is not None

coordinatorVars == <<line, holder, quarantined>>

CoordinatorInit ==
  /\ line = <<>>
  /\ holder = None
  /\ quarantined = FALSE

EnsureWritable == ~quarantined

\* acquire() returns without suspending: nobody holds the lock or waits for it.
LockFree == holder = None /\ line = <<>>

\* The lock is free and the oldest waiter is the one that wakes up.
IsNext(c) == holder = None /\ line # <<>> /\ Head(line) = c

\* The line without its i-th waiter.
Without(i) == [j \in 1 .. Len(line) - 1 |-> IF j < i THEN line[j] ELSE line[j + 1]]

\* The finally clause of writer(): a call that does not hold the lock frees nothing.
Release(c) == holder' = IF holder = c THEN None ELSE holder

\* quarantine(): the first reason is kept and nothing clears it.
Quarantine == quarantined' = TRUE
=============================================================================
