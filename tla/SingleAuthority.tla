---------------------------- MODULE SingleAuthority ----------------------------
(***************************************************************************)
(* What the supervised deployment promises.  Requests are sent to the       *)
(* generation that has authority, and authority changes hands only when no  *)
(* caller waits for an answer of its holder any more.  A holder may go on   *)
(* with requests their callers have given up, even after it has lost its    *)
(* authority, but it has ended with them before authority changes again.    *)
(* SupervisorProxy implements this.                                         *)
(***************************************************************************)
CONSTANTS
  Request, Gen,
  MaySeize   \* may a generation take authority from one that is killed?

VARIABLES
  owner,  \* the generation with authority, or 0
  waits,  \* pairs <<generation, request>>: a caller waits for its answer
  late    \* pairs <<generation, request>>: held by the generation, given up by the caller

authorityVars == <<owner, waits, late>>

AuthorityInit == owner = 0 /\ waits = {} /\ late = {}

Send(r) ==
  /\ owner # 0
  /\ waits' = waits \cup {<<owner, r>>} /\ late' = late \ {<<owner, r>>}
  /\ UNCHANGED owner

\* Requests are answered or given up, what was given up ends, generations die.
Part ==
  /\ waits' \in SUBSET waits
  /\ late' \in SUBSET (late \cup (waits \ waits'))
  /\ UNCHANGED owner

Hand(g) ==
  /\ waits = {} /\ \A e \in late : e[1] = owner
  /\ owner' = g /\ UNCHANGED <<waits, late>>

\* The holder is killed for a generation that had authority before.
Seize(g) ==
  /\ MaySeize
  /\ owner' = g /\ waits' = {} /\ late' = {e \in late : e[1] = g}

\* Shutdown takes the authority away together with what the holder still did.
Abdicate == owner' = 0 /\ waits = {} /\ waits' = {} /\ late' = {e \in late : e[1] # owner}

AuthorityNext ==
  \/ \E r \in Request : Send(r)
  \/ Part
  \/ \E g \in Gen : Hand(g) \/ Seize(g)
  \/ Abdicate

AuthoritySpec == AuthorityInit /\ [][AuthorityNext]_authorityVars

=============================================================================
