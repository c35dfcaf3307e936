------------------------------ MODULE LiveLease ------------------------------
(***************************************************************************)
(* What the field-ingest service promises about its single live slot, with *)
(* no database, thread or process in sight.  A key (a session and an epoch *)
(* number) may hold the slot; a key is granted at most once, ever; and an  *)
(* SRT receiver the server owns runs only for the key that holds the slot. *)
(***************************************************************************)
CONSTANTS
  Key,          \* <<session, epoch>> pairs
  NoKey         \* nobody holds the slot

VARIABLES
  holder,       \* the key that holds the live slot
  granted,      \* every key that ever held it
  serving       \* the keys an owned receiver is running for

leaseVars == <<holder, granted, serving>>

Init ==
  /\ holder = NoKey
  /\ granted = {}
  /\ serving = {}

Grant(k) ==
  /\ holder = NoKey
  /\ k \notin granted
  /\ holder' = k
  /\ granted' = granted \cup {k}
  /\ UNCHANGED serving

Serve ==
  /\ holder # NoKey
  /\ serving = {}
  /\ serving' = {holder}
  /\ UNCHANGED <<holder, granted>>

Cease ==
  /\ serving' = {}
  /\ UNCHANGED <<holder, granted>>

(* The slot is given up only when no owned receiver is left running.       *)
Release ==
  /\ serving = {}
  /\ holder' = NoKey
  /\ UNCHANGED <<granted, serving>>

Next ==
  \/ \E k \in Key : Grant(k)
  \/ Serve
  \/ Cease
  \/ Release

Spec == Init /\ [][Next]_leaseVars
=============================================================================
