--------------------------- MODULE BoundedStreams ---------------------------
(***************************************************************************)
(* What TwoPhaseScheduler promises its callers, with no queues, tasks,     *)
(* semaphore or sentinel: at most MaxConcurrency requests decode at once;  *)
(* a reader sees the items of its request in order; it is told "ok" or     *)
(* "error" only when it has seen everything and decoding ended that way;   *)
(* decoding is withdrawn only from a reader that has turned away.          *)
(***************************************************************************)
EXTENDS Integers, Sequences, FiniteSets

CONSTANTS Requests, MaxConcurrency

VARIABLES phase,   \* of decoding
          reader,  \* what the caller of run() knows
          made,    \* the number of items decoding has made
          seen     \* the items the reader has been given

vars == <<phase, reader, made, seen>>

Phases == {"idle", "queued", "running", "complete", "failed", "withdrawn"}
Readers == {"open", "turned", "ok", "error", "gone"}

Running == {r \in Requests : phase[r] = "running"}

TypeOK == /\ phase \in [Requests -> Phases]
          /\ reader \in [Requests -> Readers]
          /\ made \in [Requests -> Nat]
          /\ seen \in [Requests -> Seq(Nat)]

Init == /\ phase = [r \in Requests |-> "idle"]
        /\ reader = [r \in Requests |-> "open"]
        /\ made = [r \in Requests |-> 0]
        /\ seen = [r \in Requests |-> <<>>]

Move(r, from, to) == /\ phase[r] = from
                     /\ phase' = [phase EXCEPT ![r] = to]

Accept(r) == /\ reader[r] = "open"
             /\ Move(r, "idle", "queued")
             /\ UNCHANGED <<reader, made, seen>>

Reject(r) == /\ reader[r] = "open" /\ phase[r] = "idle"
             /\ reader' = [reader EXCEPT ![r] = "error"]
             /\ UNCHANGED <<phase, made, seen>>

Admit(r) == /\ Cardinality(Running) < MaxConcurrency
            /\ Move(r, "queued", "running")
            /\ UNCHANGED <<reader, made, seen>>

Make(r) == /\ phase[r] = "running"
           /\ made' = [made EXCEPT ![r] = @ + 1]
           /\ UNCHANGED <<phase, reader, seen>>

End(r) == /\ \E how \in {"complete", "failed"} : Move(r, "running", how)
          /\ UNCHANGED <<reader, made, seen>>

Withdraw(r) == /\ reader[r] \in {"turned", "gone"}
               /\ \E from \in {"queued", "running"} : Move(r, from, "withdrawn")
               /\ UNCHANGED <<reader, made, seen>>

See(r) == /\ reader[r] = "open"
          /\ Len(seen[r]) < made[r]
          /\ seen' = [seen EXCEPT ![r] = Append(@, Len(@) + 1)]
          /\ UNCHANGED <<phase, reader, made>>

Conclude(r) == /\ reader[r] = "open"
               /\ Len(seen[r]) = made[r]
               /\ \/ /\ phase[r] = "complete"
                     /\ reader' = [reader EXCEPT ![r] = "ok"]
                  \/ /\ phase[r] = "failed"
                     /\ reader' = [reader EXCEPT ![r] = "error"]
               /\ UNCHANGED <<phase, made, seen>>

TurnAway(r) == /\ reader[r] \in {"open", "turned"}
               /\ phase[r] # "idle"
               /\ \E to \in {"turned", "gone"} : reader' = [reader EXCEPT ![r] = to]
               /\ UNCHANGED <<phase, made, seen>>

Next == \E r \in Requests :
            \/ Accept(r) \/ Reject(r) \/ Admit(r) \/ Make(r) \/ End(r)
            \/ Withdraw(r) \/ See(r) \/ Conclude(r) \/ TurnAway(r)

Spec == Init /\ [][Next]_vars
=============================================================================
