----------------------------- MODULE AlertLedger -----------------------------
(***************************************************************************)
(* What the deduplication of pushed alerts promises, whoever pushes them   *)
(* and however the pushes interleave.  Every fingerprint has one entry.    *)
(* It is claimed once, and a claim is settled at most once, with the id    *)
(* of the event made for the alert.  Nothing but a loss of the whole       *)
(* ledger (a restart of a service that keeps it in memory) takes an entry  *)
(* back.                                                                   *)
(***************************************************************************)
CONSTANTS Fps,        \* alert fingerprints
          EventIds,   \* ids an event can have
          Unclaimed,  \* entry of a fingerprint never seen
          NoId,       \* entry of a claimed fingerprint that has no event id
          Volatile    \* TRUE: the ledger lives in memory and a restart loses it

VARIABLE ledger

Entries == {Unclaimed, NoId} \cup EventIds

Init == ledger = [f \in Fps |-> Unclaimed]

Claim(f) == /\ ledger[f] = Unclaimed
            /\ ledger' = [ledger EXCEPT ![f] = NoId]

Settle(f, e) == /\ ledger[f] = NoId
                /\ ledger' = [ledger EXCEPT ![f] = e]

Lose == /\ Volatile
        /\ ledger' = [f \in Fps |-> Unclaimed]

Next == \/ \E f \in Fps : Claim(f) \/ \E e \in EventIds : Settle(f, e)
        \/ Lose

Spec == Init /\ [][Next]_ledger
=============================================================================
