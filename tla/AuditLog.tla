------------------------------ MODULE AuditLog ------------------------------
(***************************************************************************)
(* What the audit trail promises, without hashes, locks or transactions:   *)
(* per application an append-only ledger whose oldest part may be trimmed. *)
(* An entry is appended whole and never altered; an external id is not     *)
(* taken twice among the retained entries; trimming takes a prefix, and    *)
(* only entries older than the retention period.                           *)
(***************************************************************************)
EXTENDS Integers, Sequences

CONSTANTS Apps,      \* the applications
          Entries,   \* what can be recorded: external_id, occurred_at, ...
          MinAge     \* no entry younger than this is ever trimmed

VARIABLES ledger,    \* app -> every entry ever accepted, in order
          trimmed,   \* app -> how many of them are gone
          clock      \* the time

vars == <<ledger, trimmed, clock>>

Init == /\ ledger = [a \in Apps |-> << >>]
        /\ trimmed = [a \in Apps |-> 0]
        /\ clock = 0

Retained(a) == (trimmed[a] + 1)..Len(ledger[a])

Record(a, e) ==
    /\ \A i \in Retained(a) : ledger[a][i].external_id # e.external_id
    /\ ledger' = [ledger EXCEPT ![a] = Append(@, e)]
    /\ clock' > clock
    /\ UNCHANGED trimmed

Trim ==
    /\ trimmed' \in [Apps -> Nat]
    /\ \A a \in Apps :
         /\ trimmed[a] <= trimmed'[a] /\ trimmed'[a] <= Len(ledger[a])
         /\ \A i \in (trimmed[a] + 1)..trimmed'[a] :
              ledger[a][i].occurred_at < clock - MinAge
    /\ UNCHANGED <<ledger, clock>>

Wait == clock' > clock /\ UNCHANGED <<ledger, trimmed>>

Next == (\E a \in Apps, e \in Entries : Record(a, e)) \/ Trim \/ Wait

Spec == Init /\ [][Next]_vars
=============================================================================
