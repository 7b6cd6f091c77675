---------------------------- MODULE AppendOnlyLog ----------------------------
(***************************************************************************)
(* What the audit ledger promises its readers, whatever store is behind it *)
(* (core/trace_ledger.py: "append-only ... nothing is ever updated or      *)
(* deleted").  `log` is everything recorded through each writer, in order, *)
(* and `durable` what the store holds of it: always a prefix of the log,   *)
(* and only ever growing.                                                  *)
(***************************************************************************)
EXTENDS Naturals, Sequences

CONSTANTS
    Writers,    \* who records
    Entries     \* what can be recorded

VARIABLES log, durable

Init ==
    /\ log = [w \in Writers |-> << >>]
    /\ durable = [w \in Writers |-> << >>]

\* An entry is recorded; it need not be durable yet.
Accept(w, e) ==
    /\ log' = [log EXCEPT ![w] = Append(@, e)]
    /\ UNCHANGED durable

\* The store catches up with some more of the log, never skipping an entry.
Persist(w) ==
    \E n \in Len(durable[w]) + 1 .. Len(log[w]) :
        /\ durable' = [durable EXCEPT ![w] = SubSeq(log[w], 1, n)]
        /\ UNCHANGED log

Next == \E w \in Writers : (\E e \in Entries : Accept(w, e)) \/ Persist(w)

Spec == Init /\ [][Next]_<<log, durable>>
==============================================================================
