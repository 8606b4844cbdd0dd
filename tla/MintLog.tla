------------------------------ MODULE MintLog ------------------------------
(***************************************************************************)
(* What a collection promises to whoever reads it between transactions,    *)
(* an indexer or a buyer: the tokens are minted one after another, what    *)
(* was minted to whom never changes, and an allowance that is good for one *)
(* mint is used once.  Mints that call out, nest and are undone have no    *)
(* place here: a transaction that mints is one step.                       *)
(***************************************************************************)
EXTENDS Naturals, Sequences

CONSTANTS
    Entries,    \* what the log may say of a token
    OnceOnly    \* the entries that stand for an allowance good for one mint

VARIABLE log    \* log[id]: what is known of token id

AppearsOnce(entry, seq) == \A i, j \in DOMAIN seq : seq[i] = entry /\ seq[j] = entry => i = j

Extends(longer, shorter) ==
    /\ Len(shorter) <= Len(longer)
    /\ \A i \in DOMAIN shorter : longer[i] = shorter[i]

Init == log = <<>>

\* A transaction mints any number of tokens.
Next ==
    /\ log' \in Seq(Entries)
    /\ Extends(log', log)
    /\ \A entry \in OnceOnly : AppearsOnce(entry, log')

Spec == Init /\ [][Next]_log
=============================================================================
