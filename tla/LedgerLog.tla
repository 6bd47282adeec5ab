----------------------------- MODULE LedgerLog ------------------------------
(***************************************************************************)
(* What the ledger promises, without transactions, locks or processes: an  *)
(* append-only log whose unsealed end may be filled in any order, and a    *)
(* chain of sealed prefixes behind which nothing is ever inserted.         *)
(*                                                                         *)
(* The steps are written as relations between the log before and after, so *)
(* that the promise does not depend on who appends or seals.               *)
(***************************************************************************)
EXTENDS Integers

VARIABLES
  log,       \* set of events, each with its seq, key, parent, record and type
  prefixes   \* the sealed prefixes, one per checkpoint

logVars == <<log, prefixes>>

Sealed == UNION prefixes

\* One or more events are appended, each under a key of its own, behind no sealed event,
\* and each successor extends an earlier event of its record that is already in the
\* log and that nothing has followed yet.
AppendEvents ==
  /\ log \subseteq log'
  /\ \A e \in log' \ log :
       /\ \A f \in Sealed : f.seq < e.seq
       /\ \A f \in log' : f.key = e.key \/ f.seq = e.seq => f = e
       /\ IF e.parent = 0 THEN e.record = e.seq
          ELSE /\ \E p \in log :
                    /\ p.seq = e.parent /\ p.seq < e.seq
                    /\ p.record = e.record /\ p.type # "revocation"
               /\ \A f \in log' : f.parent = e.parent => f = e
  /\ UNCHANGED prefixes

\* A longer prefix of the log is sealed.
SealPrefix ==
  LET prefix == UNION prefixes'
  IN  /\ prefixes' = prefixes \cup {prefix}
      /\ Sealed \subseteq prefix /\ prefix # Sealed
      /\ prefix \subseteq log
      /\ \A e \in prefix : \A f \in log : f.seq <= e.seq => f \in prefix
      /\ UNCHANGED log

Init == log = {} /\ prefixes = {}

\* What follows from the promise and a reader relies on: every sealed prefix is
\* the beginning of the log, whatever is appended later.
PrefixesAreClosed ==
  \A p \in prefixes : p \subseteq log /\ \A e \in p : \A f \in log \ p : e.seq < f.seq

=============================================================================
