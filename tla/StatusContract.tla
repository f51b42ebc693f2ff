---------------------------- MODULE StatusContract ----------------------------
(***************************************************************************)
(* What WatchStatus promises: the daemon publishes a numbered succession of  *)
(* statuses, and what a client has pieced together from a stream is at every *)
(* moment one of them, later than the one it had before.                     *)
(***************************************************************************)
EXTENDS Naturals, Sequences

CONSTANTS Streams, Statuses

VARIABLES published,   \* the statuses in the order of their sequence numbers
          view         \* what each client has: nothing yet, or <<sequence, status>>

contractVars == <<published, view>>

ContractInit ==
    /\ published = <<>>
    /\ view = [r \in Streams |-> <<>>]

Publish ==
    /\ \E s \in Statuses : published' = Append(published, s)
    /\ UNCHANGED view

\* Statuses may be skipped, never revisited or invented.
Deliver(r) ==
    /\ \E n \in 1..Len(published) :
          /\ view[r] # <<>> => view[r][1] < n
          /\ view' = [view EXCEPT ![r] = <<n, published[n]>>]
    /\ UNCHANGED published

ContractSpec ==
    ContractInit /\ [][Publish \/ \E r \in Streams : Deliver(r)]_contractVars
===============================================================================
