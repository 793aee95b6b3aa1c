------------------------------ MODULE CommitLog ------------------------------
(***************************************************************************)
(* What a session's writer may rely on (PERSIST-03, EVENT-02): its batches *)
(* form one totally ordered history, each whole or absent; an acknowledged *)
(* batch keeps its place for ever.  A batch whose append failed, or was    *)
(* cut off by a crash, is uncertain: it may be found in the history, go    *)
(* and come back, and nothing else may.                                    *)
(***************************************************************************)
EXTENDS Integers, Functions

CONSTANTS
  Batches,  \* the identities a batch may have
  NoBatch   \* no batch; not a member of Batches

VARIABLES
  history,   \* the committed batches, each with its place in the order
  pending,   \* the batch written and not yet confirmed
  acked,     \* the confirmed batches
  uncertain  \* the batches whose append was never confirmed

commitVars == <<history, pending, acked, uncertain>>

\* The places of the batches that are in no doubt.
Certain(h, doubt) == [b \in DOMAIN h \ doubt |-> h[b]]

\* A history with one batch more, at its end.
Extended(h, old, b) ==
  /\ DOMAIN h = DOMAIN old \cup {b}
  /\ \A c \in DOMAIN old : h[c] = old[c] /\ old[c] < h[b]

CommitInit ==
  /\ DOMAIN history = {} /\ pending = NoBatch
  /\ acked = {} /\ uncertain = {}

Fresh(b) == b \in Batches \ (acked \cup uncertain \cup DOMAIN history)

\* The whole batch becomes the last of the history.
Publish(b) ==
  /\ pending = NoBatch /\ pending' = b
  /\ Fresh(b)
  /\ Extended(history', history, b)
  /\ UNCHANGED <<acked, uncertain>>

Confirm ==
  /\ pending # NoBatch
  /\ acked' = acked \cup {pending} /\ pending' = NoBatch
  /\ UNCHANGED <<history, uncertain>>

\* The append fails, before the batch was published or after.
Reject(b) ==
  /\ uncertain' = uncertain \cup {b} /\ pending' = NoBatch
  /\ IF pending = NoBatch THEN Fresh(b) ELSE b = pending
  /\ UNCHANGED <<history, acked>>

\* A crash, or the end of a compression, settles what became of the
\* uncertain batches; no two batches share a place.
Settle ==
  /\ pending' \in {pending, NoBatch}
  /\ uncertain \cup ({pending} \ {pending', NoBatch}) \subseteq uncertain'
  /\ uncertain' \subseteq Batches \ acked
  /\ Certain(history', uncertain') = Certain(history, uncertain')
  /\ \A h \in {history'} : IsInjective(h)
  /\ UNCHANGED acked

CommitNext ==
  \/ \E b \in Batches : Publish(b) \/ Reject(b)
  \/ Confirm \/ Settle

CommitSpec == CommitInit /\ [][CommitNext]_commitVars

=============================================================================
