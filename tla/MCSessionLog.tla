----------------------------- MODULE MCSessionLog -----------------------------
(***************************************************************************)
(* Small instances of SessionLog, and the mapping under which it           *)
(* implements CommitLog.                                                   *)
(***************************************************************************)
EXTENDS SessionLog

\* A batch's place in the history is the sequence of its first event.
Places(cs) == [b \in IdsOf(cs) |-> (CHOOSE c \in cs : c.id = b).seq]
History == Places(AllCommits(plain, zst))

Written == IF writer.pc = "written" THEN writer.batch[1].id ELSE None
Opened == IF writer.pc = "opened" THEN {writer.batch[1].id} ELSE {}
Unconfirmed == (1 .. used.appends) \ (acked \cup {Written} \cup Opened)

Contract == INSTANCE CommitLog WITH
  Batches   <- Ids,
  NoBatch   <- None,
  history   <- History,
  pending   <- Written,
  acked     <- acked,
  uncertain <- Unconfirmed

\* PERSIST-03 and EVENT-02: the segmented log, through torn writes, crashes,
\* rotation and compression, behaves as one atomic append-only history.
ImplementsCommitLog == Contract!CommitSpec

=============================================================================
