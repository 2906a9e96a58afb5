------------------------------ MODULE Publisher ------------------------------
(* A publisher (lwrclpy/publisher.py): threads that write, borrow loaned      *)
(* messages, ask the writer something, or export a buffer to a side channel,  *)
(* against destroy(), which waits for them for a limited time.  The writer is *)
(* the DDS library's: it must not be used once it is deleted.                 *)
EXTENDS Naturals, Sequences, FiniteSets, SequencesExt

CONSTANTS
  Writers,     \* threads that publish
  Borrowers,   \* threads that borrow a message and may publish it
  Exporters,   \* threads that publish with a buffer on a side channel
  Destroyers,  \* threads that call destroy()
  Keepalive,   \* LWRCLPY_SHM_KEEPALIVE: how many exported buffers are kept
  AutoLoan     \* whether publish() goes through a middleware loan

Threads == Writers \cup Borrowers \cup Exporters
PublisherAssumption ==
  /\ Writers \cap Borrowers = {} /\ (Writers \cup Borrowers) \cap Exporters = {}
  /\ Keepalive \in Nat

VARIABLES
  destroyed,  \* _destroyed
  attached,   \* _writer is not None
  deleted,    \* the DDS writer is deleted
  writes,     \* _active_writes
  loans,      \* _active_loans
  pc,         \* where a thread is
  loaned,     \* the thread has a registered loan
  buffer,     \* the buffer a thread has exported: "none", "open" or "closed"
  keep,       \* _shm_keepalive: the threads whose buffers are kept, oldest first
  dpc         \* where a destroyer is

state == <<destroyed, attached, deleted>>
counts == <<writes, loans>>
side == <<buffer, keep>>
vars == <<state, counts, pc, loaned, side, dpc>>

Init ==
  /\ destroyed = FALSE /\ attached = TRUE /\ deleted = FALSE
  /\ writes = 0 /\ loans = 0
  /\ pc = [t \in Threads |-> "idle"]
  /\ loaned = [t \in Threads |-> FALSE]
  /\ buffer = [t \in Threads |-> "none"]
  /\ keep = <<>>
  /\ dpc = [d \in Destroyers |-> "idle"]

Goto(t, where) == pc' = [pc EXCEPT ![t] = where]

------------------------------------------------------------------------------
(* Use of the writer.                                                         *)

\* Where a thread goes on when it may use the writer, and when it may not:
\* publish_loaned refuses before its try block, so the message stays borrowed.
Admitted(t) == IF pc[t] = "republish" THEN "write" ELSE "using"
Refused(t)  == IF pc[t] = "republish" THEN "holding" ELSE "done"
Wants(t)    == pc[t] = "republish" \/ (pc[t] = "idle" /\ (t \in Exporters => buffer[t] # "none"))

\* _begin_writer_use: under the lock, refused once destroyed.
BeginWriterUse(t) ==
  /\ Wants(t)
  /\ \/ /\ destroyed \/ ~attached
        /\ Goto(t, Refused(t))
        /\ UNCHANGED writes
     \/ /\ ~destroyed /\ attached
        /\ writes' = writes + 1
        /\ Goto(t, Admitted(t))
  /\ UNCHANGED <<state, loans, loaned, side, dpc>>

\* Inside publish(): the regular path, with no loan.
UseDirectly(t) ==
  /\ pc[t] = "using" /\ t \notin Borrowers /\ (t \in Writers => ~AutoLoan)
  /\ Goto(t, "write")
  /\ UNCHANGED <<state, counts, loaned, side, dpc>>

\* _loan_message: the sample is taken from the writer, then _register_loan,
\* which fails once destroyed: publish() falls back to the regular path,
\* borrow_loaned_message raises.
Loan(t) ==
  /\ pc[t] = "using" /\ t \in Borrowers \cup (IF AutoLoan THEN Writers ELSE {})
  /\ \/ /\ ~destroyed
        /\ loans' = loans + 1
        /\ loaned' = [loaned EXCEPT ![t] = TRUE]
        /\ Goto(t, IF t \in Borrowers THEN "leave" ELSE "write")
     \/ /\ destroyed
        /\ Goto(t, IF t \in Borrowers THEN "leave" ELSE "write")
        /\ UNCHANGED <<loans, loaned>>
  /\ UNCHANGED <<state, writes, side, dpc>>

\* The native write, with or without a loan.  When a loaned write fails,
\* publish() releases the loan and writes the regular way.
Write(t) ==
  /\ pc[t] = "write"
  /\ Goto(t, IF loaned[t] THEN "release" ELSE "leave")
  /\ UNCHANGED <<state, counts, loaned, side, dpc>>

LoanedWriteFails(t) ==
  /\ pc[t] = "write" /\ loaned[t] /\ t \in Writers
  /\ loans' = loans - 1
  /\ loaned' = [loaned EXCEPT ![t] = FALSE]
  /\ UNCHANGED <<state, writes, pc, side, dpc>>

\* _LoanedMessage.release.
Release(t) ==
  /\ pc[t] \in {"release", "abandon"}
  /\ loans' = IF loaned[t] /\ loans > 0 THEN loans - 1 ELSE loans
  /\ loaned' = [loaned EXCEPT ![t] = FALSE]
  /\ Goto(t, IF pc[t] = "release" THEN "leave" ELSE "done")
  /\ UNCHANGED <<state, writes, side, dpc>>

\* _end_writer_use; a borrower goes on with its message.
EndWriterUse(t) ==
  /\ pc[t] = "leave"
  /\ writes' = writes - 1
  /\ Goto(t, IF loaned[t] THEN "holding" ELSE "done")
  /\ UNCHANGED <<state, loans, loaned, side, dpc>>

\* The borrower publishes its message, or lets it go (an exception in the
\* with block, or the message is collected).
PublishLoaned(t) ==
  /\ pc[t] = "holding"
  /\ Goto(t, "republish")
  /\ UNCHANGED <<state, counts, loaned, side, dpc>>

Abandon(t) ==
  /\ pc[t] = "holding"
  /\ Goto(t, "abandon")
  /\ UNCHANGED <<state, counts, loaned, side, dpc>>

------------------------------------------------------------------------------
(* The side channel's buffers: exported before the writer is used.            *)

Export(t) ==
  /\ t \in Exporters /\ pc[t] = "idle" /\ buffer[t] = "none"
  /\ buffer' = [buffer EXCEPT ![t] = "open"]
  /\ Goto(t, "announce")
  /\ UNCHANGED <<state, counts, loaned, keep, dpc>>

\* The metadata is published, then under _shm_lock the buffer is kept and the
\* oldest ones beyond the limit are closed.  If publishing fails, the buffer is
\* closed at once.
Announce(t) ==
  /\ pc[t] = "announce"
  /\ \/ LET kept == Append(keep, t)
            over == IF Len(kept) > Keepalive THEN Len(kept) - Keepalive ELSE 0
        IN /\ keep' = SubSeq(kept, over + 1, Len(kept))
           /\ buffer' = [b \in Threads |->
                           IF b \in ToSet(SubSeq(kept, 1, over)) THEN "closed" ELSE buffer[b]]
     \/ /\ buffer' = [buffer EXCEPT ![t] = "closed"]
        /\ UNCHANGED keep
  /\ Goto(t, "idle")
  /\ UNCHANGED <<state, counts, loaned, dpc>>

------------------------------------------------------------------------------
(* destroy().                                                                 *)

Destroy(d) ==
  /\ dpc[d] = "idle"
  /\ dpc' = [dpc EXCEPT ![d] = IF destroyed /\ ~attached THEN "done" ELSE "wait"]
  /\ destroyed' = TRUE
  /\ UNCHANGED <<attached, deleted, counts, pc, loaned, side>>

\* (faulty: only the writes are waited for)
WaitForWrites(d) ==
  /\ dpc[d] = "wait" /\ writes = 0
  /\ attached' = FALSE
  /\ dpc' = [dpc EXCEPT ![d] = IF attached THEN "close" ELSE "closeOnly"]
  /\ UNCHANGED <<destroyed, deleted, counts, pc, loaned, side>>

\* Nothing is in use any more: take the writer off the object.
TakeWriter(d) ==
  /\ dpc[d] = "wait" /\ writes = 0 /\ loans = 0
  /\ attached' = FALSE
  /\ dpc' = [dpc EXCEPT ![d] = IF attached THEN "close" ELSE "closeOnly"]
  /\ UNCHANGED <<destroyed, deleted, counts, pc, loaned, side>>

\* LWRCLPY_DESTROY_LOAN_TIMEOUT: the writer is kept, for a later destroy().
UseTimeout(d) ==
  /\ dpc[d] = "wait" /\ (writes > 0 \/ loans > 0)
  /\ dpc' = [dpc EXCEPT ![d] = "closeOnly"]
  /\ UNCHANGED <<state, counts, pc, loaned, side>>

CloseBuffers(d) ==
  /\ dpc[d] \in {"close", "closeOnly"}
  /\ buffer' = [b \in Threads |-> IF b \in ToSet(keep) THEN "closed" ELSE buffer[b]]
  /\ keep' = <<>>
  /\ dpc' = [dpc EXCEPT ![d] = IF @ = "close" THEN "delete" ELSE "done"]
  /\ UNCHANGED <<state, counts, pc, loaned>>

DeleteWriter(d) ==
  /\ dpc[d] = "delete"
  /\ deleted' = TRUE
  /\ dpc' = [dpc EXCEPT ![d] = "done"]
  /\ UNCHANGED <<destroyed, attached, counts, pc, loaned, side>>

------------------------------------------------------------------------------

UseStep(t) ==
  \/ UseDirectly(t) \/ Loan(t) \/ Write(t) \/ LoanedWriteFails(t)
  \/ Release(t) \/ EndWriterUse(t) \/ Announce(t)
  \/ pc[t] = "republish" /\ BeginWriterUse(t)
DestroyStep(d) == TakeWriter(d) \/ UseTimeout(d) \/ CloseBuffers(d) \/ DeleteWriter(d)

Next ==
  \/ \E t \in Threads :
       UseStep(t) \/ BeginWriterUse(t) \/ PublishLoaned(t) \/ Abandon(t) \/ Export(t)
  \/ \E d \in Destroyers : Destroy(d) \/ DestroyStep(d)

\* Who is inside a call goes on.  Nobody has to publish or give a message back.
Fairness ==
  /\ \A t \in Threads : WF_vars(UseStep(t))
  /\ \A d \in Destroyers : WF_vars(DestroyStep(d))

Spec == Init /\ [][Next]_vars
FairSpec == Spec /\ Fairness

------------------------------------------------------------------------------
(* Properties.                                                                *)

Using(t) == pc[t] \in {"using", "write", "release", "leave"}

TypeOK ==
  /\ {destroyed, attached, deleted} \subseteq BOOLEAN
  /\ writes \in Nat /\ loans \in Nat
  /\ pc \in [Threads -> {"idle", "using", "write", "release", "leave", "holding",
                         "republish", "abandon", "announce", "done"}]
  /\ loaned \in [Threads -> BOOLEAN]
  /\ buffer \in [Threads -> {"none", "open", "closed"}]
  /\ keep \in Seq(Threads)
  /\ dpc \in [Destroyers -> {"idle", "wait", "close", "closeOnly", "delete", "done"}]

\* A writer that is deleted, or that a destroy has taken to delete it, is in
\* nobody's hands: no thread is inside a write or a query, and no loaned message
\* is out, however many destroys were called and however they timed out (code:
\* the use counts, and _destroyed looked at in the same lock section).
NoUseAfterDelete ==
  deleted \/ ~attached => \A t \in Threads : ~Using(t) /\ ~loaned[t]
=============================================================================
