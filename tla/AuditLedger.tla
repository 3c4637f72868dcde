----------------------------- MODULE AuditLedger -----------------------------
(***************************************************************************)
(* What the audit log promises to the request handlers: an event whose     *)
(* write was acknowledged takes a place in one global order, events become *)
(* durable in that order, none is accepted once the log is sealed, and the *)
(* log reports itself drained only when every accepted event is durable.   *)
(* AsyncAudit implements this specification.                               *)
(***************************************************************************)
EXTENDS Naturals, Sequences, Functions

CONSTANT Events         \* audit events, one per request that writes one

VARIABLES
    accepted,           \* acknowledged events, in the order they were accepted
    durable,            \* how many of them the repository holds
    phase               \* "open", "sealed" by Close, or "drained"

ledgerVars == <<accepted, durable, phase>>

LedgerInit ==
    /\ accepted = <<>>
    /\ durable = 0
    /\ phase = "open"

Accept(e) ==
    /\ phase = "open"
    /\ e \notin Range(accepted)
    /\ accepted' = Append(accepted, e)
    /\ UNCHANGED <<durable, phase>>

MakeDurable ==
    /\ phase # "drained"
    /\ durable' \in (durable + 1) .. Len(accepted)
    /\ UNCHANGED <<accepted, phase>>

Seal ==
    /\ phase = "open"
    /\ phase' = "sealed"
    /\ UNCHANGED <<accepted, durable>>

ReportDrained ==
    /\ phase = "sealed"
    /\ durable = Len(accepted)
    /\ phase' = "drained"
    /\ UNCHANGED <<accepted, durable>>

\* The write that drains the log and the report may be one step of the worker.
MakeDurableAndReport ==
    /\ phase = "sealed"
    /\ durable < Len(accepted)
    /\ durable' = Len(accepted)
    /\ phase' = "drained"
    /\ UNCHANGED accepted

LedgerNext ==
    \/ \E e \in Events : Accept(e)
    \/ MakeDurable
    \/ Seal
    \/ ReportDrained
    \/ MakeDurableAndReport

LedgerSpec == LedgerInit /\ [][LedgerNext]_ledgerVars
=============================================================================
