------------------------------ MODULE AuditLog ------------------------------
(***************************************************************************)
(* audit_log_repo.h: the append-only record of what administrators did.    *)
(* An entry is what the handlers put in it; its columns' formats are not   *)
(* modelled.                                                               *)
(***************************************************************************)
EXTENDS Requests

VARIABLES audit_logs,   \* the entries, in the order of their INSERTs
          acts,         \* history: what was done, as the entry that is due
          unaudited     \* history: what was done and could not be recorded

auditVars == <<audit_logs, acts, unaudited>>

AuditInit == audit_logs = <<>> /\ acts = <<>> /\ unaudited = <<>>

(***************************************************************************)
(* record is strict: it throws if the INSERT fails.  record_best_effort    *)
(* swallows the failure; only its callers differ.                          *)
(***************************************************************************)
Does(entry) == acts' = Append(acts, entry)

record(entry) ==
    /\ audit_logs' = Append(audit_logs, entry)
    /\ UNCHANGED <<acts, unaudited>>

record_fails(entry) ==
    /\ unaudited' = Append(unaudited, entry)
    /\ UNCHANGED <<audit_logs, acts>>

Times(entry, log) == Cardinality({k \in DOMAIN log : log[k] = entry})

(***************************************************************************)
(* With no handler under way, the log holds one entry for everything that  *)
(* was done and nothing else, except for what the failure of record kept   *)
(* out; a handler answers 500 for it although the work is done.            *)
(***************************************************************************)
ActsAudited ==
    Quiet => \A e \in Range(acts) \cup Range(audit_logs) :
        Times(e, acts) = Times(e, audit_logs) + Times(e, unaudited)
=============================================================================
