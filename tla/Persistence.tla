----------------------------- MODULE Persistence -----------------------------
(***************************************************************************)
(* What every request of the backend does to the database through two      *)
(* shared services: AuditService.record and the save() of TypeORM.         *)
(*                                                                         *)
(* The backend is one Node.js process over PostgreSQL: a request runs      *)
(* without interruption between two awaits, and every await here is one    *)
(* database statement.  A request is therefore a record that names the     *)
(* await it is at, and one action is one statement with the code that      *)
(* follows it.  Nothing is written inside a transaction.                   *)
(***************************************************************************)

VARIABLE audit  \* the audit log, append-only

(* The audit log (src/src/audit/audit.service.ts).                         *)

Entry(action, entity, actor) ==
    [action |-> action, entity |-> entity, actor |-> actor]

\* A variant that loses the entry, for the mutation checks (as below).
RecordLost(action, entity, actor) == UNCHANGED audit

\* AuditService.record inserts one row and never touches another.
Record(action, entity, actor) ==
    audit' = audit \cup {Entry(action, entity, actor)}

(* TypeORM's repository.save(entity) of a row that exists: a SELECT loads  *)
(* the row again, then an UPDATE writes the columns whose value in the     *)
(* entity differs from the loaded one, whatever the row holds by then.     *)

ColumnUnchanged(entity, loaded, row) == IF entity = loaded THEN entity ELSE row
Column(entity, loaded, row) == IF entity # loaded THEN entity ELSE row

=============================================================================
