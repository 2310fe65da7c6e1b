---- MODULE Exports ----
(* One export of the source adapter: POST writes a pending meta file, answers
   and leaves a goroutine behind that writes the body and then the meta file
   again; a cleaner deletes exports that are older than their time to live.
   Neither file is written in one step, and a crash leaves what there is.  The
   cleaner is a job that no process registers: the code has it, tests call it. *)
EXTENDS Naturals

VARIABLES
    meta,       \* the meta file, "torn" while it is written
    body,       \* the body file: "absent", "partial" or "whole"
    writer,     \* next step of the request and of its goroutine
    expired,    \* CreatedAt is longer ago than the time to live
    cleaner     \* next step of the cleaner

exportVars == <<meta, body, writer, expired, cleaner>>

(* os.WriteFile truncates the file, then writes it; either may fail, and what
   the cleaner removes in between is written for nobody. *)
WriteMeta(status, then, otherwise) ==
    /\ writer = status
    /\ \/ meta # "torn" /\ meta' = "torn" /\ UNCHANGED writer
       \/ meta = "torn" /\ meta' = status /\ writer' = then
       \/ meta = "absent" /\ expired /\ writer' = then /\ UNCHANGED meta
       \/ writer' = otherwise /\ UNCHANGED meta

(* A format that is not supported is refused before there is anything. *)
StartExport ==
    \/ writer = "none" /\ writer' = "pending" /\ UNCHANGED <<meta, body>>
    \/ WriteMeta("pending", "create", "done") /\ UNCHANGED body

CreateBody(then) ==
    /\ writer = "create"
    /\ \/ body' = "partial" /\ writer' = then
       \/ writer' = "failed" /\ UNCHANGED body
    /\ UNCHANGED meta
CopyBody(then) ==
    /\ writer = "copy"
    /\ \/ body' = (IF body = "absent" THEN body ELSE "whole") /\ writer' = then
       \/ writer' = "failed" /\ UNCHANGED body
    /\ UNCHANGED meta

PutMetaFirst ==
    \/ CreateBody("ready")
    \/ WriteMeta("ready", "copy", "failed") /\ UNCHANGED body
    \/ CopyBody("done")

Put ==
    \/ CreateBody("copy")
    \/ CopyBody("ready")
    \/ WriteMeta("ready", "done", "failed") /\ UNCHANGED body

(* The goroutine; that the failure cannot be recorded is ignored. *)
RunAsync == Put \/ (WriteMeta("failed", "done", "done") /\ UNCHANGED body)

(* What GET answers. *)
GetExport ==
    CASE meta = "absent" -> "not found"
      [] meta = "torn" -> "error"
      [] OTHER -> meta

(* A meta file that cannot be read is passed over. *)
ListExpired ==
    /\ cleaner = "idle"
    /\ expired
    /\ meta \notin {"absent", "torn"}
    /\ cleaner' = "delete body"
    /\ UNCHANGED <<meta, body>>

Delete ==
    \/ /\ cleaner = "delete body"
       /\ IF meta \in {"absent", "torn"}
          THEN cleaner' = "idle" /\ UNCHANGED body
          ELSE body' \in {"absent", body} /\ cleaner' = "delete meta"
       /\ UNCHANGED meta
    \/ /\ cleaner = "delete meta"
       /\ meta' \in {"absent", meta}
       /\ cleaner' = "idle"
       /\ UNCHANGED body

Cleanup == (ListExpired \/ Delete) /\ UNCHANGED <<writer, expired>>

Expire == ~expired /\ expired' = TRUE /\ UNCHANGED <<meta, body, writer, cleaner>>

(* The process ends: the goroutine is not taken up again. *)
CrashExports ==
    /\ (writer \notin {"none", "done"}) \/ cleaner # "idle"
    /\ writer' = IF writer = "none" THEN "none" ELSE "done"
    /\ cleaner' = "idle"
    /\ UNCHANGED <<meta, body, expired>>

ExportsIdle ==
    meta = "absent" /\ body = "absent" /\ writer = "done" /\ expired = FALSE /\ cleaner = "idle"
ExportsInit ==
    meta = "absent" /\ body = "absent" /\ writer = "none" /\ expired = FALSE /\ cleaner = "idle"

ExportsNext ==
    \/ (StartExport \/ RunAsync) /\ UNCHANGED <<expired, cleaner>>
    \/ Cleanup
    \/ (writer # "none" /\ Expire)
    \/ CrashExports

(* Whoever polls an export and is told that it is ready finds the whole file,
   whatever failed or crashed, until the export expires.  Put writes the body
   before the meta file that says so. *)
ReadyHasBody == (GetExport = "ready" /\ ~expired) => body = "whole"
====
