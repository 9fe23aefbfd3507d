------------------------------- MODULE LogFile -------------------------------
(***************************************************************************)
(* metadata/execution/engine_execution_log.json as engine/logger.py sees   *)
(* it.  _write is Path.write_text: it opens the file for writing, which    *)
(* truncates it, and the text reaches the disk in one or more chunks.  So  *)
(* besides "absent" and a complete "json" document the file can be "empty" *)
(* or "torn" (a proper prefix of the document).                            *)
(***************************************************************************)
EXTENDS Sequences

LogFiles(Record) ==
  [kind : {"absent", "empty", "torn"}, entries : {<<>>}]
    \cup [kind : {"json"}, entries : Seq(Record)]

Absent  == [kind |-> "absent", entries |-> <<>>]
Empty   == [kind |-> "empty",  entries |-> <<>>]
Torn    == [kind |-> "torn",   entries |-> <<>>]
Json(s) == [kind |-> "json",   entries |-> s]

\* Mutant of Readable: the check for an empty file is missing.
ReadableUnlessEmpty(file) == file.kind \notin {"empty", "torn"}

\* _read returns: an absent or empty file holds no entries, a torn one makes
\* json.loads raise JSONDecodeError.
Readable(file) == file.kind # "torn"
Entries(file)  == file.entries
=============================================================================
