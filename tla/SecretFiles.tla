---------------------------- MODULE SecretFiles ----------------------------
(* The files that hold secrets, as client/src/secret_file.rs and the file    *)
(* helpers of server/src/operator.rs see them: what is looked at before one  *)
(* is read and what a write leaves behind. A directory entry is a record of  *)
(* what the checks tell apart; what the text means is left to who reads it.  *)

File(Text) == [kind : {"none", "file", "link"}, private : BOOLEAN, small : BOOLEAN, text : Text]

Entry(kind, private, small, text) ==
  [kind |-> kind, private |-> private, small |-> small, text |-> text]

Written(text) == Entry("file", TRUE, TRUE, text)

\* A regular file of its owner alone, of at most 64 KiB. Links are looked at
\* themselves (symlink_metadata), so they are never followed.
Readable(f) == f.kind = "file" /\ f.private /\ f.small

\* The reader of the server's own helpers makes the same checks.
private_read(f) == Readable(f)

\* A directory, not a link to one, that nobody else can enter.
private_dir(dir) == dir.kind = "dir" /\ dir.private

\* The target is free and its directory private.
check_new(dir, f) == f.kind = "none" /\ private_dir(dir)

\* A slip the runs catch: the new file replaces what is there.
create_over(dir, f, text) == IF private_dir(dir) THEN Written(text) ELSE f

\* A new file is written aside and moved into place without replacing anything.
create(dir, f, text) == IF check_new(dir, f) THEN Written(text) ELSE f
=============================================================================
