-------------------------- MODULE MCOperationLocks --------------------------
(***************************************************************************)
(* Programs for OperationLocks: two sources, one user, a multipart upload  *)
(* and a directory a with a child.                                         *)
(***************************************************************************)
EXTENDS OperationLocks, TLC

SourcesThenUsers == <<"s1", "s2", "u1">>
dir == <<"a">>
file == <<"a", "b">>
other == <<"c">>

MCKeys ==
  {path(s, p) : s \in {"s1", "s2"}, p \in {dir, file, other}}
    \cup {path("trash", other)}
    \cup {quotaLockKey("s1"), quotaLockKey("s2"), userQuotaLockKey("u1"), multipartKey("m1")}

CONSTANTS a, b, c
together(x, y, z) == a :> x @@ b :> y @@ c :> z

\* One of every handler; limited owners take more locks than unlimited ones.
OneOfEach ==
  { UploadWithLockTokens("s1", "u1", file, TRUE), DeleteWithLockTokens("s1", "u1", dir),
    MoveWithLockTokens("s1", "u1", file, other), imageUpload("s1", "u1", other, TRUE),
    OpenForRead("s1", dir), transfer("s1", "s2", "u1", file, dir),
    transfer("s2", "s1", "u1", file, dir), RestoreTrash("s1", "u1", file, other),
    PurgeTrash("s1", other), UploadPart("s1", "u1", "m1"), Mkdir("s1", dir), PersistentLockCall }
Administration ==
  { handleAdminDelete("s1"), handleAdminDelete("u1"), LockQuotaUpdate("s1") }

\* All handlers but Complete take their locks in one order.
ASSUME HandlersInOrder ==
  /\ \A prog \in OneOfEach \cup Administration : InOrder(prog)
  /\ InOrder(CleanupExpired("m1"))
  /\ ~InOrder(Complete("s1", "u1", "m1", file, TRUE))

\* Any handler and the one that takes most locks while a source is deleted; a
\* completion beside requests that meet its locks while its source is deleted,
\* and beside an upload for every administration: that of a user is like that
\* of a source, and only an upload meets a change of the quota.  Nobody else
\* uses the upload that is completed but the hourly cleanup.
Transfer == transfer("s1", "s2", "u1", file, dir)
Completion == Complete("s1", "u1", "m1", file, TRUE)
Upload == UploadWithLockTokens("s1", "u1", file, FALSE)
Beside ==
  { Upload, DeleteWithLockTokens("s1", "u1", dir), PersistentLockCall, CleanupExpired("m1") }
AnyThree ==
  {together({Transfer}, {y}, {handleAdminDelete("s1")}) : y \in OneOfEach}
    \cup {together({Completion}, {y}, {handleAdminDelete("s1")}) : y \in Beside}
    \cup {together({Completion}, {Upload}, {z}) : z \in Administration}

\* The completion is sent again, or a late part arrives, while the source is
\* being deleted.
PartDuringCompletion ==
  { Complete("s1", "u1", "m1", file, FALSE), UploadPart("s1", "u1", "m1"),
    handleAdminDelete("s1") }

SameUpload == {[p \in Procs |-> PartDuringCompletion]}
=============================================================================
