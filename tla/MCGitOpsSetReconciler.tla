----------------------- MODULE MCGitOpsSetReconciler -----------------------
(* Small instances of GitOpsSetReconciler for TLC. *)
EXTENDS GitOpsSetReconcilerInvariants

CONSTANTS s1, s2, a, b, c, d

R(id, ver, val) == [ref |-> [id |-> id, ver |-> ver], val |-> val]
Ok(objs) == [kind |-> "ok", objs |-> objs]
NoArtifact == [kind |-> "noArtifact", objs |-> <<>>]
RenderError == [kind |-> "renderError", objs |-> <<>>]

MCValues == {"x", "y"}
TwoVersions == {"v1", "v2"}
OneVersion == {"v1"}
MCSpecs == {"left", "right"}
MCData == {"some", "none"}
NoFaults == {}
DeleteRefused == {<<"delete", "refused">>}
AllFaults == (Operations \X {"refused"}) \cup
             ({"finalizer", "patch", "create", "delete", "status"} \X {"lost"})

\* The left spec gives a, and b when the source holds something; the right
\* spec gives b only, renamed contents, or waits for an artifact.
OneSetRendering ==
  [p \in MCSpecs \X MCData |->
     CASE p = <<"left", "some">> -> Ok(<<R(a, "v1", "x"), R(b, "v1", "x")>>)
       [] p = <<"left", "none">> -> Ok(<<R(a, "v1", "y")>>)
       [] p = <<"right", "some">> -> Ok(<<R(b, "v1", "y"), R(c, "v1", "x")>>)
       [] p = <<"right", "none">> -> NoArtifact]

\* With d, the one identity of the instances that may be unreadable.
UnreadableRendering ==
  [OneSetRendering EXCEPT ![<<"right", "some">>].objs = @ \o <<R(d, "v1", "x")>>]

\* Templates that move a resource to another version, render one twice, keep one
\* and drop one; a source that holds nothing, and one that has no artifact yet.
VersionsRendering ==
  [p \in MCSpecs \X MCData |->
     CASE p = <<"left", "some">> -> Ok(<<R(a, "v1", "x"), R(b, "v1", "x")>>)
       [] p = <<"left", "none">> -> Ok(<<>>)
       [] p = <<"right", "some">> ->
            Ok(<<R(a, "v2", "y"), R(a, "v2", "y"), R(c, "v1", "x"), R(b, "v1", "y")>>)
       [] p = <<"right", "none">> -> NoArtifact]

\* The faults after which a retry puts everything right: a refused create or
\* read, a patch that was done though it seemed to fail.
SafeFaults ==
  {"client", "finalizer", "get", "patch", "create"} \X {"refused"} \cup
  {"finalizer", "patch", "status"} \X {"lost"}

\* Every fault but a status patch that is refused, the one failure the code
\* does not retry when it waits for an artifact.
RetriedFaults == AllFaults \ {<<"status", "refused">>}

\* Two sets that want the same resources, and renderings that fail.
TwoSetsRendering ==
  [p \in MCSpecs \X MCData |->
     CASE p = <<"left", "some">> -> Ok(<<R(a, "v1", "x"), R(b, "v1", "x")>>)
       [] p = <<"left", "none">> -> NoArtifact
       [] p = <<"right", "some">> -> Ok(<<R(b, "v1", "y")>>)
       [] p = <<"right", "none">> -> RenderError]
=============================================================================
