-------------------------- MODULE MCSourcePipeline --------------------------
(* The configurations the pipeline is checked with.                        *)
EXTENDS SourcePipeline

(* A local source, a clone that is always fetched and a release archive    *)
(* that is fetched when it is not there.                                   *)
Mixed == {"code", "docs", "release"}
MixedKind == [s \in Mixed |->
    CASE s = "code" -> "local" [] s = "docs" -> "git" [] s = "release" -> "http"]
MixedPolicy == [s \in Mixed |-> IF s = "release" THEN "ifNotPresent" ELSE "always"]

(* A clone that may hang, a scrape, and a structure-only local source. *)
Slow == {"code", "docs", "wiki"}
SlowKind == [s \in Slow |->
    CASE s = "code" -> "local" [] s = "docs" -> "git" [] s = "wiki" -> "scrape"]
SlowPolicy == [s \in Slow |-> IF s = "wiki" THEN "always" ELSE "ifNotPresent"]

(* As many clones as the code's semaphore has slots, and a local source. *)
Many == {"code", "repo1", "repo2", "repo3", "repo4"}
ManyKind == [s \in Many |-> IF s = "code" THEN "local" ELSE "git"]
ManyPolicy == [s \in Many |-> "ifNotPresent"]
=============================================================================
