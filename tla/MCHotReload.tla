----------------------------- MODULE MCHotReload -----------------------------
(* Four versions of a configuration: the first three make engines with     *)
(* other tools, the last one loads but makes none.  There is a reload for  *)
(* every write.                                                            *)
EXTENDS HotReload

MCVersion == 0..MaxWrites
MCSwapper == 1..MaxWrites
MCBuilds == MCVersion \ {3}
MCToolsIn == [v \in MCVersion |->
    CASE v = 0 -> {"search", "read"} [] v = 1 -> {"search"} [] OTHER -> {"search", "grep"}]
MCFirstTools == MCToolsIn[0]
=============================================================================
