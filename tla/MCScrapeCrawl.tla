---------------------------- MODULE MCScrapeCrawl ----------------------------
(* Two seeds; two spellings of one page; two pages of one path that differ *)
(* in the query; a page outside of the seeds' directories; one without     *)
(* text.  The page home has any two links, list1 some, so that a page may  *)
(* be found by a short and by a long way, in either order, or in a cycle.  *)
EXTENDS ScrapeCrawl

Page(path, slash, query) ==
    [origin |-> "site", path |-> path, slash |-> slash, query |-> query]
Home == Page(<<"docs">>, TRUE, "")
Start == Page(<<"wiki", "start">>, FALSE, "")
List1 == Page(<<"docs", "list">>, FALSE, "1")
List2 == Page(<<"docs", "list">>, FALSE, "2")
Deep == Page(<<"wiki", "deep">>, FALSE, "")
DeepSlash == Page(<<"wiki", "deep">>, TRUE, "")
Out == Page(<<"blog">>, FALSE, "")

MCUrl == {Home, Start, List1, List2, Deep, DeepSlash, Out}
MCSeeds == <<Home, Start, Home>>
Pair(set) == {<<u, v>> : u, v \in set}
MCSite == {[u \in MCUrl |->
    CASE u = Home -> p [] u = List1 -> q
      [] u = Start -> <<DeepSlash>>
      [] u \in {Deep, DeepSlash} -> <<List1, List2>>
      [] OTHER -> <<Home>>] : p \in Pair(MCUrl), q \in Pair({Home, Deep, DeepSlash})}
MCHtml == MCUrl \ {List2}
MCBlank == {Start}
=============================================================================
