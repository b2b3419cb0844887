---------------------------- MODULE MCDiscovery ----------------------------
(* A small instance of Discovery for TLC: a site, its feed under a           *)
(* conventional path, a second host, a link no check lets through.           *)
EXTENDS Discovery

U(scheme, host, path) == [scheme |-> scheme, host |-> host, path |-> path]

page  == U("https", "site", "page")
own   == U("https", "site", "feed")
other == U("https", "cdn", "feed")
plain == U("http", "site", "feed")
odd   == U("http", "cdn", "page")

MCWellformed == URL \ {odd}
MCTargets    == {own, plain}
MCStart      == {page, plain}
MCProbes     == <<"feed", "rss">>
MCBody       == {Feed, <<>>, <<own, own>>, <<odd, own, other>>, <<other, own, plain>>}
=============================================================================
