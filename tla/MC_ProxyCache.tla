--------------------------- MODULE MC_ProxyCache ---------------------------
(* Two sessions on a site that may fetch from one host and from the        *)
(* subdomains of a domain.  Origins redirect to one another, to a host     *)
(* that is not allowed, and to one that also has a private address.        *)
EXTENDS ProxyCache, TLC

CONSTANTS f1, f2

MCUrls == {"page", "image", "elsewhere"}
MCHostOf == [page |-> "cdn", image |-> "img.org", elsewhere |-> "other"]

MCAllowed == {[kind |-> "host", name |-> "cdn"], [kind |-> "suffix", name |-> "org"],
              [kind |-> "any", name |-> "*"]}
MCEndsWith == {<<"img.org", "org">>}
MCResolve == [h \in Hosts |-> IF h = "img.org" THEN {"public", "private"} ELSE {"public"}]
MCRedirects == {<<"page", "image">>, <<"image", "elsewhere">>, <<"image", "page">>}

Same == Permutations({f1, f2})

============================================================================
