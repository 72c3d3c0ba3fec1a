--------------------------- MODULE MC_ReceivePack ---------------------------
(* A root with a file, and a directory of two files that are just below and  *)
(* just at a size that needs one more byte of header, and beside the root a  *)
(* directory whose name goes on where the root's ends.  The author may empty *)
(* a file, as the first step of writing it again.                            *)
EXTENDS ReceivePack, TLC

site  == <<"site">>
index == <<"site", "index">>
posts == <<"site", "posts">>
old   == <<"site", "posts", "1">>
new   == <<"site", "posts", "2">>
drafts == <<"site-drafts">>
draft  == <<"site-drafts", "3">>

MCDirs    == {<<>>, site, posts, drafts}
MCListing == <<<<>>, site, index, posts, old, new, drafts, draft>>
MCEdited  == {index, posts, old, new}
MCSizeOf  == [empty |-> 0, line |-> 15, word |-> 16, page |-> 2047, text |-> 2048, book |-> 262144]
MCTorn    == {[of |-> {"book", "empty"}, as |-> "text"], [of |-> {"text", "empty"}, as |-> "word"]}

MCNameStarts == {<<n, n>> : n \in {"site", "index", "posts", "1", "2", "site-drafts", "3"}}
                    \cup {<<"site-drafts", "site">>}

Empty == [p \in {<<>>, site, posts, drafts} |-> "dir"]
MCOrigins == {Empty, Empty @@ (index :> "line") @@ (draft :> "page"),
              Empty @@ (index :> "word") @@ (old :> "page") @@ (new :> "text"),
              Empty @@ (new :> "book")}

=============================================================================
