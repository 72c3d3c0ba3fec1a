------------------------ MODULE MC_AuthorizedKeys ------------------------
(* Two connections; two keys.  The files: both keys known, with an         *)
(* overriding second line and a name that a later line leaves in place;    *)
(* one with a key promoted by an appended line; and one that does not      *)
(* parse or open.                                                          *)
EXTENDS AuthorizedKeys

CONSTANTS a, b

Line(k, t, n) == [key |-> k, tier |-> t, name |-> n]
File(ok, ls)  == [parses |-> ok, lines |-> ls]

MCKeys  == {a, b}
MCNames == {"ann", "bob"}
MCFiles ==
    {File(TRUE, <<Line(a, "trusted", "ann"), Line(a, "identified", None)>>),
     File(TRUE, <<Line(a, "identified", "bob"), Line(b, "identified", None),
                  Line(a, "trusted", None)>>),
     File(FALSE, <<Line(a, "trusted", "ann")>>)}

==========================================================================
