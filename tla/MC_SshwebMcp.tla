---------------------------- MODULE MC_SshwebMcp ----------------------------
(* Two ports of one host and a dead address, a tool, and calls with two     *)
(* arguments: a number, a text with blanks and one with a "=" in it.        *)
EXTENDS SshwebMcp, TLC

CONSTANTS here, there, dead

MCNameOf == (here :> "host") @@ (there :> "host") @@ (dead :> "dead")

MCShown == [x |-> "x", million |-> "1e+06", a |-> "a"] @@ ("1e+06" :> "1e+06")
              @@ ("a=b" :> "a=b")
MCAssigns == [x |-> {}, a |-> {}] @@ ("1e+06" :> {}) @@ ("a=b" :> {<<"a", "b">>})

Arg(k, v) == [key |-> k, value |-> v]
MCArguments == {{Arg("k", <<"a=b">>), Arg("a", <<"x">>)}, {Arg("k", <<"million">>)},
                {Arg("k", <<"x", "a=b">>), Arg("a", <<"x">>)}, {Arg("k", <<"x", "x">>)}}

=============================================================================
