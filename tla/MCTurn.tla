------------------------------- MODULE MCTurn -------------------------------
(* TLC instances of Turn: turns that stream, that do not, that may use no  *)
(* tools, and slash commands, some of them at once.                        *)
EXTENDS Turn, TLC

CONSTANTS able, plain            \* providers: with and without tools
CONSTANTS s, d, mute, c          \* turns: mute has no tools
CONSTANTS find, write, banned    \* tools

InOrder == <<able, plain>>

Tiers == (able :> "standard") @@ (plain :> "powerful")

Called == (s :> {find, write, banned}) @@ (d :> {write}) @@ (mute :> {}) @@ (c :> {})

May == (s :> {find, write}) @@ (d :> {write}) @@ (mute :> {}) @@ (c :> {write})

Slash == (c :> write)

Cast == {[turns |-> {s, c}, failing |-> {}], [turns |-> {d, c}, failing |-> {}],
         [turns |-> {d, mute}, failing |-> {able}], [turns |-> {d, mute}, failing |-> {able, plain}]}
=============================================================================
